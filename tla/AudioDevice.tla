------------------------------ MODULE AudioDevice ------------------------------
(***************************************************************************)
(* The device of a capture: audio/devices.py and loopback.py look for the  *)
(* device the configuration names and keep its index, LoopbackStream opens *)
(* it with two native handles, and MicCapture starts and stops the stream. *)
(* The devices are the machine's: they may be plugged and unplugged, and   *)
(* then an index means another one.                                        *)
(***************************************************************************)
EXTENDS Naturals, Sequences, FiniteSets

CONSTANTS
  Layouts,    \* what may be plugged in: sequences of devices
  Specs,      \* what the configuration may say: nothing, an index or a word
  MaxCaptures \* bound on start()

ASSUME DeviceAssumption ==
  /\ Layouts \subseteq Seq([words : SUBSET STRING, records : BOOLEAN])
  /\ MaxCaptures \in Nat

VARIABLES
  devices,   \* the devices: the words of the name, and whether it records
  spec,      \* [audio] device
  chosen,    \* "none", then the index that was found or "refused"
  foundIn,   \* the devices when it was (history)
  holding,   \* MicCapture._stream is set
  got,       \* where its start() is: "off", "begun", "made" or "opened"
  sees,      \* the devices its PyAudio object knows: those of when it was made
  adapter,   \* LoopbackStream holds its handles: _pa and _stream
  players,   \* PyAudio objects nobody terminated
  streams,   \* streams nobody closed
  opened,    \* the device the last stream was opened on
  stranded,  \* calls of stop() in which stop_stream raised (history)
  captures   \* calls of start()

deviceChoice  == <<spec, chosen, foundIn>>
deviceStart   == <<holding, got, sees, captures>>
deviceHandles == <<adapter, players, streams, opened, stranded>>
deviceVars    == <<devices, deviceChoice, deviceStart, deviceHandles>>

NoDevice == [words |-> {}, records |-> FALSE]
Choice(is, index, word) == [is |-> is, index |-> index, word |-> word]

DeviceInit ==
  /\ devices \in Layouts /\ spec \in Specs
  /\ chosen = Choice("none", 0, "none") /\ foundIn = <<>>
  /\ holding = FALSE /\ got = "off" /\ sees = <<>> /\ captures = 0
  /\ adapter = FALSE /\ players = 0 /\ streams = 0 /\ opened = NoDevice /\ stranded = 0

----------------------------------------------------------------------------
(* resolve_device and resolve_loopback_device.                             *)

\* Mutant: the devices that record are numbered among themselves.
ListedRenumbered(layout) ==
  LET all == SelectSeq(layout, LAMBDA d : d.records)
  IN {[index |-> i - 1, words |-> all[i].words] : i \in DOMAIN all}

\* list_input_devices: an index counts every device, one that does not record
\* too.
Listed(layout) ==
  {[index |-> i - 1, words |-> layout[i].words] : i \in {j \in DOMAIN layout : layout[j].records}}

\* A number is an index and never part of a name; a word has to be in the name
\* of one device only. Nothing is the machine's default, here the first.
Resolve(layout) ==
  LET fits == {d \in Listed(layout) :
                 CASE spec.is = "index" -> d.index = spec.index
                   [] spec.is = "word"  -> spec.word \in d.words
                   [] OTHER             -> \A e \in Listed(layout) : d.index <= e.index}
  IN IF Cardinality(fits) = 1
     THEN Choice("index", (CHOOSE d \in fits : TRUE).index, "none")
     ELSE Choice("refused", 0, "none")

ResolveDevice ==
  /\ chosen.is = "none"
  /\ chosen' = Resolve(devices) /\ foundIn' = devices
  /\ UNCHANGED <<devices, spec, deviceStart, deviceHandles>>

Replug ==
  /\ devices' \in Layouts \ {devices}
  /\ UNCHANGED <<deviceChoice, deviceStart, deviceHandles>>

----------------------------------------------------------------------------
(* MicCapture.start over LoopbackStream.start: PyAudio, open, start_stream.  *)
(* Each of the three may fail.                                               *)

\* Mutant: closing the stream raises and the PyAudio object is not terminated.
DisposedUntilError(stream, player) ==
  /\ streams' = IF stream THEN streams - 1 ELSE streams
  /\ players' \in {IF player THEN players - 1 ELSE players, IF stream THEN players ELSE players - 1}

\* _dispose: closes the one and terminates the other, whichever of them raises.
Disposed(stream, player) ==
  /\ streams' = IF stream THEN streams - 1 ELSE streams
  /\ players' = IF player THEN players - 1 ELSE players

\* The stream is kept in _stream before it is started: a second start() does nothing.
CaptureStarts ==
  /\ chosen.is = "index" /\ ~holding /\ captures < MaxCaptures
  /\ captures' = captures + 1 /\ holding' = TRUE /\ got' = "begun"
  /\ UNCHANGED <<devices, deviceChoice, sees, deviceHandles>>

PlayerMade ==
  /\ got = "begun"
  /\ got' = "made" /\ players' = players + 1 /\ sees' = devices
  /\ UNCHANGED <<devices, deviceChoice, holding, captures, adapter, streams, opened, stranded>>

PlayerFails ==
  /\ got = "begun" /\ got' = "off"
  /\ UNCHANGED <<devices, deviceChoice, holding, sees, captures, deviceHandles>>

StreamOpened ==
  /\ got = "made" /\ chosen.index + 1 \in DOMAIN sees
  /\ got' = "opened" /\ streams' = streams + 1 /\ opened' = sees[chosen.index + 1]
  /\ UNCHANGED <<devices, deviceChoice, holding, sees, captures, adapter, players, stranded>>

OpenFails ==
  /\ got = "made" /\ got' = "off" /\ Disposed(FALSE, TRUE)
  /\ UNCHANGED <<devices, deviceChoice, holding, sees, captures, adapter, opened, stranded>>

StreamStarts ==
  /\ got = "opened" /\ got' = "off" /\ adapter' = TRUE
  /\ UNCHANGED <<devices, deviceChoice, holding, sees, captures, players, streams, opened, stranded>>

StreamFails ==
  /\ got = "opened" /\ got' = "off" /\ Disposed(TRUE, TRUE)
  /\ UNCHANGED <<devices, deviceChoice, holding, sees, captures, adapter, opened, stranded>>

----------------------------------------------------------------------------
(* MicCapture.stop.                                                        *)

\* stop_stream, then close, which does nothing after a start that failed.
CaptureCloses ==
  /\ holding /\ got = "off" /\ holding' = FALSE
  /\ adapter' = FALSE /\ Disposed(adapter, adapter)
  /\ UNCHANGED <<devices, deviceChoice, got, sees, captures, opened, stranded>>

\* _stream is cleared first: if stop_stream raises, nobody can close it.
StopStreamRaises ==
  /\ adapter /\ holding' = FALSE
  /\ adapter' = FALSE /\ stranded' = stranded + 1
  /\ UNCHANGED <<devices, deviceChoice, got, sees, captures, players, streams, opened>>

StartStep  == CaptureStarts \/ PlayerMade \/ PlayerFails \/ StreamOpened \/ OpenFails \/ StreamStarts \/ StreamFails
DeviceNext == ResolveDevice \/ Replug \/ StartStep \/ CaptureCloses \/ StopStreamRaises

DeviceSpec == DeviceInit /\ [][DeviceNext]_deviceVars

----------------------------------------------------------------------------
(* Properties.                                                             *)

\* What is recorded is the device the configuration names, if the PyAudio object
\* that opens it knows the devices it was found among.  It does not when one was
\* plugged in or out in between, since only the index is kept.
DeviceIsTheNamed ==
  adapter /\ sees = foundIn =>
    /\ opened = foundIn[chosen.index + 1] /\ opened.records
    /\ spec.is = "word" => spec.word \in opened.words
    /\ spec.is = "index" => opened = foundIn[spec.index + 1]

\* Whichever step of a start failed and however stops and starts follow each other,
\* the native handles that live are those of the stream that runs, which can still
\* be closed, and one pair for each stop() in which stop_stream raised.
HandlesGivenBack ==
  got = "off" =>
    /\ players = streams /\ streams = stranded + (IF adapter THEN 1 ELSE 0)
    /\ adapter => holding
=============================================================================
