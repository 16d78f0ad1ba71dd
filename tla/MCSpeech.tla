------------------------------- MODULE MCSpeech -------------------------------
(***************************************************************************)
(* The way from audio to the overlay page, for TLC: the run loop with its  *)
(* capture, the device it opens, the speech backends, and the captions a   *)
(* backend's transcripts become.  A process has one backend, and what the  *)
(* parts ask of one another is in each of them, so that a behaviour is     *)
(* that of one part; the others keep still.                                *)
(***************************************************************************)
EXTENDS RunLoop, Streaming, SpeechV2, LocalWhisper, Utterance, Azure, AudioDevice, Overlay

\* A caption that wraps, one that fits into a line and is suppressed, and a blank one.
MCTexts == {<<>>, <<"a", "b", "c">>, <<"u", "h">>}
MCSuppressed == {<<"u", "h">>}

\* The machine's devices, with and without one whose name is not unique.
Dev(of, listens) == [words |-> of, records |-> listens]
MCLayouts ==
  {<<Dev({"speakers"}, FALSE), Dev({"speakers", "loopback"}, TRUE)>>,
   <<Dev({"speakers"}, FALSE), Dev({"mic"}, TRUE), Dev({"speakers", "loopback"}, TRUE)>>,
   <<Dev({"mic"}, TRUE), Dev({"mic", "second"}, TRUE)>>}
MCSpecs ==
  {Choice("default", 0, "none"), Choice("index", 1, "none"), Choice("word", 0, "speakers"), Choice("word", 0, "mic")}

VARIABLE part \* the part this behaviour is about

vars == <<part, runLoopVars, streamVars, speechVars, whisperVars, utteranceVars, azureVars, deviceVars,
          overlayVars>>

\* A part that keeps still is in one of its initial states.
Init ==
  /\ part \in {"run", "stream", "speech", "whisper", "utterance", "azure", "device", "overlay"}
  /\ RunLoopInit /\ (part # "run" => engine = "streaming" /\ options = {})
  /\ StreamInit /\ (part # "stream" => provider = "openai")
  /\ SpeechInit
  /\ WhisperInit /\ (part # "whisper" => offloaded = FALSE)
  /\ UtteranceInit /\ AzureInit /\ OverlayInit
  /\ DeviceInit /\ (part # "device" => devices = <<Dev({"mic"}, TRUE), Dev({"mic", "second"}, TRUE)>>
                                        /\ spec = Choice("default", 0, "none"))

Moves(p) ==
  /\ part = p /\ UNCHANGED part
  /\ p # "run" => UNCHANGED runLoopVars
  /\ p # "stream" => UNCHANGED streamVars
  /\ p # "speech" => UNCHANGED speechVars
  /\ p # "whisper" => UNCHANGED whisperVars
  /\ p # "utterance" => UNCHANGED utteranceVars
  /\ p # "azure" => UNCHANGED azureVars
  /\ p # "device" => UNCHANGED deviceVars
  /\ p # "overlay" => UNCHANGED overlayVars

Next ==
  \/ Moves("run") /\ RunLoopNext
  \/ Moves("stream") /\ StreamNext
  \/ Moves("speech") /\ SpeechNext
  \/ Moves("whisper") /\ WhisperNext
  \/ Moves("utterance") /\ UtteranceNext
  \/ Moves("azure") /\ AzureNext
  \/ Moves("device") /\ DeviceNext
  \/ Moves("overlay") /\ OverlayNext

\* What is fair of a part cannot happen in its initial state, so that this asks
\* nothing of the parts that keep still.
Spec ==
  /\ Init /\ [][Next]_vars
  /\ RunLoopFair /\ StreamFair /\ SpeechFair /\ UtteranceFair
=============================================================================
