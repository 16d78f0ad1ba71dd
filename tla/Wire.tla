--------------------------------- MODULE Wire ---------------------------------
(***************************************************************************)
(* The frames on the pipe between the plugin and its child: the Python     *)
(* encoder and decoder, ipc/framing, and the reader thread that feeds the  *)
(* decoder with what read() returns: as many bytes as it asked for or, at  *)
(* the end of the pipe, the rest.  A frame is a header of 16 bytes with a  *)
(* checksum of its own, and a payload: some fixed fields, then strings     *)
(* with their lengths, then at most one more byte.  Of a payload the model *)
(* keeps its length, the lengths its strings claim, and whether they are   *)
(* UTF-8.                                                                  *)
(***************************************************************************)
EXTENDS Integers, Sequences, FiniteSets

CONSTANTS
  MaxPayload,  \* MAX_PAYLOAD_SIZE
  TextLengths, \* the lengths of the strings sent
  Samples,     \* the numbers of samples sent in a frame of audio
  ReadSize,    \* the bytes the reader asks for, 65536
  MaxFrames    \* bound on the frames sent

ASSUME WireAssumption ==
  /\ MaxPayload \in Nat /\ MaxFrames \in Nat /\ ReadSize \in Nat \ {0}
  /\ TextLengths \subseteq Nat /\ Samples \subseteq Nat

VARIABLES
  stream,  \* the frames written into the pipe
  piped,   \* bytes written into the pipe
  hungUp,  \* the plugin has closed its end, or is gone
  arrived, \* bytes read() has returned
  done,    \* frames the decoder has cut off its _buffer
  got,     \* the frames handed to the reader loop (history)
  status   \* the reader thread: "reading", "failed", "ended" set _reader_done; "dead" does not

wireVars == <<stream, piped, hungUp, arrived, done, got, status>>

----------------------------------------------------------------------------
(* encode_... and _pack_frame.                                             *)

HeaderSize == 16

\* Each message: the bytes of its fixed fields, its strings, the bytes after them.
Layout(type) ==
  CASE type = "hello"     -> [fixed |-> 14, texts |-> 1, tail |-> 0]
    [] type = "ready"     -> [fixed |-> 6,  texts |-> 2, tail |-> 1]
    [] type = "audio"     -> [fixed |-> 12, texts |-> 0, tail |-> 0]
    [] type = "partial"   -> [fixed |-> 20, texts |-> 1, tail |-> 0]
    [] type = "final"     -> [fixed |-> 20, texts |-> 1, tail |-> 0]
    [] type = "control"   -> [fixed |-> 10, texts |-> 1, tail |-> 0]
    [] type = "status"    -> [fixed |-> 10, texts |-> 1, tail |-> 0]
    [] type = "heartbeat" -> [fixed |-> 0,  texts |-> 0, tail |-> 0]
    [] type = "flush"     -> [fixed |-> 8,  texts |-> 0, tail |-> 0]

\* The least length the decoder looks at before it unpacks.
Least(type) == Layout(type).fixed + 4 * Layout(type).texts + Layout(type).tail

Types == {"hello", "ready", "audio", "partial", "final", "control", "status", "heartbeat", "flush"}

TextsEnd(from, texts) ==
  LET end[i \in 0..Len(texts)] == IF i = 0 THEN from ELSE end[i - 1] + 4 + texts[i]
  IN end[Len(texts)]

\* A field out of its range, or a payload too long, is a FrameError: nothing is sent.
Encode(type, texts, samples) ==
  [type |-> type, intact |-> TRUE, texts |-> texts, utf8 |-> TRUE, known |-> TRUE,
   samples |-> samples, length |-> TextsEnd(Layout(type).fixed, texts) + Layout(type).tail + 2 * samples]

Encoded ==
  {f \in {Encode(type, texts, samples) :
            type \in Types, texts \in UNION {[1..n -> TextLengths] : n \in 0..2}, samples \in Samples} :
     /\ Len(f.texts) = Layout(f.type).texts /\ (f.type # "audio" => f.samples = 0)
     /\ f.length <= MaxPayload}

\* What a fault on the other side makes of a frame: a header that fails its
\* checksum, a length inside the payload that does not match, bytes that are
\* not UTF-8, a status code nobody knows.
Damaged(f) ==
  {[f EXCEPT !.intact = FALSE]}
  \cup {[f EXCEPT !.texts[i] = @ + d] : i \in DOMAIN f.texts, d \in {-1, 1}}
  \cup (IF f.type = "audio" THEN {[f EXCEPT !.samples = @ + 1]} ELSE {})
  \cup (IF f.texts # <<>> THEN {[f EXCEPT !.utf8 = FALSE]} ELSE {})
  \cup (IF f.type = "status" THEN {[f EXCEPT !.known = FALSE]} ELSE {})

WireInit ==
  /\ stream = <<>> /\ piped = 0 /\ hungUp = FALSE /\ arrived = 0 /\ done = 0 /\ got = <<>> /\ status = "reading"

Sound(f) == f \in Encoded

\* After a damaged frame nothing more is of interest.
WriteFrame ==
  /\ ~hungUp /\ Len(stream) < MaxFrames /\ \A i \in DOMAIN stream : Sound(stream[i])
  /\ \E f \in Encoded, damaged \in BOOLEAN :
       \E g \in IF damaged THEN Damaged(f) ELSE {f} :
         stream' = Append(stream, g) /\ piped' = piped + HeaderSize + g.length
  /\ UNCHANGED <<hungUp, arrived, done, got, status>>

----------------------------------------------------------------------------
(* decode_frame.                                                           *)

\* _unpack_text for each string of the payload: -1 when one does not fit.
Unpack(f) ==
  LET end[i \in 0..Len(f.texts)] ==
        IF i = 0 THEN Layout(f.type).fixed
        ELSE IF end[i - 1] = -1 \/ end[i - 1] + 4 + f.texts[i] > f.length THEN -1
        ELSE end[i - 1] + 4 + f.texts[i]
  IN end[Len(f.texts)]

\* _decode_payload: "ok", "frame" for a FrameError or "unicode" for the error
\* that decoding the text raises, which is not one.
DecodePayload(f) ==
  IF f.length < Least(f.type) THEN "frame"
  ELSE IF f.type = "audio" THEN IF f.length = 12 + 2 * f.samples THEN "ok" ELSE "frame"
  ELSE IF ~f.known \/ Unpack(f) = -1 THEN "frame"
  ELSE IF ~f.utf8 THEN "unicode"
  ELSE IF Unpack(f) + Layout(f.type).tail = f.length THEN "ok" ELSE "frame"

\* Where frame i of the stream begins.
FrameStart(i) ==
  LET at[j \in 1..i] == IF j = 1 THEN 0 ELSE at[j - 1] + HeaderSize + stream[j - 1].length
  IN at[i]

\* Mutant: a header is all it waits for.
DecodeFrameEager(i, bytes) ==
  IF i > Len(stream) \/ bytes < FrameStart(i) + HeaderSize THEN "more"
  ELSE IF ~stream[i].intact THEN "frame" ELSE DecodePayload(stream[i])

\* decode_frame at the start of frame i, with so many bytes there.
DecodeFrame(i, bytes) ==
  IF i > Len(stream) \/ bytes < FrameStart(i) + HeaderSize THEN "more"
  ELSE IF ~stream[i].intact THEN "frame"
  ELSE IF bytes < FrameStart(i) + HeaderSize + stream[i].length THEN "more"
  ELSE DecodePayload(stream[i])

----------------------------------------------------------------------------
(* FrameDecoder.feed and _reader_loop.                                     *)

\* The frame feed stops at, and what it finds there.
StopsAt(bytes) == CHOOSE i \in done + 1..Len(stream) + 1 :
  DecodeFrame(i, bytes) # "ok" /\ \A j \in done + 1..i - 1 : DecodeFrame(j, bytes) = "ok"

\* Within the frame it wrote last the plugin may die after a piece of the
\* header, the header, or a piece of the payload.
Cuts == UNION {{FrameStart(i) + 7, FrameStart(i) + HeaderSize, FrameStart(i) + HeaderSize + stream[i].length - 1}
               : i \in {Len(stream)} \cap DOMAIN stream}

HangUp ==
  /\ ~hungUp /\ hungUp' = TRUE
  /\ piped' \in {bytes \in {piped} \cup Cuts : bytes >= arrived}
  /\ UNCHANGED <<stream, arrived, done, got, status>>

\* sys.stdin.buffer.read(65536): it waits for that many bytes or the end.
ReadTo ==
  IF piped - arrived >= ReadSize THEN {arrived + ReadSize}
  ELSE IF hungUp /\ piped > arrived THEN {piped} ELSE {}

\* An error keeps what the same chunk gave before from the reader loop, which
\* ends on a FrameError and dies of any other.
ReadChunk ==
  /\ status = "reading"
  /\ \E bytes \in ReadTo :
       /\ arrived' = bytes
       /\ LET at == StopsAt(bytes)
              found == DecodeFrame(at, bytes)
          IN /\ status' = CASE found = "more" -> "reading" [] found = "frame" -> "failed"
                            [] found = "unicode" -> "dead"
             /\ done' = IF found = "unicode" THEN done ELSE at - 1
             /\ got' = IF found = "more" THEN got \o SubSeq(stream, done + 1, at - 1) ELSE got
  /\ UNCHANGED <<stream, piped, hungUp>>

ReadEof ==
  /\ status = "reading" /\ hungUp /\ arrived = piped /\ status' = "ended"
  /\ UNCHANGED <<stream, piped, hungUp, arrived, done, got>>

WireNext == WriteFrame \/ HangUp \/ ReadChunk \/ ReadEof

WireSpec == WireInit /\ [][WireNext]_wireVars

----------------------------------------------------------------------------
(* Properties.                                                             *)

\* Wherever a read ends in the stream, the reader gets exactly the frames that
\* were read whole, in order, and at the end of the pipe all that was written
\* whole; it gives up only over a damaged one, and of a damaged one it never
\* makes a message.
WireIsExact ==
  /\ got = SubSeq(stream, 1, Len(got)) /\ \A i \in DOMAIN got : Sound(got[i])
  /\ status \in {"reading", "ended"} =>
       \A i \in DOMAIN stream : i <= Len(got) <=> arrived >= FrameStart(i) + HeaderSize + stream[i].length
  /\ status = "ended" => arrived = piped
  /\ status \in {"failed", "dead"} =>
       ~Sound(stream[Len(stream)]) /\ arrived >= FrameStart(Len(stream)) + HeaderSize

\* A reader that can read does.
WireFairSpec == WireSpec /\ WF_wireVars(ReadChunk \/ ReadEof)

\* What the handshake of the protocol rests on: a HELLO in the pipe reaches the
\* reader loop although the plugin writes nothing more, since it waits for READY.
HelloIsRead ==
  stream # <<>> /\ stream[1].type = "hello" /\ Sound(stream[1]) ~> got # <<>> \/ status # "reading"
=============================================================================
