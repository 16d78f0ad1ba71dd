--------------------------- MODULE SurfacesProofs ---------------------------
(***************************************************************************)
(* The surfaces around the captions, for every value of their bounds: the  *)
(* pipe to the child hands over the frames that arrived whole, the text    *)
(* source of OBS ends with the newest caption, a hotkey keeps its meaning, *)
(* a child of the settings window has an owner, and the engine whose key   *)
(* was tested is the engine that starts.                                   *)
(***************************************************************************)
EXTENDS Wire, ObsTextSink, ObsHotkey, RunControl, EngineChoice, KeyCheck, Recommendation,
        SequenceLemmas, SequenceTheorems,
        WellFoundedInduction, TLAPS

----------------------------------------------------------------------------
(* The reader gets exactly the frames that were read whole, for payloads,  *)
(* strings and streams of every length and reads of every size.            *)
(*                                                                         *)
(* Three facts about the functions come first: what was encoded is decoded *)
(* (the strings claim exactly the bytes the encoder counted), what was     *)
(* damaged is not taken for a message, and a frame begins where the one    *)
(* before it ends.  The invariant then places the bytes read so far:       *)
(* while the thread reads, the frames handed over are those whose end they *)
(* reach, and only the last frame of the stream may be damaged.            *)

\* The bytes of a payload that its strings claim.
Claimed(texts) ==
  CASE Len(texts) = 0 -> 0 [] Len(texts) = 1 -> 4 + texts[1] [] OTHER -> 8 + texts[1] + texts[2]

LEMMA LayoutFits ==
  ASSUME NEW type \in Types
  PROVE  /\ Layout(type).fixed \in Nat /\ Layout(type).texts \in 0 .. 2 /\ Layout(type).tail \in Nat
         /\ type = "audio" => Layout(type).texts = 0 /\ Layout(type).fixed = 12 /\ Layout(type).tail = 0
<1>1. CASE type = "hello"
  BY <1>1 DEF Layout
<1>2. CASE type = "ready"
  BY <1>2 DEF Layout
<1>3. CASE type = "audio"
  BY <1>3 DEF Layout
<1>4. CASE type = "partial"
  BY <1>4 DEF Layout
<1>5. CASE type = "final"
  BY <1>5 DEF Layout
<1>6. CASE type = "control"
  BY <1>6 DEF Layout
<1>7. CASE type = "status"
  BY <1>7 DEF Layout
<1>8. CASE type = "heartbeat"
  BY <1>8 DEF Layout
<1>9. CASE type = "flush"
  BY <1>9 DEF Layout
<1> QED
  BY <1>1, <1>2, <1>3, <1>4, <1>5, <1>6, <1>7, <1>8, <1>9 DEF Types

LEMMA TextsEndIs ==
  ASSUME NEW from \in Nat, NEW texts \in Seq(Int), Len(texts) \in 0 .. 2
  PROVE  TextsEnd(from, texts) = from + Claimed(texts)
<1> DEFINE n == Len(texts)
           Is(e) == e = [i \in 0 .. n |-> IF i = 0 THEN from ELSE e[i - 1] + 4 + texts[i]]
           e == [i \in 0 .. n |-> IF i = 0 THEN from ELSE IF i = 1 THEN from + 4 + texts[1]
                                  ELSE from + 4 + texts[1] + 4 + texts[2]]
           h == CHOOSE g : Is(g)
<1>0. n \in 0 .. 2 /\ (n >= 1 => texts[1] \in Int) /\ (n = 2 => texts[2] \in Int)
  BY ElementOfSeq
<1> HIDE DEF n
<1>1. \A i \in 0 .. n : e[i] = IF i = 0 THEN from ELSE e[i - 1] + 4 + texts[i]
  BY <1>0
<1>2. Is(e)
  <2>1. e = [i \in 0 .. n |-> e[i]]
    OBVIOUS
  <2> HIDE DEF e
  <2> QED
    BY <1>1, <2>1
<1>3. Is(h)
  <2> HIDE DEF Is, e
  <2> QED
    BY <1>2
<1>4. TextsEnd(from, texts) = h[n]
  BY DEF TextsEnd, n
<1> HIDE DEF h, e
<1>5. \A i \in 0 .. n : h[i] = IF i = 0 THEN from ELSE h[i - 1] + 4 + texts[i]
  BY <1>3
<1>6. h[0] = from /\ (n >= 1 => h[1] = h[0] + 4 + texts[1]) /\ (n = 2 => h[2] = h[1] + 4 + texts[2])
  BY <1>0, <1>5
<1>7. n = 0 => Claimed(texts) = 0
  BY DEF Claimed, n
<1>8. n = 1 => Claimed(texts) = 4 + texts[1]
  BY DEF Claimed, n
<1>9. n = 2 => Claimed(texts) = 8 + texts[1] + texts[2]
  BY DEF Claimed, n
<1>10. CASE n = 0
  BY <1>4, <1>6, <1>7, <1>10
<1>11. CASE n = 1
  BY <1>0, <1>4, <1>6, <1>8, <1>11
<1>12. CASE n = 2
  <2> DEFINE a == texts[1]
             b == texts[2]
  <2>1. a \in Int /\ b \in Int
    BY <1>0, <1>12
  <2>2. h[1] = from + 4 + a /\ h[2] = h[1] + 4 + b
    BY <1>6, <1>12
  <2> HIDE DEF a, b
  <2>3. h[2] = from + (8 + a + b)
    BY <2>1, <2>2
  <2> USE DEF a, b
  <2> QED
    BY <1>4, <1>9, <1>12, <2>3
<1> QED
  BY <1>0, <1>10, <1>11, <1>12

\* _unpack_text: as far as the strings claim, unless one of them does not fit.
LEMMA UnpackIs ==
  ASSUME NEW f, f.type \in Types, f.length \in Int, f.texts \in Seq(Int), Len(f.texts) \in 0 .. 2,
         \A i \in DOMAIN f.texts : f.texts[i] >= -1
  PROVE  LET to == Layout(f.type).fixed + Claimed(f.texts)
         IN /\ Unpack(f) \in {-1, to}
            /\ (\A i \in DOMAIN f.texts : f.texts[i] >= 0) /\ to <= f.length => Unpack(f) = to
<1> DEFINE n == Len(f.texts)
           from == Layout(f.type).fixed
           Cut(x) == IF x > f.length THEN -1 ELSE x
           Is(e) == e = [i \in 0 .. n |-> IF i = 0 THEN from
                                          ELSE IF e[i - 1] = -1 \/ e[i - 1] + 4 + f.texts[i] > f.length THEN -1
                                          ELSE e[i - 1] + 4 + f.texts[i]]
           one == Cut(from + 4 + f.texts[1])
           two == IF one = -1 THEN -1 ELSE Cut(one + 4 + f.texts[2])
           e == [i \in 0 .. n |-> IF i = 0 THEN from ELSE IF i = 1 THEN one ELSE two]
           h == CHOOSE g : Is(g)
<1>0. /\ from \in Nat /\ n \in 0 .. 2
      /\ n >= 1 => f.texts[1] \in Int /\ f.texts[1] >= -1
      /\ n = 2 => f.texts[2] \in Int /\ f.texts[2] >= -1
  BY ElementOfSeq, LayoutFits
<1> HIDE DEF n, from
<1>1. \A i \in 0 .. n : e[i] = IF i = 0 THEN from
                               ELSE IF e[i - 1] = -1 \/ e[i - 1] + 4 + f.texts[i] > f.length THEN -1
                               ELSE e[i - 1] + 4 + f.texts[i]
  BY <1>0, SMTT(30)
<1>2. Is(e)
  <2>1. e = [i \in 0 .. n |-> e[i]]
    OBVIOUS
  <2> HIDE DEF e
  <2> QED
    BY <1>1, <2>1
<1>3. Is(h)
  <2> HIDE DEF Is, e
  <2> QED
    BY <1>2
<1>4. Unpack(f) = h[n]
  BY DEF Unpack, n, from
<1> HIDE DEF h, e
<1>5. \A i \in 0 .. n : h[i] = IF i = 0 THEN from
                               ELSE IF h[i - 1] = -1 \/ h[i - 1] + 4 + f.texts[i] > f.length THEN -1
                               ELSE h[i - 1] + 4 + f.texts[i]
  BY <1>3
<1>6. /\ h[0] = from
      /\ n >= 1 => h[1] = IF h[0] = -1 \/ h[0] + 4 + f.texts[1] > f.length THEN -1 ELSE h[0] + 4 + f.texts[1]
      /\ n = 2 => h[2] = IF h[1] = -1 \/ h[1] + 4 + f.texts[2] > f.length THEN -1 ELSE h[1] + 4 + f.texts[2]
  <2>1. h[0] = from
    BY <1>0, <1>5
  <2>2. n >= 1 => 1 \in 0 .. n /\ 1 - 1 = 0
    BY <1>0
  <2>3. n = 2 => 2 \in 0 .. n /\ 2 - 1 = 1
    OBVIOUS
  <2>4. n >= 1 => h[1] = IF h[0] = -1 \/ h[0] + 4 + f.texts[1] > f.length THEN -1 ELSE h[0] + 4 + f.texts[1]
    BY <1>5, <2>2
  <2>5. n = 2 => h[2] = IF h[1] = -1 \/ h[1] + 4 + f.texts[2] > f.length THEN -1 ELSE h[1] + 4 + f.texts[2]
    BY <1>5, <2>3
  <2> QED
    BY <2>1, <2>4, <2>5
<1>7. DOMAIN f.texts = 1 .. n
  BY DEF n
<1>8. /\ n = 0 => Claimed(f.texts) = 0
      /\ n = 1 => Claimed(f.texts) = 4 + f.texts[1]
      /\ n = 2 => Claimed(f.texts) = 8 + f.texts[1] + f.texts[2]
  BY DEF Claimed, n
<1>9. CASE n = 0
  BY <1>0, <1>4, <1>6, <1>8, <1>9 DEF from
<1> DEFINE a == f.texts[1]
           b == f.texts[2]
<1>10. CASE n = 1
  <2>1. a \in Int /\ a >= -1
    BY <1>0, <1>10
  <2>2. h[1] = IF from + 4 + a > f.length THEN -1 ELSE from + 4 + a
    BY <1>0, <1>6, <1>10
  <2>3. Unpack(f) = h[1] /\ Claimed(f.texts) = 4 + a /\ ((\A i \in DOMAIN f.texts : f.texts[i] >= 0) => a >= 0)
    BY <1>4, <1>7, <1>8, <1>10
  <2>4. Layout(f.type).fixed + Claimed(f.texts) = from + 4 + a
    <3> DEFINE c == Claimed(f.texts)
    <3>1. c = 4 + a
      BY <2>3
    <3> HIDE DEF a, c
    <3>2. from + c = from + 4 + a
      BY <1>0, <2>1, <3>1
    <3> QED
      BY <3>2 DEF c, from
  <2> HIDE DEF a
  <2>5. Unpack(f) \in {-1, from + 4 + a}
    BY <2>2, <2>3
  <2>6. from + 4 + a <= f.length /\ a >= 0 => Unpack(f) = from + 4 + a
    BY <1>0, <2>1, <2>2, <2>3
  <2> HIDE DEF from
  <2> QED
    BY <2>3, <2>4, <2>5, <2>6
<1>11. CASE n = 2
  <2>1. a \in Int /\ a >= -1 /\ b \in Int /\ b >= -1
    BY <1>0, <1>11
  <2>2. h[1] = IF from + 4 + a > f.length THEN -1 ELSE from + 4 + a
    BY <1>0, <1>6, <1>11
  <2>3. h[2] = IF h[1] = -1 \/ h[1] + 4 + b > f.length THEN -1 ELSE h[1] + 4 + b
    BY <1>6, <1>11
  <2>4. /\ Unpack(f) = h[2] /\ Claimed(f.texts) = 8 + a + b
        /\ (\A i \in DOMAIN f.texts : f.texts[i] >= 0) => a >= 0 /\ b >= 0
    BY <1>4, <1>7, <1>8, <1>11
  <2> HIDE DEF a, b
  <2>5. h[1] = -1 => h[2] = -1
    BY <2>3
  <2>6. h[1] # -1 => h[1] = from + 4 + a /\ h[2] = IF from + 8 + a + b > f.length THEN -1 ELSE from + 8 + a + b
    BY <1>0, <2>1, <2>2, <2>3
  <2>7. from + 8 + a + b <= f.length /\ a >= 0 /\ b >= 0 => h[1] # -1 /\ h[2] = from + 8 + a + b
    BY <1>0, <2>1, <2>2, <2>6
  <2>8. Layout(f.type).fixed + Claimed(f.texts) = from + 8 + a + b
    <3> DEFINE c == Claimed(f.texts)
    <3>1. c = 8 + a + b
      BY <2>4
    <3> HIDE DEF c
    <3>2. from + c = from + 8 + a + b
      BY <1>0, <2>1, <3>1
    <3> QED
      BY <3>2 DEF c, from
  <2>9. Unpack(f) \in {-1, from + 8 + a + b}
    BY <2>4, <2>5, <2>6
  <2> HIDE DEF from
  <2> QED
    BY <2>4, <2>7, <2>8, <2>9
<1> QED
  BY <1>0, <1>9, <1>10, <1>11

LEMMA ClaimedIs ==
  ASSUME NEW texts \in Seq(Nat), Len(texts) \in 0 .. 2
  PROVE  Claimed(texts) \in Nat /\ Claimed(texts) >= 4 * Len(texts)
<1>1. CASE Len(texts) = 0
  BY <1>1 DEF Claimed
<1>2. CASE Len(texts) = 1
  <2>1. texts[1] \in Nat
    BY <1>2, ElementOfSeq
  <2> QED
    BY <1>2, <2>1 DEF Claimed
<1>3. CASE Len(texts) = 2
  <2> DEFINE a == texts[1]
             b == texts[2]
  <2>1. a \in Nat /\ b \in Nat
    <3>1. 1 \in 1 .. Len(texts) /\ 2 \in 1 .. Len(texts)
      BY <1>3
    <3> QED
      BY <3>1, ElementOfSeq
  <2>2. Claimed(texts) = 8 + a + b
    BY <1>3 DEF Claimed
  <2> HIDE DEF a, b
  <2> QED
    BY <1>3, <2>1, <2>2
<1> QED
  BY <1>1, <1>2, <1>3

FrameFields == {"type", "intact", "texts", "utf8", "known", "samples", "length"}

LEMMA EncodedIs ==
  ASSUME NEW f \in Encoded
  PROVE  /\ f = [k \in FrameFields |-> f[k]]
         /\ f.type \in Types /\ f.intact /\ f.utf8 /\ f.known
         /\ f.texts \in Seq(Nat) /\ Len(f.texts) = Layout(f.type).texts /\ Len(f.texts) \in 0 .. 2
         /\ f.samples \in Nat /\ (f.type # "audio" => f.samples = 0)
         /\ f.length = Layout(f.type).fixed + Claimed(f.texts) + Layout(f.type).tail + 2 * f.samples
         /\ f.length \in Nat
<1>1. PICK type \in Types, texts \in UNION {[1..n -> TextLengths] : n \in 0..2}, samples \in Samples :
        /\ f = Encode(type, texts, samples)
        /\ Len(f.texts) = Layout(f.type).texts /\ (f.type # "audio" => f.samples = 0)
  BY DEF Encoded
<1>2. /\ f.type = type /\ f.texts = texts /\ f.samples = samples /\ f.intact /\ f.utf8 /\ f.known
      /\ f.length = TextsEnd(Layout(type).fixed, texts) + Layout(type).tail + 2 * samples
      /\ f = [k \in FrameFields |-> f[k]]
  BY <1>1 DEF Encode, FrameFields
<1>3. texts \in Seq(Nat) /\ texts \in Seq(Int) /\ Len(texts) \in 0 .. 2 /\ samples \in Nat
  <2>1. PICK n \in 0 .. 2 : texts \in [1 .. n -> TextLengths]
    OBVIOUS
  <2>2. n \in Nat /\ texts \in [1 .. n -> Nat]
    <3>1. n \in Nat /\ TextLengths \subseteq Nat
      BY WireAssumption
    <3>2. \A i \in 1 .. n : texts[i] \in Nat
      BY <2>1, <3>1
    <3> QED
      BY <2>1, <3>1, <3>2
  <2>3. texts \in Seq(Nat) /\ Len(texts) = n
    BY <2>2
  <2>4. texts \in Seq(Int)
    BY <2>3, SeqMonotonic
  <2> QED
    BY <2>3, <2>4, WireAssumption
<1>4. Layout(type).fixed \in Nat /\ Layout(type).tail \in Nat
  BY LayoutFits
<1>5. TextsEnd(Layout(type).fixed, texts) = Layout(type).fixed + Claimed(texts)
  BY <1>3, <1>4, TextsEndIs
<1>6. Claimed(texts) \in Nat
  BY <1>3, ClaimedIs
<1>7. f.length = Layout(type).fixed + Claimed(texts) + Layout(type).tail + 2 * samples /\ f.length \in Nat
  BY <1>2, <1>3, <1>4, <1>5, <1>6
<1> HIDE DEF FrameFields
<1> QED
  BY <1>1, <1>2, <1>3, <1>7

\* What was encoded is decoded.
LEMMA SoundIsDecoded ==
  ASSUME NEW f \in Encoded
  PROVE  f.intact /\ f.length \in Nat /\ DecodePayload(f) = "ok"
<1> DEFINE fixed == Layout(f.type).fixed
           claimed == Claimed(f.texts)
           tail == Layout(f.type).tail
<1>1. /\ f.type \in Types /\ f.intact /\ f.utf8 /\ f.known /\ f.texts \in Seq(Nat)
      /\ Len(f.texts) = Layout(f.type).texts /\ Len(f.texts) \in 0 .. 2
      /\ f.samples \in Nat /\ (f.type # "audio" => f.samples = 0)
      /\ f.length = fixed + claimed + tail + 2 * f.samples /\ f.length \in Nat
  BY EncodedIs
<1>2. fixed \in Nat /\ tail \in Nat
  BY <1>1, LayoutFits
<1>3. claimed \in Nat /\ claimed >= 4 * Layout(f.type).texts
  BY <1>1, ClaimedIs
<1>4. ~(f.length < Least(f.type))
  <2> DEFINE k == Layout(f.type).texts
  <2>1. Least(f.type) = fixed + 4 * k + tail
    BY DEF Least
  <2>2. k \in Nat /\ claimed >= 4 * k
    BY <1>1, <1>3
  <2> HIDE DEF claimed, fixed, tail, k
  <2> QED
    BY <1>1, <1>2, <1>3, <2>1, <2>2
<1>5. CASE f.type = "audio"
  <2>1. Len(f.texts) = 0 /\ fixed = 12 /\ tail = 0
    BY <1>1, <1>5, LayoutFits
  <2>2. claimed = 0
    BY <2>1 DEF Claimed
  <2>3. f.length = 12 + 2 * f.samples
    BY <1>1, <2>1, <2>2
  <2> QED
    BY <1>1, <1>4, <1>5, <2>3 DEF DecodePayload
<1>6. CASE f.type # "audio"
  <2>1. f.length = fixed + claimed + tail
    BY <1>1, <1>2, <1>3, <1>6
  <2>2. f.texts \in Seq(Int) /\ \A i \in DOMAIN f.texts : f.texts[i] >= -1 /\ f.texts[i] >= 0
    BY <1>1, ElementOfSeq
  <2>3. Unpack(f) = fixed + claimed
    <3>1. fixed + claimed <= f.length
      <4> HIDE DEF fixed, claimed, tail
      <4> QED
        BY <1>2, <1>3, <2>1
    <3>2. f.length \in Int /\ (\A i \in DOMAIN f.texts : f.texts[i] >= -1) /\ f.texts \in Seq(Int)
      BY <1>1, <2>2
    <3>3. \A i \in DOMAIN f.texts : f.texts[i] >= 0
      BY <2>2
    <3> QED
      BY <1>1, <3>1, <3>2, <3>3, UnpackIs
  <2>4. Unpack(f) # -1 /\ Unpack(f) + tail = f.length
    BY <1>2, <1>3, <2>1, <2>3
  <2> QED
    BY <1>1, <1>4, <1>6, <2>4 DEF DecodePayload
<1> QED
  BY <1>1, <1>5, <1>6

LEMMA ClaimedChanges ==
  ASSUME NEW texts \in Seq(Nat), Len(texts) \in 0 .. 2, NEW i \in DOMAIN texts, NEW d \in {-1, 1},
         NEW changed, changed = [texts EXCEPT ![i] = @ + d]
  PROVE  /\ changed \in Seq(Int) /\ Len(changed) = Len(texts) /\ \A j \in DOMAIN changed : changed[j] >= -1
         /\ Claimed(changed) = Claimed(texts) + d
<1> DEFINE n == Len(texts)
<1>1. n \in 0 .. 2 /\ DOMAIN texts = 1 .. n /\ \A j \in 1 .. n : texts[j] \in Nat
  BY ElementOfSeq
<1>2. DOMAIN changed = 1 .. n /\ \A j \in 1 .. n : changed[j] = IF j = i THEN texts[j] + d ELSE texts[j]
  BY <1>1
<1>3. \A j \in 1 .. n : changed[j] \in Int /\ changed[j] >= -1
  <2> SUFFICES ASSUME NEW j \in 1 .. n PROVE changed[j] \in Int /\ changed[j] >= -1
    OBVIOUS
  <2>1. texts[j] \in Nat /\ changed[j] \in {texts[j], texts[j] + d}
    BY <1>1, <1>2
  <2> QED
    BY <2>1
<1>4. changed \in Seq(Int) /\ Len(changed) = n
  <2>1. changed \in [1 .. n -> Int]
    BY <1>2, <1>3
  <2>2. n \in Nat
    BY <1>1
  <2> HIDE DEF n
  <2> QED
    BY <2>1, <2>2
<1>5. Claimed(changed) = Claimed(texts) + d
  <2>1. CASE n = 1
    <3> DEFINE a == texts[1]
               c == changed[1]
    <3>1. a \in Nat /\ c = a + d
      BY <1>1, <1>2, <2>1
    <3>2. Claimed(texts) = 4 + a /\ Claimed(changed) = 4 + c
      BY <1>4, <2>1 DEF Claimed
    <3> HIDE DEF a, c
    <3> QED
      BY <3>1, <3>2
  <2>2. CASE n = 2
    <3> DEFINE a == texts[1]
               b == texts[2]
               c == changed[1]
               e == changed[2]
    <3>1. 1 \in 1 .. n /\ 2 \in 1 .. n /\ (i = 1 \/ i = 2)
      BY <1>1, <2>2
    <3>2. a \in Nat /\ b \in Nat /\ (i = 1 => c = a + d /\ e = b) /\ (i = 2 => c = a /\ e = b + d)
      BY <1>1, <1>2, <3>1
    <3>3. Claimed(texts) = 8 + a + b /\ Claimed(changed) = 8 + c + e
      BY <1>4, <2>2 DEF Claimed
    <3> HIDE DEF a, b, c, e
    <3>4. CASE i = 1
      <4>1. 8 + c + e = (8 + a + b) + d
        BY <3>2, <3>4
      <4> QED
        BY <3>3, <4>1
    <3>5. CASE i = 2
      <4>1. c = a /\ e = b + d /\ a \in Int /\ b \in Int /\ d \in Int
        BY <3>2, <3>5
      <4>2. 8 + c + e = (8 + a + b) + d
        BY <4>1
      <4> QED
        BY <3>3, <4>2
    <3> QED
      BY <3>1, <3>4, <3>5
  <2> QED
    BY <1>1, <2>1, <2>2
<1> QED
  BY <1>2, <1>3, <1>4, <1>5

\* What was damaged is not taken for a message.
LEMMA DamagedIsNoticed ==
  ASSUME NEW f \in Encoded, NEW g \in Damaged(f)
  PROVE  g.length = f.length /\ ~(g.intact /\ DecodePayload(g) = "ok")
<1> DEFINE fixed == Layout(f.type).fixed
           claimed == Claimed(f.texts)
           tail == Layout(f.type).tail
<1>1. /\ f = [k \in FrameFields |-> f[k]]
      /\ f.type \in Types /\ f.intact /\ f.utf8 /\ f.known /\ f.texts \in Seq(Nat)
      /\ Len(f.texts) = Layout(f.type).texts /\ Len(f.texts) \in 0 .. 2
      /\ f.samples \in Nat /\ (f.type # "audio" => f.samples = 0)
      /\ f.length = fixed + claimed + tail + 2 * f.samples /\ f.length \in Nat
  BY EncodedIs
<1>2. fixed \in Nat /\ tail \in Nat
  BY <1>1, LayoutFits
<1>3. claimed \in Nat /\ claimed >= 4 * Layout(f.type).texts
  BY <1>1, ClaimedIs
<1>4. f.type = "audio" => f.texts = <<>> /\ f.length = 12 + 2 * f.samples
  <2> SUFFICES ASSUME f.type = "audio" PROVE f.texts = <<>> /\ f.length = 12 + 2 * f.samples
    OBVIOUS
  <2>1. Len(f.texts) = 0 /\ fixed = 12 /\ tail = 0
    BY <1>1, LayoutFits
  <2>2. claimed = 0
    BY <2>1 DEF Claimed
  <2>3. f.texts = <<>>
    BY <1>1, <2>1, EmptySeq
  <2> QED
    BY <1>1, <2>1, <2>2, <2>3
<1>5. CASE g = [f EXCEPT !.intact = FALSE]
  <2>1. g.length = f.length /\ ~g.intact
    BY <1>1, <1>5 DEF FrameFields
  <2> QED
    BY <2>1
<1>6. CASE \E i \in DOMAIN f.texts, d \in {-1, 1} : g = [f EXCEPT !.texts[i] = @ + d]
  <2>1. PICK i \in DOMAIN f.texts, d \in {-1, 1} : g = [f EXCEPT !.texts[i] = @ + d]
    BY <1>6
  <2>2. g.texts = [f.texts EXCEPT ![i] = @ + d] /\ g.length = f.length /\ g.type = f.type
    BY <1>1, <2>1 DEF FrameFields
  <2>3. /\ g.texts \in Seq(Int) /\ Len(g.texts) \in 0 .. 2 /\ (\A j \in DOMAIN g.texts : g.texts[j] >= -1)
        /\ Claimed(g.texts) = claimed + d
    <3> DEFINE old == f.texts
               new == g.texts
    <3>1. old \in Seq(Nat) /\ Len(old) \in 0 .. 2 /\ i \in DOMAIN old /\ new = [old EXCEPT ![i] = @ + d]
      BY <1>1, <2>2
    <3> HIDE DEF old, new
    <3>2. /\ new \in Seq(Int) /\ Len(new) = Len(old) /\ (\A j \in DOMAIN new : new[j] >= -1)
          /\ Claimed(new) = Claimed(old) + d
      BY <3>1, ClaimedChanges, ZenonT(30)
    <3> QED
      BY <3>1, <3>2 DEF old, new
  <2>4. f.type # "audio"
    BY <1>4
  <2>5. Unpack(g) \in {-1, fixed + (claimed + d)}
    <3>1. g.type \in Types /\ g.length \in Int
      BY <1>1, <2>2
    <3>2. Unpack(g) \in {-1, Layout(g.type).fixed + Claimed(g.texts)}
      BY <2>3, <3>1, UnpackIs
    <3> QED
      BY <2>2, <2>3, <3>2
  <2>6. f.length = fixed + claimed + tail
    <3> HIDE DEF fixed, claimed, tail
    <3> QED
      BY <1>1, <1>2, <1>3, <2>4
  <2>7. Unpack(g) = -1 \/ Unpack(g) + tail # f.length
    <3> HIDE DEF fixed, claimed, tail
    <3> QED
      BY <1>2, <1>3, <2>5, <2>6
  <2> QED
    BY <2>2, <2>4, <2>7 DEF DecodePayload
<1>7. CASE f.type = "audio" /\ g = [f EXCEPT !.samples = @ + 1]
  <2>1. g.samples = f.samples + 1 /\ g.length = f.length /\ g.type = "audio"
    BY <1>1, <1>7 DEF FrameFields
  <2>2. g.length # 12 + 2 * g.samples
    <3> DEFINE n == f.samples
    <3>1. n \in Nat /\ g.samples = n + 1 /\ g.length = 12 + 2 * n
      BY <1>1, <1>4, <1>7, <2>1
    <3> HIDE DEF n
    <3> QED
      BY <3>1
  <2> QED
    BY <2>1, <2>2 DEF DecodePayload
<1>8. CASE f.texts # <<>> /\ g = [f EXCEPT !.utf8 = FALSE]
  <2>1. g.length = f.length /\ g.type # "audio" /\ ~g.utf8
    BY <1>1, <1>4, <1>8 DEF FrameFields
  <2> QED
    BY <2>1 DEF DecodePayload
<1>9. CASE f.type = "status" /\ g = [f EXCEPT !.known = FALSE]
  <2>1. g.length = f.length /\ g.type = "status" /\ ~g.known
    BY <1>1, <1>9 DEF FrameFields
  <2> QED
    BY <2>1 DEF DecodePayload
<1> QED
  BY <1>5, <1>6, <1>7, <1>8, <1>9 DEF Damaged

Frames == Encoded \cup UNION {Damaged(f) : f \in Encoded}

LEMMA FrameIs ==
  ASSUME NEW g \in Frames
  PROVE  g.length \in Nat /\ (g.intact /\ DecodePayload(g) = "ok" <=> Sound(g))
<1>1. CASE g \in Encoded
  BY <1>1, SoundIsDecoded DEF Sound
<1>2. CASE g \notin Encoded
  <2>1. PICK f \in Encoded : g \in Damaged(f)
    BY <1>2 DEF Frames
  <2>2. f.length \in Nat
    BY SoundIsDecoded
  <2> QED
    BY <1>2, <2>1, <2>2, DamagedIsNoticed DEF Sound
<1> QED
  BY <1>1, <1>2

\* FrameStart and the end of a frame, of any stream.
Start(st, i) ==
  LET at[j \in 1..i] == IF j = 1 THEN 0 ELSE at[j - 1] + HeaderSize + st[j - 1].length
  IN at[i]

End(st, i) == Start(st, i) + HeaderSize + st[i].length

LEMMA StartChosen ==
  ASSUME NEW st \in Seq(Frames), NEW i \in 1 .. Len(st) + 1,
         NEW F \in [1 .. Len(st) + 1 -> Nat], F[1] = 0,
         \A j \in 1 .. Len(st) : F[j + 1] = F[j] + HeaderSize + st[j].length
  PROVE  Start(st, i) = F[i]
<1> DEFINE n == Len(st)
           Is(g) == g = [j \in 1 .. i |-> IF j = 1 THEN 0 ELSE g[j - 1] + HeaderSize + st[j - 1].length]
           h == CHOOSE g : Is(g)
           G == [j \in 1 .. i |-> F[j]]
<1>1. n \in Nat /\ i \in Nat /\ i >= 1 /\ i <= n + 1
  BY LenProperties
<1> HIDE DEF n
<1>2. ASSUME NEW j \in 1 .. i
      PROVE  F[j] = IF j = 1 THEN 0 ELSE F[j - 1] + HeaderSize + st[j - 1].length
  <2>1. j # 1 => j - 1 \in 1 .. n /\ (j - 1) + 1 = j
    BY <1>1
  <2> QED
    BY <2>1 DEF n
<1>3. \A j \in 1 .. i : G[j] = IF j = 1 THEN 0 ELSE G[j - 1] + HeaderSize + st[j - 1].length
  <2> SUFFICES ASSUME NEW j \in 1 .. i
               PROVE  G[j] = IF j = 1 THEN 0 ELSE G[j - 1] + HeaderSize + st[j - 1].length
    OBVIOUS
  <2>1. G[j] = F[j] /\ (j # 1 => G[j - 1] = F[j - 1])
    BY <1>1
  <2> HIDE DEF G
  <2> QED
    BY <1>2, <2>1
<1>4. Is(G)
  <2>1. G = [j \in 1 .. i |-> G[j]]
    OBVIOUS
  <2> HIDE DEF G
  <2> QED
    BY <1>3, <2>1
<1>5. Is(h)
  <2> HIDE DEF Is, G
  <2> QED
    BY <1>4
<1>6. Start(st, i) = h[i]
  BY DEF Start
<1> HIDE DEF h, G
<1>7. \A j \in 1 .. i : h[j] = IF j = 1 THEN 0 ELSE h[j - 1] + HeaderSize + st[j - 1].length
  BY <1>5
<1> HIDE DEF Is
<1> DEFINE H == {k \in Nat : k + 1 \in 1 .. i => h[k + 1] = F[k + 1]}
<1>8. 0 \in H
  <2>1. 1 \in 1 .. i /\ h[1] = 0
    BY <1>1, <1>7
  <2> QED
    BY <2>1
<1>9. ASSUME NEW k \in Nat, k \in H PROVE k + 1 \in H
  <2> SUFFICES ASSUME k + 2 \in 1 .. i PROVE h[k + 2] = F[k + 2]
    BY <1>1
  <2> DEFINE j == k + 2
  <2>1. j \in 1 .. i /\ j # 1 /\ j - 1 = k + 1 /\ k + 1 \in 1 .. i
    BY <1>1
  <2>2. h[j - 1] = F[j - 1]
    BY <1>9, <2>1
  <2> HIDE DEF j
  <2>3. h[j] = h[j - 1] + HeaderSize + st[j - 1].length
    BY <1>7, <2>1
  <2>4. F[j] = F[j - 1] + HeaderSize + st[j - 1].length
    BY <1>2, <2>1
  <2>5. h[j] = F[j]
    BY <2>2, <2>3, <2>4
  <2> QED
    BY <2>5 DEF j
<1>10. Nat \subseteq H
  <2> HIDE DEF H
  <2> QED
    BY <1>8, <1>9, SetInduction
<1>11. i - 1 \in Nat /\ (i - 1) + 1 = i /\ i \in 1 .. i
  BY <1>1
<1>12. h[i] = F[i]
  BY <1>10, <1>11
<1> QED
  BY <1>6, <1>12

LEMMA StartExists ==
  ASSUME NEW st \in Seq(Frames)
  PROVE  \E F \in [1 .. Len(st) + 1 -> Nat] :
           F[1] = 0 /\ \A j \in 1 .. Len(st) : F[j + 1] = F[j] + HeaderSize + st[j].length
<1> DEFINE n == Len(st)
           Up(F, k) == F[1] = 0 /\ \A j \in 1 .. k : F[j + 1] = F[j] + HeaderSize + st[j].length
           H == {k \in Nat : k <= n => \E F \in [1 .. k + 1 -> Nat] : Up(F, k)}
<1>1. n \in Nat /\ \A j \in 1 .. n : st[j].length \in Nat
  BY LenProperties, ElementOfSeq, FrameIs
<1> HIDE DEF n
<1>2. 0 \in H
  <2> DEFINE F == [j \in 1 .. 1 |-> 0]
  <2>1. F \in [1 .. 0 + 1 -> Nat] /\ Up(F, 0)
    OBVIOUS
  <2> HIDE DEF F, Up
  <2> QED
    BY <2>1
<1>3. ASSUME NEW k \in Nat, k \in H PROVE k + 1 \in H
  <2> SUFFICES ASSUME k + 1 <= n PROVE \E F \in [1 .. (k + 1) + 1 -> Nat] : Up(F, k + 1)
    <3> HIDE DEF Up
    <3> QED
      OBVIOUS
  <2>1. PICK F \in [1 .. k + 1 -> Nat] : Up(F, k)
    BY <1>1, <1>3
  <2> DEFINE new == F[k + 1] + HeaderSize + st[k + 1].length
             G == [j \in 1 .. k + 2 |-> IF j = k + 2 THEN new ELSE F[j]]
  <2>2. new \in Nat
    BY <1>1, <2>1 DEF HeaderSize
  <2>3. G \in [1 .. (k + 1) + 1 -> Nat]
    BY <2>2
  <2>4. G[1] = 0
    BY <2>1
  <2>5. ASSUME NEW j \in 1 .. k + 1 PROVE G[j + 1] = G[j] + HeaderSize + st[j].length
    <3>1. CASE j = k + 1
      <4>1. G[j + 1] = new /\ G[j] = F[k + 1]
        BY <3>1
      <4> HIDE DEF G
      <4> QED
        BY <3>1, <4>1
    <3>2. CASE j # k + 1
      <4>1. j \in 1 .. k /\ G[j + 1] = F[j + 1] /\ G[j] = F[j]
        BY <3>2
      <4> HIDE DEF G
      <4> QED
        BY <2>1, <4>1
    <3> QED
      BY <3>1, <3>2
  <2> HIDE DEF G
  <2> QED
    BY <2>3, <2>4, <2>5
<1>4. Nat \subseteq H
  <2> HIDE DEF H
  <2> QED
    BY <1>2, <1>3, SetInduction
<1>5. n \in H
  BY <1>1, <1>4
<1> QED
  BY <1>1, <1>5 DEF n

\* A frame begins where the one before it ends.
LEMMA StartStep ==
  ASSUME NEW st \in Seq(Frames)
  PROVE  /\ Start(st, 1) = 0
         /\ \A i \in 1 .. Len(st) + 1 : Start(st, i) \in Nat
         /\ \A i \in 1 .. Len(st) : Start(st, i + 1) = End(st, i)
<1>1. Len(st) \in Nat
  BY LenProperties
<1>2. PICK F \in [1 .. Len(st) + 1 -> Nat] :
        F[1] = 0 /\ \A j \in 1 .. Len(st) : F[j + 1] = F[j] + HeaderSize + st[j].length
  BY StartExists
<1>3. \A i \in 1 .. Len(st) + 1 : Start(st, i) = F[i]
  BY <1>2, StartChosen
<1>4. 1 \in 1 .. Len(st) + 1 /\ \A i \in 1 .. Len(st) : i \in 1 .. Len(st) + 1 /\ i + 1 \in 1 .. Len(st) + 1
  BY <1>1
<1> QED
  BY <1>2, <1>3, <1>4 DEF End

LEMMA StartOrder ==
  ASSUME NEW st \in Seq(Frames), NEW i \in 1 .. Len(st), NEW j \in i + 1 .. Len(st) + 1
  PROVE  End(st, i) <= Start(st, j)
<1> DEFINE H == {k \in Nat : i + 1 + k \in 1 .. Len(st) + 1 => End(st, i) <= Start(st, i + 1 + k)}
<1>1. Len(st) \in Nat /\ i \in Nat
  BY LenProperties
<1>2. /\ \A k \in 1 .. Len(st) + 1 : Start(st, k) \in Nat
      /\ \A k \in 1 .. Len(st) : Start(st, k + 1) = End(st, k)
      /\ \A k \in 1 .. Len(st) : st[k].length \in Nat
  BY StartStep, ElementOfSeq, FrameIs
<1>3. 0 \in H
  BY <1>1, <1>2
<1>4. ASSUME NEW k \in Nat, k \in H PROVE k + 1 \in H
  <2> DEFINE m == i + 1 + k
  <2> SUFFICES ASSUME m + 1 \in 1 .. Len(st) + 1 PROVE End(st, i) <= Start(st, m + 1)
    BY <1>1
  <2>1. m \in 1 .. Len(st) /\ m \in 1 .. Len(st) + 1
    BY <1>1
  <2>2. End(st, i) <= Start(st, m)
    BY <1>4, <2>1
  <2> HIDE DEF m
  <2>3. Start(st, m + 1) = Start(st, m) + HeaderSize + st[m].length
    BY <1>2, <2>1 DEF End
  <2>4. Start(st, m) \in Nat /\ st[m].length \in Nat /\ End(st, i) \in Nat
    BY <1>1, <1>2, <2>1
  <2> QED
    BY <2>2, <2>3, <2>4 DEF HeaderSize
<1>5. Nat \subseteq H
  <2> HIDE DEF H
  <2> QED
    BY <1>3, <1>4, SetInduction
<1>6. j - i - 1 \in Nat /\ i + 1 + (j - i - 1) = j /\ j \in 1 .. Len(st) + 1
  BY <1>1
<1> QED
  BY <1>5, <1>6

LEMMA StartOfMore ==
  ASSUME NEW st \in Seq(Frames), NEW g \in Frames, NEW i \in 1 .. Len(st) + 1
  PROVE  Start(Append(st, g), i) = Start(st, i)
<1> DEFINE more == Append(st, g)
           n == Len(st)
           H == {k \in Nat : k + 1 \in 1 .. n + 1 => Start(more, k + 1) = Start(st, k + 1)}
<1>1. n \in Nat /\ more \in Seq(Frames) /\ Len(more) = n + 1 /\ \A k \in 1 .. n : more[k] = st[k]
  BY LenProperties, AppendProperties
<1> HIDE DEF more
<1>2. /\ Start(st, 1) = 0 /\ Start(more, 1) = 0
      /\ \A k \in 1 .. n : Start(st, k + 1) = End(st, k)
      /\ \A k \in 1 .. n : Start(more, k + 1) = End(more, k)
  BY <1>1, StartStep
<1> HIDE DEF n
<1>3. 0 \in H
  BY <1>2
<1>4. ASSUME NEW k \in Nat, k \in H PROVE k + 1 \in H
  <2> DEFINE m == k + 1
  <2> SUFFICES ASSUME m + 1 \in 1 .. n + 1 PROVE Start(more, m + 1) = Start(st, m + 1)
    OBVIOUS
  <2>1. m \in 1 .. n /\ m \in 1 .. n + 1
    BY <1>1
  <2>2. Start(more, m) = Start(st, m)
    BY <1>4, <2>1
  <2> HIDE DEF m
  <2> QED
    BY <1>1, <1>2, <2>1, <2>2 DEF End
<1>5. Nat \subseteq H
  <2> HIDE DEF H
  <2> QED
    BY <1>3, <1>4, SetInduction
<1>6. i - 1 \in Nat /\ (i - 1) + 1 = i /\ i \in 1 .. n + 1
  BY <1>1 DEF n
<1> QED
  BY <1>5, <1>6 DEF more

LEMMA DecodeIs ==
  ASSUME stream \in Seq(Frames), NEW i \in 1 .. Len(stream), NEW bytes \in Int
  PROVE  /\ DecodeFrame(i, bytes) = "ok" <=> Sound(stream[i]) /\ bytes >= End(stream, i)
         /\ DecodeFrame(i, bytes) = "more" => bytes < End(stream, i)
         /\ DecodeFrame(i, bytes) \notin {"ok", "more"} =>
              ~Sound(stream[i]) /\ bytes >= Start(stream, i) + HeaderSize
         /\ DecodeFrame(i, bytes) \in {"ok", "more", "frame", "unicode"}
<1> DEFINE g == stream[i]
           s == Start(stream, i)
           e == End(stream, i)
<1>1. Len(stream) \in Nat /\ g \in Frames /\ i \in 1 .. Len(stream) + 1
  BY LenProperties, ElementOfSeq
<1>2. g.length \in Nat /\ (g.intact /\ DecodePayload(g) = "ok" <=> Sound(g))
  BY <1>1, FrameIs
<1>3. s \in Nat
  BY <1>1, StartStep
<1>4. e = s + HeaderSize + g.length
  BY DEF End
<1>5. DecodePayload(g) \in {"ok", "frame", "unicode"}
  BY DEF DecodePayload
<1>6. DecodeFrame(i, bytes) = IF bytes < s + HeaderSize THEN "more"
                              ELSE IF ~g.intact THEN "frame"
                              ELSE IF bytes < e THEN "more" ELSE DecodePayload(g)
  <2>1. FrameStart(i) = s
    BY DEF FrameStart, Start
  <2>2. ~(i > Len(stream))
    BY <1>1
  <2> HIDE DEF s, e
  <2> QED
    BY <1>4, <2>1, <2>2 DEF DecodeFrame
<1> HIDE DEF g, s, e
<1> DEFINE len == g.length
           d == DecodeFrame(i, bytes)
           p == DecodePayload(g)
<1>7. len \in Nat /\ e = s + 16 + len
  BY <1>2, <1>4 DEF HeaderSize
<1>8. d = IF bytes < s + 16 THEN "more" ELSE IF ~g.intact THEN "frame" ELSE IF bytes < e THEN "more" ELSE p
  BY <1>6 DEF HeaderSize
<1> HIDE DEF len, d, p
<1>9. d = "ok" <=> Sound(g) /\ bytes >= e
  BY <1>2, <1>3, <1>7, <1>8 DEF p
<1>10. d = "more" => bytes < e
  BY <1>3, <1>5, <1>7, <1>8 DEF p
<1>11. d \notin {"ok", "more"} => ~Sound(g) /\ bytes >= s + HeaderSize
  BY <1>2, <1>3, <1>5, <1>7, <1>8 DEF p, HeaderSize
<1>12. d \in {"ok", "more", "frame", "unicode"}
  BY <1>5, <1>8 DEF p
<1> QED
  BY <1>9, <1>10, <1>11, <1>12 DEF g, s, e, d

\* feed stops somewhere: at the latest where the stream ends.
LEMMA StopFound ==
  ASSUME stream \in Seq(Frames), done \in 0 .. Len(stream), NEW bytes \in Int
  PROVE  /\ StopsAt(bytes) \in done + 1 .. Len(stream) + 1
         /\ DecodeFrame(StopsAt(bytes), bytes) # "ok"
         /\ \A j \in done + 1 .. StopsAt(bytes) - 1 : DecodeFrame(j, bytes) = "ok"
<1> DEFINE n == Len(stream)
           Ok(j) == DecodeFrame(j, bytes) = "ok"
           Stop(i) == ~Ok(i) /\ \A j \in done + 1 .. i - 1 : Ok(j)
           H == {k \in Nat : done + k <= n => \/ \E i \in done + 1 .. n + 1 : Stop(i)
                                              \/ \A j \in done + 1 .. done + k : Ok(j)}
<1>1. n \in Nat /\ done \in Nat /\ done <= n
  BY LenProperties
<1>2. ~Ok(n + 1)
  BY <1>1 DEF DecodeFrame
<1>3. StopsAt(bytes) = CHOOSE i \in done + 1 .. n + 1 : Stop(i)
  BY DEF StopsAt
<1> HIDE DEF n, Ok
<1>4. 0 \in H
  BY <1>1
<1>5. ASSUME NEW k \in Nat, k \in H PROVE k + 1 \in H
  <2> SUFFICES ASSUME done + (k + 1) <= n, ~ \E i \in done + 1 .. n + 1 : Stop(i)
               PROVE  \A j \in done + 1 .. done + (k + 1) : Ok(j)
    OBVIOUS
  <2>1. \A j \in done + 1 .. done + k : Ok(j)
    BY <1>1, <1>5
  <2>2. done + k + 1 \in done + 1 .. n + 1 /\ ~Stop(done + k + 1)
    BY <1>1
  <2>3. Ok(done + k + 1)
    BY <1>1, <2>1, <2>2
  <2> QED
    BY <1>1, <2>1, <2>3
<1>6. Nat \subseteq H
  <2> HIDE DEF H
  <2> QED
    BY <1>4, <1>5, SetInduction
<1>7. n - done \in H /\ done + (n - done) = n
  <2>1. n - done \in Nat /\ done + (n - done) = n
    BY <1>1
  <2> HIDE DEF H
  <2> QED
    BY <1>6, <2>1
<1>8. \E i \in done + 1 .. n + 1 : Stop(i)
  <2>1. CASE \A j \in done + 1 .. n : Ok(j)
    <3>1. n + 1 \in done + 1 .. n + 1 /\ (n + 1) - 1 = n
      BY <1>1
    <3> QED
      BY <1>2, <2>1, <3>1
  <2> QED
    BY <1>1, <1>7, <2>1
<1>9. StopsAt(bytes) \in done + 1 .. n + 1 /\ Stop(StopsAt(bytes))
  <2> HIDE DEF Stop
  <2> QED
    BY <1>3, <1>8
<1> QED
  BY <1>9 DEF n, Ok

\* What the reader loop was given is the beginning of the stream, as far as
\* its frames were read, and only the last frame of the stream is damaged.
WireInv ==
  /\ stream \in Seq(Frames) /\ got \in Seq(Frames) /\ arrived \in Nat /\ done \in Nat
  /\ status \in {"reading", "failed", "dead", "ended"}
  /\ piped \in Nat /\ hungUp \in BOOLEAN
  /\ \A i \in 1 .. Len(stream) - 1 : Sound(stream[i])
  /\ Len(got) <= Len(stream) /\ \A i \in 1 .. Len(got) : got[i] = stream[i] /\ Sound(got[i])
  /\ arrived <= piped /\ piped <= Start(stream, Len(stream) + 1)
  /\ ~hungUp => piped = Start(stream, Len(stream) + 1)
  /\ status = "ended" => hungUp /\ arrived = piped
  /\ status \in {"reading", "ended"} =>
       /\ done = Len(got)
       /\ \A i \in 1 .. Len(stream) : i <= Len(got) <=> arrived >= End(stream, i)
  /\ status \in {"failed", "dead"} => /\ Len(stream) > 0 /\ ~Sound(stream[Len(stream)])
                                      /\ arrived >= Start(stream, Len(stream)) + HeaderSize

LEMMA WireInvExact == WireInv => WireIsExact
<1> SUFFICES ASSUME WireInv PROVE WireIsExact
  OBVIOUS
<1>1. Len(got) \in Nat /\ Len(stream) \in Nat /\ DOMAIN got = 1 .. Len(got) /\ DOMAIN stream = 1 .. Len(stream)
  BY LenProperties DEF WireInv
<1>2. got = SubSeq(stream, 1, Len(got))
  <2> DEFINE n == Len(got)
             sub == SubSeq(stream, 1, n)
  <2>1. n \in Nat /\ n <= Len(stream) /\ got \in Seq(Frames) /\ stream \in Seq(Frames)
    BY <1>1 DEF WireInv
  <2>2. sub \in Seq(Frames) /\ Len(sub) = n /\ \A i \in 1 .. n : sub[i] = stream[i]
    <3> HIDE DEF n
    <3>1. 1 \in 1 .. Len(stream) + 1 /\ n \in 1 - 1 .. Len(stream)
      BY <1>1, <2>1
    <3>2. sub \in Seq(Frames) /\ Len(sub) = n - 1 + 1 /\ \A i \in 1 .. n - 1 + 1 : sub[i] = stream[1 + i - 1]
      BY <2>1, <3>1, SubSeqProperties
    <3>3. n - 1 + 1 = n /\ \A i \in 1 .. n : 1 + i - 1 = i
      BY <2>1
    <3> QED
      BY <3>2, <3>3
  <2> HIDE DEF sub
  <2>3. \A i \in 1 .. n : got[i] = sub[i]
    BY <2>2 DEF WireInv
  <2> QED
    BY <2>1, <2>2, <2>3, SeqEqual DEF sub
<1>3. \A i \in 1 .. Len(stream) : FrameStart(i) + HeaderSize + stream[i].length = End(stream, i)
  BY DEF FrameStart, Start, End
<1>4. FrameStart(Len(stream)) = Start(stream, Len(stream))
  BY DEF FrameStart, Start
<1> QED
  BY <1>1, <1>2, <1>3, <1>4 DEF WireInv, WireIsExact

LEMMA WriteFrameKept == ASSUME WireInv, WriteFrame PROVE WireInv'
<1> DEFINE n == Len(stream)
<1>1. /\ stream \in Seq(Frames) /\ n \in Nat /\ n + 1 \in 1 .. n + 1
      /\ got \in Seq(Frames) /\ Len(got) \in Nat /\ Len(got) <= n
  BY LenProperties DEF WireInv
<1>2. /\ \A i \in 1 .. n : Sound(stream[i])
      /\ arrived' = arrived /\ done' = done /\ got' = got /\ status' = status
      /\ ~hungUp /\ hungUp' = hungUp
  BY <1>1 DEF WriteFrame
<1>3. PICK g \in Frames : stream' = Append(stream, g) /\ piped' = piped + HeaderSize + g.length
  BY DEF WriteFrame, Frames
<1>4. /\ stream' \in Seq(Frames) /\ Len(stream') = n + 1 /\ stream'[n + 1] = g
      /\ \A i \in 1 .. n : stream'[i] = stream[i]
  BY <1>1, <1>3, AppendProperties
<1>5. \A i \in 1 .. n + 1 : Start(stream', i) = Start(stream, i)
  BY <1>1, <1>3, StartOfMore
<1>6. \A i \in 1 .. n : End(stream', i) = End(stream, i)
  <2>1. \A i \in 1 .. n : i \in 1 .. n + 1
    BY <1>1
  <2> HIDE DEF n
  <2> QED
    BY <1>4, <1>5, <2>1 DEF End
<1>7. Start(stream', n + 1) \in Nat /\ g.length \in Nat /\ Start(stream', n + 2) = End(stream', n + 1)
  <2>1. n + 1 \in 1 .. Len(stream') /\ (n + 1) + 1 = n + 2 /\ n + 1 \in 1 .. Len(stream') + 1
    BY <1>1, <1>4
  <2> HIDE DEF n
  <2>2. Start(stream', n + 1) \in Nat /\ Start(stream', (n + 1) + 1) = End(stream', n + 1)
    BY <1>4, <2>1, StartStep
  <2> QED
    BY <2>1, <2>2, FrameIs
<1>8. End(stream', n + 1) = Start(stream', n + 1) + 16 + g.length
  BY <1>4 DEF End, HeaderSize
<1>9. arrived \in Nat /\ arrived <= Start(stream', n + 1) /\ arrived < End(stream', n + 1)
  <2>1. arrived \in Nat /\ arrived <= Start(stream', n + 1)
    BY <1>1, <1>2, <1>5 DEF WireInv
  <2> DEFINE s == Start(stream', n + 1)
             k == g.length
             e == End(stream', n + 1)
  <2>2. arrived \in Nat /\ s \in Nat /\ k \in Nat /\ e = s + 16 + k /\ arrived <= s
    BY <1>7, <1>8, <2>1
  <2> HIDE DEF s, k, e
  <2>3. arrived < e
    BY <2>2
  <2> QED
    BY <2>1, <2>3 DEF e
<1>10. status' \notin {"failed", "dead"}
  <2>1. n > 0 => n \in 1 .. n
    BY <1>1
  <2> QED
    BY <1>2, <2>1 DEF WireInv
<1>11. \A i \in 1 .. Len(stream') - 1 : Sound(stream'[i])
  <2>1. Len(stream') - 1 = n
    BY <1>1, <1>4
  <2> HIDE DEF n
  <2> QED
    BY <1>2, <1>4, <2>1
<1>12. Len(got') <= Len(stream') /\ \A i \in 1 .. Len(got') : got'[i] = stream'[i] /\ Sound(got'[i])
  <2>1. \A i \in 1 .. Len(got) : i \in 1 .. n
    BY <1>1
  <2>2. \A i \in 1 .. Len(got) : got[i] = stream[i] /\ Sound(got[i])
    BY DEF WireInv
  <2> HIDE DEF n
  <2>3. Len(stream') = n + 1 /\ n \in Nat /\ Len(got) \in Nat /\ Len(got) <= n
    BY <1>1, <1>4
  <2>4. Len(got) <= Len(stream')
    BY <2>3
  <2>5. \A i \in 1 .. Len(got) : got[i] = stream'[i] /\ Sound(got[i])
    BY <1>4, <2>1, <2>2
  <2> QED
    BY <1>2, <2>4, <2>5
<1>13. piped' \in Nat /\ piped' = Start(stream', Len(stream') + 1) /\ arrived' <= piped'
  <2> DEFINE s == Start(stream', n + 1)
             e == End(stream', n + 1)
             k == g.length
  <2>1. Start(stream', Len(stream') + 1) = e
    BY <1>1, <1>4, <1>7
  <2>2. piped = s
    BY <1>1, <1>2, <1>5 DEF WireInv
  <2>3. piped' = piped + 16 + k /\ e = s + 16 + k /\ s \in Nat /\ k \in Nat /\ arrived \in Nat /\ arrived < e
    BY <1>3, <1>7, <1>8, <1>9 DEF HeaderSize
  <2> HIDE DEF s, e, k
  <2>4. piped' = e /\ e \in Nat /\ arrived <= e
    BY <2>2, <2>3
  <2> QED
    BY <1>2, <2>1, <2>4
<1>14. status' \in {"reading", "ended"} =>
         /\ done' = Len(got')
         /\ \A i \in 1 .. Len(stream') : i <= Len(got') <=> arrived' >= End(stream', i)
  <2> SUFFICES ASSUME status \in {"reading", "ended"}, NEW i \in 1 .. n + 1
               PROVE  done = Len(got) /\ (i <= Len(got) <=> arrived >= End(stream', i))
    BY <1>2, <1>4
  <2>1. done = Len(got)
    BY DEF WireInv
  <2>2. CASE i = n + 1
    <3> DEFINE e == End(stream', n + 1)
    <3>1. e \in Int /\ arrived < e /\ arrived \in Int
      BY <1>7, <1>8, <1>9
    <3>2. ~(i <= Len(got))
      BY <1>1, <2>2
    <3> HIDE DEF e
    <3>3. ~(arrived >= e)
      BY <3>1
    <3> QED
      BY <2>1, <2>2, <3>2, <3>3 DEF e
  <2>3. CASE i \in 1 .. n
    BY <1>6, <2>1, <2>3 DEF WireInv
  <2> QED
    BY <1>1, <2>2, <2>3
<1>15. stream' \in Seq(Frames) /\ got' \in Seq(Frames) /\ arrived' \in Nat /\ done' \in Nat
       /\ status' \in {"reading", "failed", "dead", "ended"}
  BY <1>1, <1>2, <1>4 DEF WireInv
<1>16. /\ hungUp' \in BOOLEAN /\ piped' <= Start(stream', Len(stream') + 1)
       /\ status' = "ended" => hungUp' /\ arrived' = piped'
  BY <1>2, <1>13 DEF WireInv
<1> QED
  BY <1>2, <1>10, <1>11, <1>12, <1>13, <1>14, <1>15, <1>16 DEF WireInv

\* The plugin hangs up: within its last frame, if not after it.
LEMMA HangUpKept == ASSUME WireInv, HangUp PROVE WireInv'
<1> DEFINE n == Len(stream)
<1>1. /\ stream \in Seq(Frames) /\ n \in Nat /\ hungUp' = TRUE /\ ~hungUp
      /\ UNCHANGED <<stream, arrived, done, got, status>>
  BY LenProperties DEF WireInv, HangUp
<1>2. PICK bytes \in {piped} \cup Cuts : piped' = bytes /\ bytes >= arrived
  BY DEF HangUp
<1>3. bytes \in Nat /\ bytes <= Start(stream, n + 1)
  <2>1. CASE bytes = piped
    BY <2>1 DEF WireInv
  <2>2. CASE bytes \in Cuts
    <3>1. PICK i \in 1 .. n : bytes \in {FrameStart(i) + 7, FrameStart(i) + HeaderSize,
                                         FrameStart(i) + HeaderSize + stream[i].length - 1}
      BY <1>1, <2>2, LenProperties DEF Cuts
    <3> DEFINE s == Start(stream, i)
               k == stream[i].length
               e == End(stream, i)
               t == Start(stream, n + 1)
    <3>2. s = FrameStart(i)
      BY DEF FrameStart, Start
    <3>3. s \in Nat /\ k \in Nat /\ t \in Nat
      BY <1>1, StartStep, ElementOfSeq, FrameIs
    <3>4. e = s + 16 + k /\ bytes \in {s + 7, s + 16, s + 16 + k - 1}
      BY <3>1, <3>2 DEF End, HeaderSize
    <3>5. e <= t
      <4>1. n + 1 \in i + 1 .. n + 1
        BY <1>1
      <4> QED
        BY <1>1, <4>1, StartOrder
    <3> HIDE DEF s, k, e, t
    <3>6. bytes \in Nat /\ bytes <= t
      BY <3>3, <3>4, <3>5
    <3> QED
      BY <3>6 DEF t
  <2> QED
    BY <1>2, <2>1, <2>2
<1> QED
  BY <1>1, <1>2, <1>3 DEF WireInv

LEMMA ReadChunkKept == ASSUME WireInv, ReadChunk PROVE WireInv'
<1> DEFINE n == Len(stream)
<1>1. /\ stream \in Seq(Frames) /\ n \in Nat /\ got \in Seq(Frames) /\ Len(got) \in Nat /\ Len(got) <= n
      /\ arrived \in Nat /\ status = "reading" /\ done = Len(got)
      /\ stream' = stream /\ piped' = piped /\ hungUp' = hungUp
  BY LenProperties DEF WireInv, ReadChunk
<1>2. PICK bytes \in ReadTo :
        /\ arrived' = bytes
        /\ status' = CASE DecodeFrame(StopsAt(bytes), bytes) = "more" -> "reading"
                       [] DecodeFrame(StopsAt(bytes), bytes) = "frame" -> "failed"
                       [] DecodeFrame(StopsAt(bytes), bytes) = "unicode" -> "dead"
        /\ done' = IF DecodeFrame(StopsAt(bytes), bytes) = "unicode" THEN done ELSE StopsAt(bytes) - 1
        /\ got' = IF DecodeFrame(StopsAt(bytes), bytes) = "more"
                  THEN got \o SubSeq(stream, done + 1, StopsAt(bytes) - 1) ELSE got
  BY DEF ReadChunk
<1> DEFINE at == StopsAt(bytes)
           taken == DecodeFrame(at, bytes)
<1>4. bytes \in Nat /\ bytes > arrived /\ bytes <= piped
  BY <1>1, <1>2, WireAssumption DEF ReadTo, WireInv
<1>6. /\ at \in done + 1 .. n + 1 /\ taken # "ok"
      /\ \A j \in done + 1 .. at - 1 : DecodeFrame(j, bytes) = "ok"
  BY <1>1, <1>4, StopFound
<1>7. /\ arrived' = bytes
      /\ status' = CASE taken = "more" -> "reading" [] taken = "frame" -> "failed" [] taken = "unicode" -> "dead"
      /\ done' = IF taken = "unicode" THEN done ELSE at - 1
      /\ got' = IF taken = "more" THEN got \o SubSeq(stream, done + 1, at - 1) ELSE got
  BY <1>2
<1> HIDE DEF at, taken
<1>8. \A j \in 1 .. n :
        /\ DecodeFrame(j, bytes) = "ok" <=> Sound(stream[j]) /\ bytes >= End(stream, j)
        /\ DecodeFrame(j, bytes) = "more" => bytes < End(stream, j)
        /\ DecodeFrame(j, bytes) \notin {"ok", "more"} =>
             ~Sound(stream[j]) /\ bytes >= Start(stream, j) + HeaderSize
        /\ DecodeFrame(j, bytes) \in {"ok", "more", "frame", "unicode"}
  BY <1>1, <1>4, DecodeIs
<1>9. at = n + 1 => taken = "more"
  BY <1>1 DEF DecodeFrame, taken
<1>10. \A j \in 1 .. n : End(stream, j) \in Nat /\ Start(stream, j) \in Nat
  <2>1. \A j \in 1 .. n : j \in 1 .. n + 1 /\ j + 1 \in 1 .. n + 1
    BY <1>1
  <2> QED
    BY <1>1, <2>1, StartStep
<1>11. at \in Nat /\ at >= 1 /\ at <= n + 1 /\ Len(got) < at /\ (at # n + 1 => at \in 1 .. n)
  BY <1>1, <1>6
<1>12. CASE taken = "more"
  <2>1. status' = "reading" /\ done' = at - 1 /\ got' = got \o SubSeq(stream, done + 1, at - 1)
    BY <1>7, <1>12
  <2> DEFINE sub == SubSeq(stream, done + 1, at - 1)
  <2>2. sub \in Seq(Frames) /\ Len(sub) = at - 1 - done /\ \A j \in 1 .. at - 1 - done : sub[j] = stream[done + j]
    <3>1. done + 1 \in 1 .. Len(stream) + 1 /\ at - 1 \in (done + 1) - 1 .. Len(stream)
      BY <1>1, <1>11
    <3>2. /\ sub \in Seq(Frames) /\ Len(sub) = (at - 1) - (done + 1) + 1
          /\ \A j \in 1 .. (at - 1) - (done + 1) + 1 : sub[j] = stream[(done + 1) + j - 1]
      BY <1>1, <3>1, SubSeqProperties
    <3>3. (at - 1) - (done + 1) + 1 = at - 1 - done
      BY <1>1, <1>11
    <3>4. \A j \in 1 .. at - 1 - done : (done + 1) + j - 1 = done + j
      BY <1>1, <1>11
    <3> HIDE DEF sub
    <3> QED
      BY <3>2, <3>3, <3>4
  <2> HIDE DEF sub
  <2>3. /\ got' \in Seq(Frames) /\ Len(got') = at - 1
        /\ \A j \in 1 .. Len(got) : got'[j] = got[j]
        /\ \A j \in done + 1 .. at - 1 : got'[j] = sub[j - done]
    <3>1. /\ got \o sub \in Seq(Frames) /\ Len(got \o sub) = Len(got) + Len(sub)
          /\ \A j \in 1 .. Len(got) + Len(sub) :
               (got \o sub)[j] = IF j <= Len(got) THEN got[j] ELSE sub[j - Len(got)]
      BY <1>1, <2>2, ConcatProperties
    <3>2. got' = got \o sub /\ Len(got) + Len(sub) = at - 1
      BY <1>1, <1>11, <2>1, <2>2 DEF sub
    <3>3. \A j \in 1 .. at - 1 : got'[j] = IF j <= done THEN got[j] ELSE sub[j - done]
      BY <1>1, <3>1, <3>2
    <3> QED
      BY <1>1, <1>11, <3>1, <3>2, <3>3
  <2>4. ASSUME NEW j \in 1 .. at - 1
        PROVE  got'[j] = stream[j] /\ Sound(got'[j]) /\ bytes >= End(stream, j)
    <3>1. j \in 1 .. n
      BY <1>11
    <3>2. CASE j <= Len(got)
      <4>1. j \in 1 .. Len(got)
        BY <1>1, <3>2
      <4>2. got'[j] = stream[j] /\ Sound(got'[j]) /\ arrived >= End(stream, j)
        BY <1>1, <2>3, <3>1, <4>1 DEF WireInv
      <4> DEFINE e == End(stream, j)
      <4>3. e \in Nat /\ arrived \in Nat /\ bytes \in Nat /\ bytes > arrived /\ arrived >= e
        BY <1>1, <1>4, <1>10, <3>1, <4>2
      <4> HIDE DEF e
      <4>4. bytes >= e
        BY <4>3
      <4> QED
        BY <4>2, <4>4 DEF e
    <3>3. CASE ~(j <= Len(got))
      <4>1. j \in done + 1 .. at - 1 /\ j - done \in 1 .. at - 1 - done /\ done + (j - done) = j
        BY <1>1, <1>11, <3>3
      <4>2. got'[j] = stream[j]
        BY <2>2, <2>3, <4>1
      <4>3. DecodeFrame(j, bytes) = "ok"
        BY <1>6, <4>1
      <4> QED
        BY <1>8, <3>1, <4>2, <4>3
    <3> QED
      BY <3>2, <3>3
  <2>5. ASSUME NEW j \in 1 .. n, ~(j <= at - 1)
        PROVE  ~(bytes >= End(stream, j))
    <3>1. at \in 1 .. n /\ at <= j
      BY <1>11, <2>5
    <3>2. bytes < End(stream, at)
      BY <1>8, <1>12, <3>1 DEF taken
    <3> DEFINE e == End(stream, at)
               t == End(stream, j)
               s == Start(stream, j)
    <3>3. at # j => e <= s
      <4>1. at # j => j \in at + 1 .. n + 1
        BY <1>11, <3>1
      <4> QED
        BY <1>1, <3>1, <4>1, StartOrder
    <3>4. s <= t
      <4> DEFINE k == stream[j].length
      <4>1. k \in Nat /\ t = s + 16 + k /\ s \in Nat
        BY <1>1, <1>10, ElementOfSeq, FrameIs DEF End, HeaderSize
      <4> HIDE DEF k, s, t
      <4> QED
        BY <4>1
    <3>5. e \in Nat /\ t \in Nat /\ s \in Nat /\ bytes < e /\ bytes \in Nat
      BY <1>4, <1>10, <3>1, <3>2
    <3>6. at = j => e = t
      OBVIOUS
    <3> HIDE DEF e, t, s
    <3>7. bytes < t
      BY <3>3, <3>4, <3>5, <3>6
    <3>8. ~(bytes >= t)
      BY <3>5, <3>7
    <3> QED
      BY <3>8 DEF t
  <2>6. Len(got') <= Len(stream') /\ \A j \in 1 .. Len(got') : got'[j] = stream'[j] /\ Sound(got'[j])
    <3>1. Len(got') <= n
      BY <1>11, <2>3
    <3>2. \A j \in 1 .. Len(got') : got'[j] = stream[j] /\ Sound(got'[j])
      BY <2>3, <2>4
    <3> HIDE DEF n
    <3>3. Len(stream') = n
      BY <1>1 DEF n
    <3> QED
      BY <1>1, <3>1, <3>2, <3>3
  <2>7. \A j \in 1 .. Len(stream') : j <= Len(got') <=> arrived' >= End(stream', j)
    <3> SUFFICES ASSUME NEW j \in 1 .. n PROVE j <= at - 1 <=> bytes >= End(stream, j)
      BY <1>1, <1>7, <2>3
    <3>1. j <= at - 1 => j \in 1 .. at - 1
      BY <1>11
    <3> QED
      BY <2>4, <2>5, <3>1
  <2>8. done' \in Nat /\ done' = Len(got') /\ got' \in Seq(Frames)
    <3>1. at - 1 \in Nat
      BY <1>11
    <3> QED
      BY <2>1, <2>3, <3>1
  <2>9. /\ stream' \in Seq(Frames) /\ arrived' \in Nat /\ arrived' <= piped'
        /\ piped' \in Nat /\ hungUp' \in BOOLEAN /\ piped' <= Start(stream', Len(stream') + 1)
        /\ ~hungUp' => piped' = Start(stream', Len(stream') + 1)
        /\ \A j \in 1 .. Len(stream') - 1 : Sound(stream'[j])
    BY <1>1, <1>4, <1>7 DEF WireInv
  <2> QED
    BY <2>1, <2>6, <2>7, <2>8, <2>9 DEF WireInv
<1>13. CASE taken # "more"
  <2>1. at \in 1 .. n
    BY <1>9, <1>11, <1>13
  <2>2. ~Sound(stream[at]) /\ bytes >= Start(stream, at) + HeaderSize /\ taken \in {"frame", "unicode"}
    BY <1>6, <1>8, <1>13, <2>1 DEF taken
  <2>3. at = n
    <3>1. at # n => at \in 1 .. n - 1
      BY <1>11, <2>1
    <3> QED
      BY <2>2, <3>1 DEF WireInv
  <2>4. status' \in {"failed", "dead"} /\ got' = got /\ done' \in {done, at - 1}
    BY <1>7, <2>2
  <2>5. at - 1 \in Nat /\ n > 0 /\ done \in Nat
    BY <1>1, <1>11, <2>3
  <2>6. \A j \in 1 .. Len(got) : got[j] = stream[j] /\ Sound(got[j])
    BY DEF WireInv
  <2>7. \A j \in 1 .. n - 1 : Sound(stream[j])
    BY DEF WireInv
  <2> QED
    BY <1>1, <1>4, <1>7, <2>2, <2>3, <2>4, <2>5, <2>6, <2>7 DEF WireInv
<1> QED
  BY <1>12, <1>13

\* However many bytes a read returns, and wherever the plugin dies, the reader
\* loop has exactly the frames that were read whole, and at the end of the pipe
\* all that was written whole; it gives up only over a damaged one.
THEOREM FramesArriveWhole == WireSpec => []WireIsExact
<1>1. WireInit => WireInv
  <2> SUFFICES ASSUME WireInit PROVE WireInv
    OBVIOUS
  <2>1. /\ stream = <<>> /\ got = <<>> /\ arrived = 0 /\ done = 0 /\ status = "reading"
        /\ piped = 0 /\ hungUp = FALSE
    BY DEF WireInit
  <2>2. stream \in Seq(Frames) /\ got \in Seq(Frames) /\ Len(stream) = 0 /\ Len(got) = 0
    BY <2>1
  <2>3. Start(stream, 1) = 0 /\ Len(stream) + 1 = 1
    <3>1. Start(stream, 1) = 0
      BY <2>2, StartStep
    <3>2. Len(stream) + 1 = 1
      BY <2>2
    <3> QED
      BY <3>1, <3>2
  <2>4. Start(stream, Len(stream) + 1) = 0
    BY <2>3
  <2>5. piped = Start(stream, Len(stream) + 1) /\ arrived <= piped /\ piped <= Start(stream, Len(stream) + 1)
    BY <2>1, <2>4
  <2>6. \A i \in 1 .. Len(stream) : FALSE
    BY <2>2
  <2>7. hungUp \in BOOLEAN
    BY <2>1, Zenon
  <2>10. piped \in Nat /\ arrived \in Nat /\ done \in Nat
    BY <2>1
  <2>11. done = Len(got) /\ Len(got) <= Len(stream)
    BY <2>1, <2>2
  <2>8. (\A i \in 1 .. Len(stream) - 1 : FALSE) /\ (\A i \in 1 .. Len(got) : FALSE)
    BY <2>2
  <2>9. status = "reading"
    BY <2>1
  <2> QED
    BY <2>2, <2>5, <2>6, <2>7, <2>8, <2>9, <2>10, <2>11, ZenonT(30) DEF WireInv
<1>2. WireInv /\ [WireNext]_wireVars => WireInv'
  <2> SUFFICES ASSUME WireInv, [WireNext]_wireVars PROVE WireInv'
    OBVIOUS
  <2>1. CASE WriteFrame
    BY <2>1, WriteFrameKept
  <2>2. CASE ReadChunk
    BY <2>2, ReadChunkKept
  <2>5. CASE HangUp
    BY <2>5, HangUpKept
  <2>3. CASE ReadEof
    BY <2>3 DEF ReadEof, WireInv
  <2>4. CASE UNCHANGED wireVars
    BY <2>4 DEF wireVars, WireInv
  <2> QED
    BY <2>1, <2>2, <2>3, <2>4, <2>5 DEF WireNext
<1> QED
  BY <1>1, <1>2, WireInvExact, PTL DEF WireSpec

----------------------------------------------------------------------------
(* The OBS sink ends with the newest caption on the text source, and holds *)
(* nothing after stop(), for every number of captions, faults and attempts.*)
(*                                                                         *)
(* The invariant follows the newest caption.  While the sink is connected  *)
(* it is the last call left to the loop or, when none is left, the pending *)
(* snapshot.  During an outage it is the pending snapshot, unless a call   *)
(* was left when the send failed: then that call cancels the reconnect     *)
(* before it can succeed, and the sink does not connect again.             *)

Newest == soon[Len(soon)]

ObsStates == [up : BOOLEAN, input : BOOLEAN, shown : 0..MaxCaptions, open : BOOLEAN]
DebounceStates == [at : {"none", "sleep", "send", "join"}, cap : 0..MaxCaptions]

\* The debounce task awaits the reconnect as long as there is one, and has
\* something to send when it is under way.
TasksFit ==
  /\ phase = "on" => (deb.at = "join" <=> rec # "none")
  /\ phase # "on" => rec = "none" /\ deb.at \in {"none", "sleep"}
  /\ deb.at # "none" => pending # 0
  /\ deb.at = "send" => connected /\ deb.cap = pending
  /\ rec = "connect" => ~connected /\ tries < MaxConnectAttempts
  /\ rec \in {"ensure", "resend"} => connected

\* Before the sink is on, nothing has happened; after stop() no session is open.
PhasesFit ==
  /\ phase \in {"off", "starting", "failed"} =>
       /\ ~connected /\ pending = 0 /\ soon = <<>> /\ deb = Idle /\ latest = 0 /\ obs.shown = 0
  /\ phase = "starting" => tries < MaxConnectAttempts
  /\ phase = "stopped" => ~connected /\ ~obs.open

NewestKept ==
  phase = "on" =>
    /\ connected /\ soon # <<>> => Newest = latest
    /\ soon = <<>> /\ (connected \/ rec # "none") => pending = latest

ShownIsNewest ==
  phase = "on" /\ connected /\ soon = <<>> /\ deb.at = "none" /\ ~unsent => obs.shown = latest

SinkInv == SinkTypeOK /\ TasksFit /\ PhasesFit /\ NewestKept /\ ShownIsNewest

LEMMA Bounds == 0 \in 0..MaxCaptions /\ 0 \in 0..MaxConnectAttempts /\ 0 \in 0..MaxFaults /\ Idle \in DebounceStates
  BY SinkAssumption DEF Idle, DebounceStates

\* The type invariant with its two records named.
LEMMA TypeNamed ==
  SinkTypeOK <=>
    /\ phase \in {"off", "starting", "on", "failed", "stopping", "stopped"}
    /\ connected \in BOOLEAN /\ unsent \in BOOLEAN
    /\ pending \in 0..MaxCaptions /\ latest \in 0..MaxCaptions
    /\ soon \in Seq(1..MaxCaptions)
    /\ deb \in DebounceStates /\ obs \in ObsStates
    /\ rec \in {"none", "connect", "ensure", "resend"}
    /\ tries \in 0..MaxConnectAttempts /\ faults \in 0..MaxFaults
  BY DEF SinkTypeOK, DebounceStates, ObsStates

LEMMA InitSinkInv == SinkInit => SinkInv
<1> SUFFICES ASSUME SinkInit PROVE SinkInv
  OBVIOUS
<1>1. obs \in ObsStates /\ deb \in DebounceStates
  BY Bounds DEF SinkInit, ObsStates
<1>2. soon \in Seq(1..MaxCaptions)
  BY DEF SinkInit
<1>3. SinkTypeOK
  <2>1. /\ phase \in {"off", "starting", "on", "failed", "stopping", "stopped"}
        /\ connected \in BOOLEAN /\ unsent \in BOOLEAN
        /\ rec \in {"none", "connect", "ensure", "resend"}
    BY DEF SinkInit
  <2>2. pending \in 0..MaxCaptions /\ latest \in 0..MaxCaptions /\ tries \in 0..MaxConnectAttempts /\ faults \in 0..MaxFaults
    BY Bounds DEF SinkInit
  <2> QED
    BY <1>1, <1>2, <2>1, <2>2, TypeNamed
<1> QED
  BY <1>3 DEF SinkInit, SinkInv, TasksFit, PhasesFit, NewestKept, ShownIsNewest, Idle

\* Cancelling the debounce task neither opens nor closes a session.
LEMMA CancelKeepsSession ==
  ASSUME SinkTypeOK, CancelDebounce
  PROVE  /\ obs' \in ObsStates
         /\ obs'.open = obs.open
         /\ rec' = IF deb.at = "join" THEN "none" ELSE rec
<1>1. obs' \in {obs, CarriedOut(deb.cap), Ensured, CarriedOut(pending)}
  BY DEF CancelDebounce
<1>2. 0 \in 0..MaxCaptions
  BY SinkAssumption
<1> QED
  BY <1>1, <1>2 DEF CancelDebounce, SinkTypeOK, CarriedOut, Ensured, ObsStates

\* Taking a call from the loop keeps the newest in its place.
LEMMA TailKeepsNewest ==
  ASSUME SinkTypeOK, soon # <<>>
  PROVE  /\ Head(soon) \in 1..MaxCaptions /\ Tail(soon) \in Seq(1..MaxCaptions)
         /\ Tail(soon) = <<>> => Head(soon) = Newest
         /\ Tail(soon) # <<>> => Tail(soon)[Len(Tail(soon))] = Newest
<1> DEFINE S == 1..MaxCaptions
           n == Len(soon)
<1>1. soon \in Seq(S) /\ n \in Nat \ {0}
  BY EmptySeq DEF SinkTypeOK
<1>2. /\ Head(soon) \in S /\ Tail(soon) \in Seq(S)
      /\ Len(Tail(soon)) = n - 1
      /\ \A i \in 1..Len(Tail(soon)) : Tail(soon)[i] = soon[i + 1]
  BY <1>1, HeadTailProperties
<1>3. Tail(soon) = <<>> => Head(soon) = Newest
  <2>1. Head(soon) = soon[1]
    BY <1>1
  <2>2. Tail(soon) = <<>> => n = 1
    BY <1>1, <1>2, EmptySeq
  <2> QED
    BY <2>1, <2>2 DEF Newest
<1>4. ASSUME Tail(soon) # <<>>
      PROVE  Tail(soon)[Len(Tail(soon))] = Newest
  <2>1. Len(Tail(soon)) \in Nat \ {0}
    BY <1>2, <1>4, EmptySeq
  <2>2. n - 1 \in 1..Len(Tail(soon)) /\ (n - 1) + 1 = n
    BY <1>1, <1>2, <2>1
  <2>3. Tail(soon)[n - 1] = soon[(n - 1) + 1]
    BY <1>2, <2>2
  <2> QED
    BY <1>2, <2>2, <2>3 DEF Newest
<1> QED
  BY <1>2, <1>3, <1>4

LEMMA NextSinkInv == SinkInv /\ [SinkNext]_sinkVars => SinkInv'
<1> SUFFICES ASSUME SinkInv, [SinkNext]_sinkVars PROVE SinkInv'
  OBVIOUS
<1> USE SinkAssumption, Bounds DEF SinkInv, ObsStates, DebounceStates
<1>1. CASE ObsChanges
  <2>1. /\ obs' \in ObsStates
        /\ obs'.shown = obs.shown /\ (~obs.open => ~obs'.open) /\ faults' \in 0..MaxFaults
        /\ UNCHANGED <<phase, connected, pending, soon, deb, rec, tries, latest, unsent>>
    <3>1. obs \in ObsStates /\ faults \in 0..MaxFaults /\ MaxFaults \in Nat
      BY TypeNamed
    <3>2. faults' \in 0..MaxFaults
      <4>1. faults' = faults \/ (faults < MaxFaults /\ faults' = faults + 1)
        BY <1>1 DEF ObsChanges
      <4> HIDE DEF SinkInv, ObsStates, DebounceStates
      <4> QED
        BY <3>1, <4>1
    <3>3. \/ obs' = [obs EXCEPT !.up = FALSE, !.open = FALSE]
          \/ obs' = [obs EXCEPT !.input = FALSE]
          \/ obs' = [obs EXCEPT !.up = TRUE]
      BY <1>1 DEF ObsChanges
    <3>4. obs' \in ObsStates /\ obs'.shown = obs.shown /\ (~obs.open => ~obs'.open)
      <4> HIDE DEF SinkInv
      <4> QED
        BY <3>1, <3>3
    <3> QED
      BY <1>1, <3>2, <3>4 DEF ObsChanges
  <2>2. SinkTypeOK'
    BY <2>1 DEF SinkTypeOK
  <2> QED
    BY <2>1, <2>2 DEF TasksFit, PhasesFit, NewestKept, Newest, ShownIsNewest
<1>2. CASE StartSink
  BY <1>2 DEF StartSink, SinkTypeOK, TasksFit, PhasesFit, NewestKept, ShownIsNewest
<1>3. CASE StartConnects
  <2>1. SinkTypeOK'
    BY <1>3 DEF StartConnects, SinkTypeOK
  <2> QED
    BY <1>3, <2>1 DEF StartConnects, SinkTypeOK, TasksFit, PhasesFit, NewestKept, ShownIsNewest, Idle
<1>4. CASE StartFails
  BY <1>4 DEF StartFails, SinkTypeOK, TasksFit, PhasesFit, NewestKept, ShownIsNewest
<1>5. CASE Publish
  <2>1. /\ phase = "on" /\ latest' = latest + 1 /\ latest + 1 \in 1..MaxCaptions
        /\ UNCHANGED <<phase, connected, deb, rec, tries, obs, faults, unsent>>
    BY <1>5 DEF Publish, SinkTypeOK
  <2>2. CASE connected
    <3>1. soon' = Append(soon, latest + 1) /\ pending' = pending
      BY <1>5, <2>2 DEF Publish, OnStateChange
    <3>2. soon' \in Seq(1..MaxCaptions) /\ soon' # <<>> /\ soon'[Len(soon')] = latest + 1
      BY <2>1, <3>1 DEF SinkTypeOK
    <3>3. SinkTypeOK'
      BY <2>1, <3>1, <3>2 DEF SinkTypeOK
    <3> QED
      BY <2>1, <3>1, <3>2, <3>3 DEF TasksFit, PhasesFit, NewestKept, Newest, ShownIsNewest
  <2>3. CASE ~connected
    <3>1. pending' = latest + 1 /\ soon' = soon
      BY <1>5, <2>3 DEF Publish, OnStateChange
    <3>2. SinkTypeOK'
      BY <2>1, <3>1 DEF SinkTypeOK
    <3> QED
      BY <2>1, <2>3, <3>1, <3>2 DEF TasksFit, PhasesFit, NewestKept, ShownIsNewest
  <2> QED
    BY <2>2, <2>3
<1>6. CASE ScheduleUpdate
  <2>1. /\ soon # <<>> /\ soon' = Tail(soon) /\ pending' = Head(soon)
        /\ deb' = [at |-> "sleep", cap |-> 0]
        /\ UNCHANGED <<phase, connected, tries, latest, faults, unsent>>
    BY <1>6 DEF ScheduleUpdate
  <2>2. /\ obs' \in ObsStates
        /\ obs'.open = obs.open /\ rec' = "none"
    BY <1>6, CancelKeepsSession DEF ScheduleUpdate, TasksFit
  <2>3. SinkTypeOK'
    BY <2>1, <2>2, TailKeepsNewest, SMTT(30) DEF SinkTypeOK
  <2>4. TasksFit' /\ PhasesFit'
    BY <2>1, <2>2, TailKeepsNewest DEF TasksFit, PhasesFit
  <2>5. NewestKept' /\ ShownIsNewest'
    BY <2>1, <2>2, TailKeepsNewest DEF NewestKept, Newest, ShownIsNewest
  <2> QED
    BY <2>3, <2>4, <2>5
<1>7. CASE DebounceElapsed
  BY <1>7 DEF DebounceElapsed, SinkTypeOK, TasksFit, PhasesFit, NewestKept, Newest, ShownIsNewest, Idle
<1>8. CASE SendSucceeds
  <2>1. /\ phase = "on" /\ soon = <<>> /\ deb.at = "send" /\ obs' = [obs EXCEPT !.shown = deb.cap]
        /\ unsent' = FALSE /\ deb' = Idle
        /\ UNCHANGED <<phase, connected, pending, soon, rec, tries, latest, faults>>
    BY <1>8 DEF SendSucceeds, NextTurn, CarriedOut
  <2>2. deb.cap = latest
    BY <2>1 DEF TasksFit, NewestKept
  <2>3. /\ obs' \in ObsStates
        /\ obs'.shown = latest /\ obs'.open = obs.open
    BY <2>1, <2>2 DEF SinkTypeOK
  <2>4. SinkTypeOK'
    BY <2>1, <2>3 DEF SinkTypeOK, Idle
  <2> QED
    BY <2>1, <2>3, <2>4 DEF TasksFit, PhasesFit, NewestKept, Newest, ShownIsNewest, Idle
<1>9. CASE SendFails
  <2>1. /\ phase = "on" /\ deb.at = "send" /\ connected' = FALSE /\ deb' = [deb EXCEPT !.at = "join"]
        /\ rec' = "connect" /\ tries' = 0
        /\ UNCHANGED <<phase, pending, soon, latest, faults, unsent>>
    BY <1>9 DEF SendFails
  <2>2. obs' \in ObsStates
    BY <1>9 DEF SendFails, SinkTypeOK
  <2>3. SinkTypeOK'
    BY <2>1, <2>2 DEF SinkTypeOK
  <2>4. deb'.at = "join"
    BY <2>1 DEF SinkTypeOK
  <2> QED
    BY <2>1, <2>3, <2>4 DEF TasksFit, PhasesFit, NewestKept, ShownIsNewest
<1>10. CASE ReconnectSucceeds
  <2>1. SinkTypeOK' /\ obs'.shown = obs.shown
    BY <1>10 DEF ReconnectSucceeds, SinkTypeOK
  <2> QED
    BY <1>10, <2>1 DEF ReconnectSucceeds, NextTurn, TasksFit, PhasesFit, NewestKept, ShownIsNewest
<1>11. CASE ReconnectAttemptFails
  <2>1. SinkTypeOK'
    BY <1>11 DEF ReconnectAttemptFails, SinkTypeOK, TasksFit, Idle
  <2> QED
    BY <1>11, <2>1
    DEF ReconnectAttemptFails, NextTurn, SinkTypeOK, TasksFit, PhasesFit, NewestKept, ShownIsNewest, Idle
<1>12. CASE ReconnectEnsures
  <2>1. /\ phase = "on" /\ soon = <<>> /\ pending # 0 /\ rec = "ensure" /\ rec' = "resend"
        /\ UNCHANGED <<phase, connected, pending, soon, deb, tries, latest, faults, unsent>>
    BY <1>12 DEF ReconnectEnsures, NextTurn, TasksFit
  <2>2. obs' \in ObsStates
    <3>1. 0 \in 0..MaxCaptions
      OBVIOUS
    <3>2. obs' = obs \/ obs' = [obs EXCEPT !.input = TRUE, !.shown = 0]
      BY <1>12 DEF ReconnectEnsures, Ensured
    <3> QED
      BY <3>1, <3>2 DEF SinkTypeOK
  <2>3. SinkTypeOK'
    BY <2>1, <2>2 DEF SinkTypeOK
  <2> QED
    BY <2>1, <2>3 DEF TasksFit, PhasesFit, NewestKept, Newest, ShownIsNewest
<1>13. CASE ReconnectResends
  <2>1. /\ phase = "on" /\ soon = <<>> /\ rec = "resend" /\ rec' = "none" /\ deb' = Idle
        /\ unsent' = ~Serves /\ obs' = CarriedOut(pending)
        /\ UNCHANGED <<phase, connected, pending, soon, tries, latest, faults>>
    BY <1>13 DEF ReconnectResends, NextTurn
  <2>2. /\ obs' \in ObsStates
        /\ Serves => obs'.shown = pending
    BY <2>1 DEF CarriedOut, SinkTypeOK
  <2>3. pending = latest
    BY <2>1 DEF NewestKept
  <2>4. unsent' \in BOOLEAN /\ deb' \in [at : {"none", "sleep", "send", "join"}, cap : 0..MaxCaptions]
    BY <2>1 DEF Idle, SinkTypeOK
  <2>5. SinkTypeOK'
    BY <2>1, <2>2, <2>4 DEF SinkTypeOK
  <2> QED
    BY <2>1, <2>2, <2>3, <2>5 DEF TasksFit, PhasesFit, NewestKept, Newest, ShownIsNewest, Idle
<1>14. CASE StopCancels
  <2>1. /\ phase = "on" /\ phase' = "stopping" /\ deb' = Idle
        /\ UNCHANGED <<connected, pending, soon, tries, latest, faults, unsent>>
    BY <1>14 DEF StopCancels
  <2>2. /\ obs' \in ObsStates
        /\ rec' = "none"
    BY <1>14, <2>1, CancelKeepsSession DEF StopCancels, TasksFit
  <2>3. SinkTypeOK'
    BY <2>1, <2>2 DEF SinkTypeOK, Idle
  <2> QED
    BY <2>1, <2>2, <2>3 DEF TasksFit, PhasesFit, NewestKept, ShownIsNewest, Idle
<1>15. CASE StopCloses
  <2>1. SinkTypeOK' /\ ~obs'.open
    BY <1>15 DEF StopCloses, SinkTypeOK
  <2> QED
    BY <1>15, <2>1 DEF StopCloses, TasksFit, PhasesFit, NewestKept, ShownIsNewest
<1>16. CASE UNCHANGED sinkVars
  BY <1>16 DEF sinkVars, SinkTypeOK, TasksFit, PhasesFit, NewestKept, Newest, ShownIsNewest
<1> QED
  BY <1>1, <1>2, <1>3, <1>4, <1>5, <1>6, <1>7, <1>8, <1>9, <1>10, <1>11, <1>12, <1>13, <1>14, <1>15, <1>16
  DEF SinkNext

\* Whatever outages, removed sources and cancelled tasks came before: a connected
\* sink that is at rest shows the newest caption, unless its one re-send failed;
\* and a stopped sink holds no session and no task that would open one.
THEOREM SinkShowsNewest == SinkSpec => []SinkKeepsUp
<1>1. SinkInv => SinkKeepsUp
  <2>1. SinkInv => CatchesUp
    BY DEF SinkInv, CatchesUp, Quiet, ShownIsNewest
  <2>2. SinkInv => StoppedIsFinal
    BY DEF SinkInv, StoppedIsFinal, TasksFit, PhasesFit
  <2> QED
    BY <2>1, <2>2 DEF SinkKeepsUp
<1> QED
  BY <1>1, InitSinkInv, NextSinkInv, PTL DEF SinkSpec

----------------------------------------------------------------------------
(* The hotkeys: what the controller will be when it has heard all that is  *)
(* on its way.                                                             *)

KeyEvents == [key : {"pause", "clear"}, muted : BOOLEAN]

\* After the events of h a controller with the pause flag p has the flag v.
HearsPause(h, p, v) ==
  \/ p = v /\ \A i \in 1 .. Len(h) : h[i].key # "pause"
  \/ \E i \in 1 .. Len(h) : /\ h[i].key = "pause" /\ h[i].muted = v
                            /\ \A j \in i + 1 .. Len(h) : h[j].key # "pause"

HearsClear(h) == \E i \in 1 .. Len(h) : h[i].key = "clear" /\ h[i].muted

ListenerPlace ==
  /\ listener \in {"starting", "reconnect"} => failed < MaxHotkeyAttempts
  /\ socket.open => socket.registered /\ listener # "stopped"
  /\ ~socket.open => heard = <<>>
  /\ _stopped => reset["due"] = "none"

\* A change that was heard is on its way, or has had its effect.
SentinelsHeard ==
  /\ listener # "stopped" /\ ~missed => HearsPause(heard, paused, sentinel["pause"])
  /\ listener # "stopped" /\ ~stuck /\ sentinel["clear"] =>
       HearsClear(heard) \/ reset["due"] # "none" \/ reset["late"] # "none"

HotkeyInv == HotkeyTypeOK /\ ListenerPlace /\ SentinelsHeard

\* An event goes to the end of those that were sent before.
LEMMA EventSent ==
  ASSUME NEW h \in Seq(KeyEvents), NEW e \in KeyEvents, NEW g, g = Append(h, e), NEW p, NEW v
  PROVE  /\ g \in Seq(KeyEvents)
         /\ e.key = "pause" => HearsPause(g, p, e.muted)
         /\ e.key # "pause" /\ HearsPause(h, p, v) => HearsPause(g, p, v)
         /\ HearsClear(h) \/ (e.key = "clear" /\ e.muted) => HearsClear(g)
<1> DEFINE k == Len(h)
<1>1. /\ k \in Nat /\ g \in Seq(KeyEvents) /\ Len(g) = k + 1 /\ g[k + 1] = e
      /\ \A i \in 1 .. k : g[i] = h[i]
  BY AppendProperties
<1>2. HearsPause(h, p, v) <=>
        \/ p = v /\ \A i \in 1 .. k : h[i].key # "pause"
        \/ \E i \in 1 .. k : /\ h[i].key = "pause" /\ h[i].muted = v
                             /\ \A j \in i + 1 .. k : h[j].key # "pause"
  BY DEF HearsPause
<1>3. HearsClear(h) <=> \E i \in 1 .. k : h[i].key = "clear" /\ h[i].muted
  BY DEF HearsClear
<1> HIDE DEF k
<1>4. e.key = "pause" => HearsPause(g, p, e.muted)
  <2>1. k + 1 \in 1 .. k + 1 /\ k + 1 + 1 .. k + 1 = {}
    BY <1>1
  <2> QED
    BY <1>1, <2>1 DEF HearsPause
<1>5. e.key # "pause" /\ HearsPause(h, p, v) => HearsPause(g, p, v)
  BY <1>1, <1>2 DEF HearsPause
<1>6. HearsClear(h) \/ (e.key = "clear" /\ e.muted) => HearsClear(g)
  BY <1>1, <1>3 DEF HearsClear
<1> QED
  BY <1>1, <1>4, <1>5, <1>6

\* The oldest event is handled.
LEMMA EventHandled ==
  ASSUME NEW h \in Seq(KeyEvents), h # <<>>, NEW e, e = Head(h), NEW g, g = Tail(h), NEW p, NEW v
  PROVE  /\ e \in KeyEvents /\ g \in Seq(KeyEvents)
         /\ HearsPause(h, p, v) => HearsPause(g, IF e.key = "pause" THEN e.muted ELSE p, v)
         /\ HearsClear(h) => HearsClear(g) \/ (e.key = "clear" /\ e.muted)
<1> DEFINE k == Len(h)
<1>1. /\ k \in Nat \ {0} /\ g \in Seq(KeyEvents) /\ Len(g) = k - 1
      /\ \A i \in 1 .. k - 1 : g[i] = h[i + 1]
  BY HeadTailProperties, EmptySeq
<1>2. e = h[1] /\ e \in KeyEvents
  BY <1>1, ElementOfSeq
<1>3. HearsPause(h, p, v) <=>
        \/ p = v /\ \A i \in 1 .. k : h[i].key # "pause"
        \/ \E i \in 1 .. k : /\ h[i].key = "pause" /\ h[i].muted = v
                             /\ \A j \in i + 1 .. k : h[j].key # "pause"
  BY DEF HearsPause
<1>4. HearsClear(h) <=> \E i \in 1 .. k : h[i].key = "clear" /\ h[i].muted
  BY DEF HearsClear
<1> HIDE DEF k
<1>5. ASSUME HearsPause(h, p, v)
      PROVE  HearsPause(g, IF e.key = "pause" THEN e.muted ELSE p, v)
  <2>1. CASE p = v /\ \A i \in 1 .. k : h[i].key # "pause"
    <3>1. e.key # "pause" /\ \A i \in 1 .. k - 1 : g[i].key # "pause"
      BY <1>1, <1>2, <2>1
    <3> QED
      BY <1>1, <2>1, <3>1 DEF HearsPause
  <2>2. ASSUME NEW i \in 1 .. k, h[i].key = "pause", h[i].muted = v,
               \A j \in i + 1 .. k : h[j].key # "pause"
        PROVE  HearsPause(g, IF e.key = "pause" THEN e.muted ELSE p, v)
    <3>1. CASE i = 1
      <4>1. e.key = "pause" /\ e.muted = v /\ \A j \in 1 .. k - 1 : g[j].key # "pause"
        BY <1>1, <1>2, <2>2, <3>1
      <4> QED
        BY <1>1, <4>1 DEF HearsPause
    <3>2. CASE i # 1
      <4>1. /\ i - 1 \in 1 .. k - 1 /\ g[i - 1].key = "pause" /\ g[i - 1].muted = v
            /\ \A j \in (i - 1) + 1 .. k - 1 : g[j].key # "pause"
        BY <1>1, <2>2, <3>2
      <4> QED
        BY <1>1, <4>1 DEF HearsPause
    <3> QED
      BY <3>1, <3>2
  <2> QED
    BY <1>3, <1>5, <2>1, <2>2
<1>6. ASSUME HearsClear(h), ~(e.key = "clear" /\ e.muted)
      PROVE  HearsClear(g)
  <2>1. PICK i \in 1 .. k : h[i].key = "clear" /\ h[i].muted
    BY <1>4, <1>6
  <2>2. i - 1 \in 1 .. k - 1 /\ g[i - 1] = h[i]
    BY <1>1, <1>2, <1>6, <2>1
  <2> QED
    BY <1>1, <2>1, <2>2 DEF HearsClear
<1> QED
  BY <1>1, <1>2, <1>5, <1>6

LEMMA NothingHeard ==
  ASSUME NEW h, h = <<>>, NEW p, NEW v
  PROVE  (HearsPause(h, p, v) <=> p = v) /\ ~HearsClear(h)
<1>1. Len(h) = 0
  OBVIOUS
<1> QED
  BY <1>1 DEF HearsPause, HearsClear

LEMMA HotkeyInitInv == HotkeyInit => HotkeyInv
<1> SUFFICES ASSUME HotkeyInit PROVE HotkeyInv
  OBVIOUS
<1>1. heard = <<>> /\ heard \in Seq(KeyEvents)
  BY EmptySeq DEF HotkeyInit
<1>2. sentinel["pause"] \in BOOLEAN /\ sentinel["clear"] \in BOOLEAN
  BY DEF HotkeyInit
<1>3. HotkeyTypeOK
  <2>1. socket \in [up : BOOLEAN, open : BOOLEAN, registered : BOOLEAN]
    BY DEF HotkeyInit
  <2>2. failed \in 0 .. MaxHotkeyAttempts /\ presses \in 0 .. MaxPresses /\ outages \in 0 .. MaxOutages
    BY HotkeyAssumption DEF HotkeyInit
  <2>3. reset \in [{"due", "late"} -> {"none", "fresh", "call"}]
    BY DEF HotkeyInit
  <2>4. missed \in BOOLEAN /\ stuck \in BOOLEAN /\ paused \in BOOLEAN
    BY <1>2 DEF HotkeyInit
  <2>5. listener = "off" /\ sentinel \in [{"pause", "clear"} -> BOOLEAN]
    BY DEF HotkeyInit
  <2> QED
    BY <1>1, <2>1, <2>2, <2>3, <2>4, <2>5 DEF HotkeyTypeOK, KeyEvents
<1>4. ListenerPlace
  BY DEF HotkeyInit, ListenerPlace, _stopped
<1>5. SentinelsHeard
  BY <1>1, <1>2, NothingHeard DEF HotkeyInit, SentinelsHeard
<1> QED
  BY <1>3, <1>4, <1>5 DEF HotkeyInv

\* OBS changes a sentinel: the client hears of it if its session is open.
LEMMA ChangeIsHeard ==
  ASSUME HotkeyInv, NEW key \in {"pause", "clear"}, NEW muted \in BOOLEAN, Changed(key, muted),
         UNCHANGED <<listener, failed, paused, socket>>
  PROVE  /\ heard' \in Seq(KeyEvents) /\ sentinel' \in [{"pause", "clear"} -> BOOLEAN]
         /\ sentinel'[key] = muted /\ \A other \in {"pause", "clear"} \ {key} : sentinel'[other] = sentinel[other]
         /\ ~socket.open => heard' = <<>>
         /\ socket.open /\ key = "pause" => HearsPause(heard', paused, muted)
         /\ key # "pause" => \A v : HearsPause(heard, paused, v) => HearsPause(heard', paused, v)
         /\ HearsClear(heard) \/ (socket.open /\ key = "clear" /\ muted) => HearsClear(heard')
<1> DEFINE e == [key |-> key, muted |-> muted]
<1>1. e \in KeyEvents /\ e.key = key /\ e.muted = muted
  BY DEF KeyEvents
<1>2. heard \in Seq(KeyEvents) /\ sentinel \in [{"pause", "clear"} -> BOOLEAN]
  BY DEF HotkeyInv, HotkeyTypeOK, KeyEvents
<1>3. sentinel' = [sentinel EXCEPT ![key] = muted]
  BY DEF Changed
<1> HIDE DEF e
<1>4. CASE socket.open
  <2>1. heard' = Append(heard, e)
    BY <1>4 DEF Changed, e
  <2> QED
    BY <1>1, <1>2, <1>3, <1>4, <2>1, EventSent
<1>5. CASE ~socket.open
  <2>1. heard' = heard /\ heard = <<>>
    BY <1>5 DEF Changed, HotkeyInv, ListenerPlace
  <2> QED
    BY <1>2, <1>3, <1>5, <2>1
<1> QED
  BY <1>4, <1>5

LEMMA HotkeyNextInv == HotkeyInv /\ [HotkeyNext]_hotkeyVars => HotkeyInv'
<1> SUFFICES ASSUME HotkeyInv, [HotkeyNext]_hotkeyVars PROVE HotkeyInv'
  OBVIOUS
<1>t. HotkeyTypeOK /\ ListenerPlace /\ SentinelsHeard
  BY DEF HotkeyInv
<1>h. heard \in Seq(KeyEvents) /\ HotkeyAssumption
  BY <1>t, HotkeyAssumption DEF HotkeyTypeOK, KeyEvents
<1>1. CASE Press
  <2>0. /\ UNCHANGED <<listener, failed, paused, reset, socket, outages>>
        /\ presses' \in 0 .. MaxPresses
    BY <1>1, <1>t, <1>h DEF Press, HotkeyTypeOK, HotkeyAssumption
  <2>1. ASSUME Changed("pause", ~sentinel["pause"]), missed' = ~socket.open, UNCHANGED stuck
        PROVE  HotkeyInv'
    <3>1. (~sentinel["pause"]) \in BOOLEAN
      OBVIOUS
    <3>2. /\ heard' \in Seq(KeyEvents) /\ sentinel' \in [{"pause", "clear"} -> BOOLEAN]
          /\ sentinel'["pause"] = ~sentinel["pause"] /\ sentinel'["clear"] = sentinel["clear"]
          /\ ~socket.open => heard' = <<>>
          /\ socket.open => HearsPause(heard', paused, ~sentinel["pause"])
          /\ HearsClear(heard) => HearsClear(heard')
      BY <2>0, <2>1, <3>1, ChangeIsHeard
    <3>3. HotkeyTypeOK' /\ ListenerPlace'
      BY <1>t, <2>0, <2>1, <3>2 DEF HotkeyTypeOK, ListenerPlace, _stopped, KeyEvents
    <3>4. SentinelsHeard'
      BY <1>t, <2>0, <2>1, <3>2 DEF SentinelsHeard
    <3> QED
      BY <3>3, <3>4 DEF HotkeyInv
  <2>2. ASSUME ~sentinel["clear"], Changed("clear", TRUE), stuck' = ~socket.open, UNCHANGED missed
        PROVE  HotkeyInv'
    <3>2. /\ heard' \in Seq(KeyEvents) /\ sentinel' \in [{"pause", "clear"} -> BOOLEAN]
          /\ sentinel'["clear"] = TRUE /\ sentinel'["pause"] = sentinel["pause"]
          /\ ~socket.open => heard' = <<>>
          /\ \A v : HearsPause(heard, paused, v) => HearsPause(heard', paused, v)
          /\ socket.open => HearsClear(heard')
      BY <2>0, <2>2, ChangeIsHeard
    <3>3. HotkeyTypeOK' /\ ListenerPlace'
      BY <1>t, <2>0, <2>2, <3>2 DEF HotkeyTypeOK, ListenerPlace, _stopped, KeyEvents
    <3>4. SentinelsHeard'
      BY <1>t, <2>0, <2>2, <3>2 DEF SentinelsHeard
    <3> QED
      BY <3>3, <3>4 DEF HotkeyInv
  <2> QED
    BY <1>1, <2>1, <2>2 DEF Press
<1>2. CASE ConnectionLost
  <2>1. /\ UNCHANGED <<listener, failed, paused, reset, sentinel, presses>> /\ heard' = <<>>
        /\ socket' = [socket EXCEPT !.up = FALSE, !.open = FALSE] /\ outages' \in 0 .. MaxOutages
        /\ missed' = (missed \/ \E i \in 1 .. Len(heard) : heard[i].key = "pause")
        /\ stuck' = (stuck \/ \E i \in 1 .. Len(heard) : heard[i].key = "clear")
    <3>1. DOMAIN heard = 1 .. Len(heard)
      BY <1>h
    <3>2. outages' \in 0 .. MaxOutages
      BY <1>2, <1>t, HotkeyAssumption DEF ConnectionLost, HotkeyTypeOK
    <3> QED
      BY <1>2, <3>1, <3>2 DEF ConnectionLost
  <2>2. heard' \in Seq(KeyEvents)
    BY <2>1, EmptySeq
  <2>3. HotkeyTypeOK'
    BY <1>t, <2>1, <2>2 DEF HotkeyTypeOK, KeyEvents
  <2>4. ListenerPlace'
    BY <1>t, <2>1 DEF HotkeyTypeOK, ListenerPlace, _stopped
  <2>5. ~missed' => (HearsPause(heard, paused, sentinel["pause"]) => paused = sentinel["pause"])
    BY <2>1 DEF HearsPause
  <2>6. ~stuck' => ~HearsClear(heard)
    BY <2>1 DEF HearsClear
  <2>7. SentinelsHeard'
    BY <1>t, <2>1, <2>5, <2>6, NothingHeard DEF SentinelsHeard
  <2> QED
    BY <2>3, <2>4, <2>7 DEF HotkeyInv
<1>3. CASE ObsReturns \/ StartListening \/ Listen \/ AttemptFails \/ PingFails \/ StopAsked \/ MarkStopped
  <2>1. UNCHANGED <<paused, heard, reset, sentinel, missed, stuck, presses, outages>>
    BY <1>3 DEF ObsReturns, StartListening, Listen, AttemptFails, PingFails, StopAsked, MarkStopped
  <2>2. HotkeyTypeOK'
    <3>1. CASE ObsReturns
      BY <1>t, <2>1, <3>1 DEF ObsReturns, HotkeyTypeOK
    <3>2. CASE StartListening
      BY <1>t, <1>h, <2>1, <3>2 DEF StartListening, HotkeyTypeOK, HotkeyAssumption
    <3>3. CASE Listen
      BY <1>t, <2>1, <3>3 DEF Listen, HotkeyTypeOK
    <3>4. CASE AttemptFails
      BY <1>t, <1>h, <2>1, <3>4 DEF AttemptFails, HotkeyTypeOK, HotkeyAssumption, ListenerPlace
    <3>5. CASE PingFails
      <4>1. failed' \in 0 .. MaxHotkeyAttempts
        BY <3>5, HotkeyAssumption DEF PingFails
      <4>2. socket' \in [up : BOOLEAN, open : BOOLEAN, registered : BOOLEAN] /\ listener' = "reconnect"
        BY <1>t, <3>5 DEF PingFails, HotkeyTypeOK
      <4> QED
        BY <1>t, <2>1, <4>1, <4>2 DEF HotkeyTypeOK
    <3>6. CASE StopAsked \/ MarkStopped
      BY <1>t, <2>1, <3>6 DEF StopAsked, MarkStopped, HotkeyTypeOK
    <3> QED
      BY <1>3, <3>1, <3>2, <3>3, <3>4, <3>5, <3>6
  <2>3. ListenerPlace' /\ (listener = "stopped" => listener' = "stopped")
    <3>1. CASE ObsReturns
      BY <1>t, <2>1, <3>1 DEF ObsReturns, HotkeyTypeOK, ListenerPlace, _stopped
    <3>2. CASE StartListening
      BY <1>t, <1>h, <2>1, <3>2 DEF StartListening, HotkeyTypeOK, HotkeyAssumption, ListenerPlace, _stopped
    <3>3. CASE Listen
      BY <1>t, <2>1, <3>3 DEF Listen, HotkeyTypeOK, ListenerPlace, _stopped
    <3>4. CASE AttemptFails
      BY <1>t, <2>1, <3>4 DEF AttemptFails, HotkeyTypeOK, ListenerPlace, _stopped
    <3>5. CASE PingFails
      BY <1>t, <1>h, <2>1, <3>5 DEF PingFails, HotkeyTypeOK, HotkeyAssumption, ListenerPlace, _stopped
    <3>6. CASE StopAsked \/ MarkStopped
      BY <1>t, <2>1, <3>6 DEF StopAsked, MarkStopped, ListenerPlace, _stopped
    <3> QED
      BY <1>3, <3>1, <3>2, <3>3, <3>4, <3>5, <3>6
  <2>4. SentinelsHeard'
    BY <1>t, <2>1, <2>3 DEF SentinelsHeard
  <2> QED
    BY <2>2, <2>3, <2>4 DEF HotkeyInv
<1>4. CASE OnEvent
  <2> DEFINE e == Head(heard)
  <2>0. UNCHANGED <<listener, failed, sentinel, socket, presses, outages, missed, stuck>>
    BY <1>4 DEF OnEvent
  <2>1. heard # <<>> /\ heard' = Tail(heard) /\ socket.open /\ socket.registered /\ listener # "stopped"
    BY <1>4, <1>t DEF OnEvent, ListenerPlace
  <2>2. /\ e \in KeyEvents /\ heard' \in Seq(KeyEvents)
        /\ HearsPause(heard, paused, sentinel["pause"]) =>
             HearsPause(heard', IF e.key = "pause" THEN e.muted ELSE paused, sentinel["pause"])
        /\ HearsClear(heard) => HearsClear(heard') \/ (e.key = "clear" /\ e.muted)
    BY <1>h, <2>1, EventHandled
  <2>3. /\ paused' = IF e.key = "pause" THEN e.muted ELSE paused
        /\ reset' = IF e.key = "clear" /\ e.muted THEN [reset EXCEPT ![Timely] = "fresh"] ELSE reset
    BY <1>4, <2>1 DEF OnEvent, PausedAfter
  <2>4. Timely \in {"due", "late"} /\ (_stopped => Timely = "late")
    BY <2>1 DEF Timely, _stopped
  <2> HIDE DEF e
  <2>5. HotkeyTypeOK'
    BY <1>t, <2>0, <2>2, <2>3, <2>4 DEF HotkeyTypeOK, KeyEvents
  <2>6. ListenerPlace'
    BY <1>t, <2>0, <2>1, <2>3, <2>4 DEF HotkeyTypeOK, ListenerPlace, _stopped
  <2>7. /\ e.key = "clear" /\ e.muted => reset'["due"] # "none" \/ reset'["late"] # "none"
        /\ ~(e.key = "clear" /\ e.muted) => reset' = reset
        /\ reset["due"] # "none" \/ reset["late"] # "none" => reset'["due"] # "none" \/ reset'["late"] # "none"
    BY <1>t, <2>3, <2>4 DEF HotkeyTypeOK
  <2>8. SentinelsHeard'
    BY <1>t, <2>0, <2>1, <2>2, <2>3, <2>7 DEF SentinelsHeard
  <2> QED
    BY <2>5, <2>6, <2>8 DEF HotkeyInv
<1>5. ASSUME NEW r \in {"due", "late"}, ResetBegins(r)
      PROVE  HotkeyInv'
  <2>1. /\ UNCHANGED <<listener, failed, paused, heard, sentinel, socket, presses, outages, missed>>
        /\ reset[r] = "fresh" /\ stuck' = (stuck \/ _stopped)
        /\ reset' = [reset EXCEPT ![r] = IF _stopped THEN "none" ELSE "call"]
    BY <1>5 DEF ResetBegins
  <2>2. HotkeyTypeOK'
    BY <1>t, <2>1 DEF HotkeyTypeOK
  <2>3. ListenerPlace'
    BY <1>t, <2>1 DEF HotkeyTypeOK, ListenerPlace, _stopped
  <2>4. ~stuck' => reset'[r] = "call"
    BY <1>t, <2>1 DEF HotkeyTypeOK
  <2>5. SentinelsHeard'
    BY <1>t, <2>1, <2>4 DEF SentinelsHeard
  <2> QED
    BY <2>2, <2>3, <2>5 DEF HotkeyInv
<1>6. ASSUME NEW r \in {"due", "late"}, ResetAnswered(r)
      PROVE  HotkeyInv'
  <2>1. /\ UNCHANGED <<listener, failed, paused, socket, presses, outages, missed>>
        /\ reset' = [reset EXCEPT ![r] = "none"]
    BY <1>6 DEF ResetAnswered
  <2>2. CASE socket.open /\ sentinel["clear"]
    <3>1. Changed("clear", FALSE) /\ UNCHANGED stuck
      BY <1>6, <2>2 DEF ResetAnswered
    <3>2. /\ heard' \in Seq(KeyEvents) /\ sentinel' \in [{"pause", "clear"} -> BOOLEAN]
          /\ sentinel'["clear"] = FALSE /\ sentinel'["pause"] = sentinel["pause"]
          /\ ~socket.open => heard' = <<>>
          /\ \A v : HearsPause(heard, paused, v) => HearsPause(heard', paused, v)
      BY <2>1, <3>1, ChangeIsHeard
    <3>3. HotkeyTypeOK'
      BY <1>t, <2>1, <3>1, <3>2 DEF HotkeyTypeOK, KeyEvents
    <3>4. ListenerPlace'
      BY <1>t, <2>1, <3>2 DEF HotkeyTypeOK, ListenerPlace, _stopped
    <3>5. SentinelsHeard'
      BY <1>t, <2>1, <3>2 DEF SentinelsHeard
    <3> QED
      BY <3>3, <3>4, <3>5 DEF HotkeyInv
  <2>3. CASE ~(socket.open /\ sentinel["clear"])
    <3>1. stuck' = (stuck \/ sentinel["clear"]) /\ UNCHANGED <<heard, sentinel>>
      BY <1>6, <2>3 DEF ResetAnswered
    <3>2. HotkeyTypeOK'
      BY <1>t, <2>1, <3>1 DEF HotkeyTypeOK
    <3>3. ListenerPlace'
      BY <1>t, <2>1, <3>1 DEF HotkeyTypeOK, ListenerPlace, _stopped
    <3>4. SentinelsHeard'
      BY <1>t, <2>1, <3>1 DEF SentinelsHeard
    <3> QED
      BY <3>2, <3>3, <3>4 DEF HotkeyInv
  <2> QED
    BY <2>2, <2>3
<1>7. CASE Disconnect
  <2>1. /\ listener = "ending" /\ listener' = "stopped" /\ heard' = <<>>
        /\ socket' = [socket EXCEPT !.open = FALSE, !.registered = FALSE]
        /\ UNCHANGED <<failed, paused, reset, sentinel, presses, outages, missed, stuck>>
    BY <1>7 DEF Disconnect
  <2>2. heard' \in Seq(KeyEvents)
    BY <2>1, EmptySeq
  <2>3. HotkeyTypeOK'
    BY <1>t, <2>1, <2>2 DEF HotkeyTypeOK, KeyEvents
  <2>4. ListenerPlace'
    BY <1>t, <2>1 DEF HotkeyTypeOK, ListenerPlace, _stopped
  <2> QED
    BY <2>1, <2>3, <2>4 DEF HotkeyInv, SentinelsHeard
<1>8. CASE UNCHANGED hotkeyVars
  BY <1>8, <1>t DEF hotkeyVars, HotkeyInv, HotkeyTypeOK, ListenerPlace, SentinelsHeard, _stopped
<1> QED
  BY <1>1, <1>2, <1>3, <1>4, <1>5, <1>6, <1>7, <1>8 DEF HotkeyNext

\* For every number of keys, outages and attempts: with nothing on its way the pause
\* flag is the sentinel's, unless an event of it was missed, the clear key is armed again,
\* unless a re-arm failed, and stop() has waited for the re-arm of each clear key handled
\* before it.
THEOREM KeysAreKept == HotkeySpec => []KeysKeepTheirMeaning
<1>1. HotkeyInv => KeysKeepTheirMeaning
  <2> SUFFICES ASSUME HotkeyInv PROVE KeysKeepTheirMeaning
    OBVIOUS
  <2>1. HotkeyTypeOK /\ ListenerPlace /\ SentinelsHeard
    BY DEF HotkeyInv
  <2>2. PausedIsSentinel
    BY <2>1, NothingHeard DEF PausedIsSentinel, Attending, ListenerPlace, SentinelsHeard
  <2>3. ClearKeyArmed
    BY <2>1, NothingHeard DEF ClearKeyArmed, Attending, ListenerPlace, SentinelsHeard
  <2> QED
    BY <2>1, <2>2, <2>3 DEF KeysKeepTheirMeaning, RearmedBeforeStop, ListenerPlace
<1> QED
  BY <1>1, HotkeyInitInv, HotkeyNextInv, PTL DEF HotkeySpec

----------------------------------------------------------------------------
(* The children of the settings window.                                    *)

\* A child that runs and was not killed.
AtLarge(c) == child[c] \in {"starting", "alive"}

ChildPlace ==
  /\ launches \in Nat /\ launches <= MaxStarts
  /\ child \in [Children -> {"none", "starting", "alive", "doomed", "ended"}]
  /\ callback \in {"none", "save", "start", "launch"}
  /\ \A c \in Children : c > launches => child[c] = "none"
  /\ callback # "none" => shown
  /\ callback \in {"start", "launch"} => ~IsRunning /\ launches < MaxStarts

ChildrenInv == ChildPlace /\ NoOrphan

LEMMA ChildrenInitInv == RunControlInit => ChildrenInv
<1> SUFFICES ASSUME RunControlInit PROVE ChildrenInv
  OBVIOUS
<1> USE RunControlAssumption
<1>1. ChildPlace
  BY DEF RunControlInit, ChildPlace, IsRunning
<1>2. NoOrphan
  BY DEF RunControlInit, NoOrphan
<1> QED
  BY <1>1, <1>2 DEF ChildrenInv

\* A step that changes nothing of the children or the window.
LEMMA ChildrenKept ==
  ASSUME ChildrenInv, UNCHANGED <<launches, child, shown>>,
         callback' \in {"none", "save", callback} \cup (IF callback = "start" THEN {"launch"} ELSE {}),
         callback' # "none" => shown
  PROVE  ChildrenInv'
  BY DEF ChildrenInv, ChildPlace, NoOrphan, IsRunning, Alive

LEMMA ChildrenNextInv == ChildrenInv /\ [RunControlNext]_runControlVars => ChildrenInv'
<1> SUFFICES ASSUME ChildrenInv, [RunControlNext]_runControlVars PROVE ChildrenInv'
  OBVIOUS
<1> USE RunControlAssumption
<1>t. ChildPlace /\ NoOrphan
  BY DEF ChildrenInv
<1>c. Children = 1 .. MaxStarts
  BY DEF Children
<1>1. CASE EnterValue \/ DumpFails \/ PumpBegins \/ PumpEnds \/ ShowEnding
  <2>1. UNCHANGED <<launches, child, shown>> /\ callback' \in {"none", callback}
    BY <1>1 DEF EnterValue, DumpFails, PumpBegins, PumpEnds, ShowEnding, runChildren, runWindow, Resting
  <2> QED
    BY <1>t, <2>1, ChildrenKept DEF ChildPlace
<1>2. CASE SaveOpens
  <2>1. UNCHANGED <<launches, child, shown>> /\ shown
    BY <1>2 DEF SaveOpens, runChildren, runWindow, Resting
  <2>2. CASE callback' = "save"
    BY <2>1, <2>2, ChildrenKept
  <2>3. CASE MayStart /\ launches < MaxStarts /\ callback' = "start"
    <3>1. ~IsRunning
      BY <2>3 DEF MayStart
    <3> QED
      BY <1>t, <2>1, <2>3, <3>1 DEF ChildrenInv, ChildPlace, NoOrphan, IsRunning, Alive
  <2> QED
    BY <1>2, <2>2, <2>3 DEF SaveOpens
<1>3. CASE DumpEnds
  <2>1. /\ UNCHANGED <<launches, child, shown>> /\ callback \in {"save", "start"}
        /\ callback' = "none" \/ (callback = "start" /\ callback' = "launch")
    BY <1>3 DEF DumpEnds, runChildren, runWindow
  <2> QED
    BY <1>t, <2>1, ChildrenKept DEF ChildPlace
<1>4. CASE LaunchChild
  <2>1. callback = "launch" /\ callback' = "none" /\ UNCHANGED shown /\ shown
    BY <1>4, <1>t DEF LaunchChild, ChildPlace
  <2>2. CASE UNCHANGED <<launches, child>>
    BY <2>1, <2>2, ChildrenKept
  <2>3. CASE launches' = launches + 1 /\ child' = [child EXCEPT ![launches + 1] = "starting"]
    <3>1. ~IsRunning /\ launches < MaxStarts /\ launches + 1 \in Children
      BY <1>c, <1>t, <2>1 DEF ChildPlace
    <3>2. \A c \in Children : ~AtLarge(c)
      BY <1>c, <1>t, <3>1 DEF NoOrphan, IsRunning, Alive, AtLarge
    <3>3. ChildPlace'
      BY <1>c, <1>t, <2>1, <2>3, <3>1 DEF ChildPlace
    <3>4. \A c \in Children : child'[c] \in {"starting", "alive"} => c = launches'
      BY <1>t, <2>3, <3>1, <3>2 DEF ChildPlace, AtLarge
    <3> QED
      BY <2>1, <3>3, <3>4 DEF ChildrenInv, NoOrphan
  <2> QED
    BY <1>4, <2>2, <2>3 DEF LaunchChild
<1>5. CASE ChildReads
  <2>1. PICK c \in Children : child[c] = "starting" /\ child' = [child EXCEPT ![c] = "alive"]
    BY <1>5 DEF ChildReads
  <2>2. UNCHANGED <<launches, shown, callback>>
    BY <1>5 DEF ChildReads, runWindow
  <2>3. IsRunning' <=> IsRunning
    BY <1>c, <1>t, <2>1, <2>2 DEF IsRunning, Alive, ChildPlace
  <2> QED
    BY <1>t, <2>1, <2>2, <2>3 DEF ChildrenInv, ChildPlace, NoOrphan
<1>6. CASE ChildEnds
  <2>1. PICK c \in Children : Alive(c) /\ child' = [child EXCEPT ![c] = "ended"]
    BY <1>6 DEF ChildEnds
  <2>2. UNCHANGED <<launches, shown, callback>>
    BY <1>6 DEF ChildEnds, runWindow
  <2>3. IsRunning' => IsRunning
    BY <1>c, <1>t, <2>1, <2>2 DEF IsRunning, Alive, ChildPlace
  <2> QED
    BY <1>t, <2>1, <2>2, <2>3 DEF ChildrenInv, ChildPlace, NoOrphan, Alive
<1>7. ASSUME NEW state \in {"ended", "doomed"}, StopsAs(state), callback = "none",
             UNCHANGED <<callback, launches>>
      PROVE  ChildPlace' /\ \A c \in Children : child'[c] \notin {"starting", "alive"}
  <2>1. CASE IsRunning
    <3>1. child' = [child EXCEPT ![launches] = state] /\ launches \in Children
      BY <1>7, <1>c, <1>t, <2>1 DEF StopsAs, IsRunning, ChildPlace
    <3>2. ChildPlace'
      BY <1>7, <1>c, <1>t, <3>1 DEF ChildPlace
    <3> QED
      BY <1>t, <3>1, <3>2 DEF ChildPlace, NoOrphan
  <2>2. CASE ~IsRunning
    <3>1. child' = child
      BY <1>7, <2>2 DEF StopsAs
    <3>2. ChildPlace'
      BY <1>7, <1>t, <3>1 DEF ChildPlace
    <3>3. \A c \in Children : child[c] \notin {"starting", "alive"}
      BY <1>c, <1>t, <2>2 DEF NoOrphan, IsRunning, Alive
    <3> QED
      BY <3>1, <3>2, <3>3
  <2> QED
    BY <2>1, <2>2
<1>8. CASE PressStop \/ CloseWindow
  <2>1. callback = "none" /\ UNCHANGED <<callback, launches>>
    BY <1>8 DEF PressStop, CloseWindow, Resting
  <2>2. PICK state \in {"ended", "doomed"} : StopsAs(state)
    BY <1>8 DEF PressStop, CloseWindow
  <2> QED
    BY <1>7, <2>1, <2>2 DEF ChildrenInv, NoOrphan
<1>9. CASE UNCHANGED runControlVars
  <2>1. UNCHANGED <<launches, child, shown, callback>>
    BY <1>9 DEF runControlVars, runChildren, runWindow
  <2> QED
    BY <1>t, <2>1, ChildrenKept DEF ChildPlace
<1> QED
  BY <1>1, <1>2, <1>3, <1>4, <1>5, <1>6, <1>8, <1>9 DEF RunControlNext

\* However saves, starts, stops and the notices of ended children interleave, and for
\* every number of children: a child that runs is the one Stop would stop.
THEOREM ChildrenAreKept == RunControlSpec => []NoOrphan
<1>1. ChildrenInv => NoOrphan
  BY DEF ChildrenInv
<1> QED
  BY <1>1, ChildrenInitInv, ChildrenNextInv, PTL DEF RunControlSpec

----------------------------------------------------------------------------
(* The settings files of the window.                                       *)
(*                                                                         *)
(* What _write_env writes is taken apart into the lines that are left, with *)
(* their new values, and the lines that are added; from this follow what   *)
(* _read_env finds for a secret and that the other lines are as they were. *)
(* The invariant then says what is in the files between two writes.        *)

\* A line of .env, and a form of the window.
Text == STRING \cup {Unset}
Line == [key : STRING, value : Text]
IsForm(f) ==
  /\ f = [fields |-> f.fields, secrets |-> f.secrets]
  /\ f.fields = [p \in Fields |-> f.fields[p]]
  /\ f.secrets \in [Secrets -> Text]

\* The lines the window does not know.
Others == {l \in Line : l.key \notin Secrets}

\* The lines of WriteEnv: what is left of the old ones, with their new values, and the new.
Dropped(f, lines) == {l \in ToSet(lines) : l.key \in Secrets /\ f.secrets[l.key] = Unset}
Left(f, lines) == Among(lines, ToSet(lines) \ Dropped(f, lines))
Written(f, l) == IF l.key \in Secrets THEN [l EXCEPT !.value = f.secrets[l.key]] ELSE l
Added(f, lines) == {s \in Secrets : f.secrets[s] # Unset /\ \A i \in DOMAIN lines : lines[i].key # s}
OldLines(f, lines) == [i \in DOMAIN Left(f, lines) |-> Written(f, Left(f, lines)[i])]
NewLines(f, lines) == [i \in 1 .. Cardinality(Added(f, lines)) |->
  LET s == SetToSeq(Added(f, lines))[i] IN [key |-> s, value |-> f.secrets[s]]]

\* The two parts of WriteEnv are sequences of lines.
LEMMA WriteEnvIs ==
  ASSUME NEW f, IsForm(f), NEW lines \in Seq(Line)
  PROVE  /\ WriteEnv(f, lines) = OldLines(f, lines) \o NewLines(f, lines)
         /\ Left(f, lines) \in Seq(Line)
         /\ OldLines(f, lines) \in Seq(Line) /\ Len(OldLines(f, lines)) = Len(Left(f, lines))
         /\ \A i \in 1 .. Len(Left(f, lines)) : OldLines(f, lines)[i] = Written(f, Left(f, lines)[i])
         /\ NewLines(f, lines) \in Seq(Line)
         /\ \A i \in 1 .. Len(NewLines(f, lines)) :
              /\ NewLines(f, lines)[i].key \in Added(f, lines)
              /\ NewLines(f, lines)[i].value = f.secrets[NewLines(f, lines)[i].key]
         /\ \A s \in Added(f, lines) : \E i \in 1 .. Len(NewLines(f, lines)) : NewLines(f, lines)[i].key = s
<1> DEFINE left == Left(f, lines)
           old == OldLines(f, lines)
           add == Added(f, lines)
           new == NewLines(f, lines)
           k == Len(left)
<1>1. WriteEnv(f, lines) = old \o new
  BY DEF WriteEnv, OldLines, NewLines, Left, Dropped, Written, Added
<1>2. left \in Seq(Line) /\ k \in Nat /\ DOMAIN left = 1 .. k
  BY AmongType, LenProperties DEF Left
<1>3. \A l \in Line : Written(f, l) \in Line
  BY DEF Written, Line, IsForm
<1>4. \A i \in 1 .. k : left[i] \in Line
  BY <1>2, ElementOfSeq
<1> HIDE DEF left, k
<1>5. old = [i \in 1 .. k |-> Written(f, left[i])]
  BY <1>2 DEF OldLines, left
<1> HIDE DEF old
<1>6. old \in [1 .. k -> Line]
  BY <1>3, <1>4, <1>5
<1>7. old \in Seq(Line) /\ Len(old) = k /\ \A i \in 1 .. k : old[i] = Written(f, left[i])
  BY <1>2, <1>5, <1>6, SeqDef, LenProperties
<1>8. IsFiniteSet(add) /\ add \subseteq Secrets
  BY SecretsAssumption, FS_Subset DEF Added
<1> DEFINE n == Cardinality(add)
           g == SetToSeq(add)
<1> HIDE DEF add
<1>9. n \in Nat /\ g \in [1 .. n -> add] /\ \A s \in add : \E i \in 1 .. n : g[i] = s
  BY <1>8, SetToSeqIs
<1> HIDE DEF n, g
<1>10. new = [i \in 1 .. n |-> [key |-> g[i], value |-> f.secrets[g[i]]]]
  BY DEF NewLines, n, g, add
<1> HIDE DEF new
<1>11. \A i \in 1 .. n : g[i] \in add /\ g[i] \in STRING /\ f.secrets[g[i]] \in Text
  BY <1>8, <1>9, SecretsAssumption DEF IsForm
<1>12. new \in [1 .. n -> Line] /\ \A i \in 1 .. n : new[i].key = g[i] /\ new[i].value = f.secrets[g[i]]
  BY <1>10, <1>11 DEF Line
<1>13. new \in Seq(Line) /\ Len(new) = n
  BY <1>9, <1>12, SeqDef, LenProperties
<1>14. \A i \in 1 .. Len(new) : new[i].key \in add /\ new[i].value = f.secrets[new[i].key]
  BY <1>11, <1>12, <1>13
<1>15. \A s \in add : \E i \in 1 .. Len(new) : new[i].key = s
  BY <1>9, <1>12, <1>13, SMTT(30)
<1> QED
  BY <1>1, <1>2, <1>7, <1>13, <1>14, <1>15 DEF left, old, add, new, k

\* A line of WriteEnv for a secret has the value of the form, which is not blank, and a
\* secret that is not blank has a line.
LEMMA SecretLines ==
  ASSUME NEW f, IsForm(f), NEW lines \in Seq(Line), NEW s \in Secrets, NEW env2, env2 = WriteEnv(f, lines)
  PROVE  /\ env2 \in Seq(Line)
         /\ \A i \in 1 .. Len(env2) : env2[i].key = s => env2[i].value = f.secrets[s] /\ f.secrets[s] # Unset
         /\ f.secrets[s] # Unset => \E i \in 1 .. Len(env2) : env2[i].key = s
<1> DEFINE left == Left(f, lines)
           old == OldLines(f, lines)
           add == Added(f, lines)
           new == NewLines(f, lines)
           k == Len(left)
           n == Len(new)
<1>1. /\ env2 = old \o new
      /\ left \in Seq(Line) /\ old \in Seq(Line) /\ Len(old) = k
      /\ \A i \in 1 .. k : old[i] = Written(f, left[i])
      /\ new \in Seq(Line)
      /\ \A i \in 1 .. n : new[i].key \in add /\ new[i].value = f.secrets[new[i].key]
      /\ \A x \in add : \E i \in 1 .. n : new[i].key = x
  BY WriteEnvIs
<1>2. \A x \in add : f.secrets[x] # Unset
  BY DEF Added
<1>3. s \in add <=> f.secrets[s] # Unset /\ \A i \in DOMAIN lines : lines[i].key # s
  BY DEF Added
<1>4. k \in Nat /\ DOMAIN left = 1 .. k /\ \A i \in 1 .. k : left[i] \in Line
  BY <1>1, ElementOfSeq, LenProperties
<1>5. ToSet(left) = ToSet(lines) \cap (ToSet(lines) \ Dropped(f, lines))
  <2> DEFINE S == ToSet(lines) \ Dropped(f, lines)
  <2> HIDE DEF S
  <2>1. ToSet(Among(lines, S)) = ToSet(lines) \cap S
    BY AmongElements
  <2> QED
    BY <2>1 DEF S, Left
<1> HIDE DEF left, old, add, new, k, n
<1>6. /\ env2 \in Seq(Line) /\ n \in Nat /\ Len(env2) = k + n
      /\ \A i \in 1 .. k + n : env2[i] = IF i <= k THEN old[i] ELSE new[i - k]
  <2>1. Len(new) = n /\ n \in Nat
    BY <1>1, LenProperties DEF n
  <2>2. old \in Seq(Line) /\ new \in Seq(Line) /\ Len(old) = k
    BY <1>1
  <2>3. /\ old \o new \in Seq(Line) /\ Len(old \o new) = k + n
        /\ \A i \in 1 .. k + n : (old \o new)[i] = IF i <= k THEN old[i] ELSE new[i - k]
    BY <2>1, <2>2, ConcatProperties
  <2> QED
    BY <1>1, <2>1, <2>3
<1>7. \A i \in 1 .. k : env2[i] = Written(f, left[i])
  BY <1>1, <1>4, <1>6
<1>8. \A i \in 1 .. n : k + i \in 1 .. k + n /\ env2[k + i] = new[i]
  <2> SUFFICES ASSUME NEW i \in 1 .. n PROVE k + i \in 1 .. k + n /\ env2[k + i] = new[i]
    OBVIOUS
  <2>1. k + i \in 1 .. k + n /\ ~(k + i <= k) /\ (k + i) - k = i
    BY <1>4, <1>6
  <2> QED
    BY <1>6, <2>1
<1>9. \A l \in Line : /\ Written(f, l).key = l.key
                      /\ l.key \in Secrets => Written(f, l).value = f.secrets[l.key]
  BY DEF Written, Line
<1>10. ASSUME NEW i \in 1 .. Len(env2), env2[i].key = s
       PROVE  env2[i].value = f.secrets[s] /\ f.secrets[s] # Unset
  <2>1. CASE i <= k
    <3>1. i \in 1 .. k
      BY <1>4, <1>6, <2>1
    <3>2. left[i] \in Line /\ left[i].key = s /\ env2[i].value = f.secrets[s]
      BY <1>4, <1>7, <1>9, <1>10, <3>1
    <3>3. left[i] \in ToSet(left)
      BY <1>4, <3>1 DEF ToSet
    <3>4. left[i] \in ToSet(lines) /\ left[i] \notin Dropped(f, lines)
      BY <1>5, <3>3
    <3>5. f.secrets[s] # Unset
      BY <3>2, <3>4 DEF Dropped
    <3> QED
      BY <3>2, <3>5
  <2>2. CASE ~(i <= k)
    <3>1. i - k \in 1 .. n /\ env2[i] = new[i - k]
      BY <1>4, <1>6, <2>2
    <3> QED
      BY <1>1, <1>2, <1>10, <3>1
  <2> QED
    BY <2>1, <2>2
<1>11. ASSUME f.secrets[s] # Unset PROVE \E i \in 1 .. Len(env2) : env2[i].key = s
  <2>1. CASE s \in add
    <3>1. PICK i \in 1 .. n : new[i].key = s
      BY <1>1, <2>1
    <3>2. k + i \in 1 .. Len(env2) /\ env2[k + i] = new[i]
      BY <1>6, <1>8
    <3> QED
      BY <3>1, <3>2
  <2>2. CASE s \notin add
    <3>1. PICK j \in DOMAIN lines : lines[j].key = s
      BY <1>3, <1>11, <2>2
    <3>2. lines[j] \in ToSet(lines) /\ lines[j] \notin Dropped(f, lines)
      BY <1>11, <3>1 DEF ToSet, Dropped
    <3>3. lines[j] \in ToSet(left)
      BY <1>5, <3>2
    <3>4. PICK i \in 1 .. k : left[i] = lines[j]
      BY <1>4, <3>3 DEF ToSet
    <3>5. env2[i].key = s /\ i \in 1 .. Len(env2)
      BY <1>4, <1>6, <1>7, <1>9, <3>1, <3>4
    <3> QED
      BY <3>5
  <2> QED
    BY <2>1, <2>2
<1> QED
  BY <1>6, <1>10, <1>11

\* _read_env finds no line of the key, or reads the value of one.
LEMMA ReadIs ==
  ASSUME NEW lines \in Seq(Line), NEW s
  PROVE  \/ ReadEnv(lines, s) = Unset /\ \A i \in 1 .. Len(lines) : lines[i].key # s
         \/ \E i \in 1 .. Len(lines) : lines[i].key = s /\ ReadEnv(lines, s) = lines[i].value
<1> DEFINE n == Len(lines)
           of == {i \in DOMAIN lines : lines[i].key = s}
<1>1. DOMAIN lines = 1 .. n /\ n \in Nat
  BY LenProperties
<1>2. ReadEnv(lines, s) = IF of = {} THEN Unset ELSE lines[CHOOSE i \in of : \A j \in of : j <= i].value
  BY DEF ReadEnv
<1> HIDE DEF n
<1>3. CASE of = {}
  BY <1>1, <1>2, <1>3 DEF n
<1>4. CASE of # {}
  <2>1. \E i \in of : \A j \in of : j <= i
    <3> DEFINE S == of \cup {0}
    <3>1. 0 \in S
      OBVIOUS
    <3> HIDE DEF S
    <3>2. PICK m \in 0 .. n : m \in S /\ \A j \in m + 1 .. n : j \notin S
      BY <1>1, <3>1, GreatestExists
    <3>3. \A j \in of : j \in 1 .. n /\ j \in S
      BY <1>1 DEF S
    <3>4. \A j \in of : j <= m
      BY <1>1, <3>2, <3>3
    <3>5. m \in of
      BY <1>4, <3>2, <3>3, <3>4 DEF S
    <3> QED
      BY <3>4, <3>5
  <2> DEFINE c == CHOOSE i \in of : \A j \in of : j <= i
  <2>2. c \in of
    BY <2>1
  <2>3. ReadEnv(lines, s) = lines[c].value
    BY <1>2, <1>4
  <2> HIDE DEF c
  <2> QED
    BY <1>1, <2>2, <2>3 DEF n
<1> QED
  BY <1>3, <1>4

\* What was written is read: there is a line of the secret unless it is blank.
LEMMA SecretIsRead ==
  ASSUME NEW f, IsForm(f), NEW lines \in Seq(Line), NEW s \in Secrets
  PROVE  ReadEnv(WriteEnv(f, lines), s) = f.secrets[s]
<1> DEFINE all == WriteEnv(f, lines)
<1>1. /\ all \in Seq(Line)
      /\ \A i \in 1 .. Len(all) : all[i].key = s => all[i].value = f.secrets[s] /\ f.secrets[s] # Unset
      /\ f.secrets[s] # Unset => \E i \in 1 .. Len(all) : all[i].key = s
  BY SecretLines
<1> HIDE DEF all
<1>2. \/ ReadEnv(all, s) = Unset /\ \A i \in 1 .. Len(all) : all[i].key # s
      \/ \E i \in 1 .. Len(all) : all[i].key = s /\ ReadEnv(all, s) = all[i].value
  BY <1>1, ReadIs
<1>3. ReadEnv(all, s) = f.secrets[s]
  BY <1>1, <1>2
<1> QED
  BY <1>3 DEF all

\* _write_env leaves the lines alone that are of no secret of the window.
LEMMA OthersAreLeft ==
  ASSUME NEW f, IsForm(f), NEW lines \in Seq(Line)
  PROVE  OtherLines(WriteEnv(f, lines)) = OtherLines(lines)
<1> DEFINE all == WriteEnv(f, lines)
           left == Left(f, lines)
           old == OldLines(f, lines)
           new == NewLines(f, lines)
           k == Len(left)
           n == Len(new)
           T == ToSet(lines) \ Dropped(f, lines)
<1>1. /\ all = old \o new
      /\ left \in Seq(Line) /\ old \in Seq(Line) /\ Len(old) = k
      /\ \A i \in 1 .. k : old[i] = Written(f, left[i])
      /\ new \in Seq(Line) /\ \A i \in 1 .. n : new[i].key \in Added(f, lines)
  BY WriteEnvIs
<1>t. left = Among(lines, T)
  BY DEF Left
<1> HIDE DEF all, left, old, new, T
<1>2. ASSUME NEW ls \in Seq(Line) PROVE OtherLines(ls) = Among(ls, Others)
  <2> DEFINE S == {l \in ToSet(ls) : l.key \notin Secrets}
  <2>1. \A i \in 1 .. Len(ls) : ls[i] \in Line /\ ls[i] \in ToSet(ls)
    BY ElementOfSeq, LenProperties DEF ToSet
  <2>2. \A i \in 1 .. Len(ls) : ls[i] \in S <=> ls[i] \in Others
    BY <2>1 DEF Others
  <2>3. OtherLines(ls) = Among(ls, S)
    BY DEF OtherLines
  <2> HIDE DEF S
  <2> QED
    BY <2>2, <2>3, AmongSame
<1>3. Among(new, Others) = <<>>
  <2>1. \A i \in 1 .. n : new[i] \notin Others
    BY <1>1 DEF Others, Added
  <2> QED
    BY <1>1, <2>1, AmongNone
<1>4. Among(old, Others) = Among(left, Others)
  <2>1. \A i \in 1 .. k : left[i] \in Line
    BY <1>1, ElementOfSeq
  <2>2. \A l \in Line : Written(f, l) = l \/ (l \notin Others /\ Written(f, l) \notin Others)
    BY DEF Written, Others, Line
  <2>3. \A i \in 1 .. k : old[i] = left[i] \/ (left[i] \notin Others /\ old[i] \notin Others)
    BY <1>1, <2>1, <2>2
  <2> QED
    BY <1>1, <2>3, AmongMapped
<1>5. Among(left, Others) = Among(lines, T \cap Others)
  BY <1>1, <1>t, AmongTwice
<1>6. Among(lines, T \cap Others) = Among(lines, Others)
  <2> DEFINE U == T \cap Others
  <2>1. \A i \in 1 .. Len(lines) : lines[i] \in Line /\ lines[i] \in ToSet(lines)
    BY ElementOfSeq, LenProperties DEF ToSet
  <2>2. \A i \in 1 .. Len(lines) : lines[i] \in U <=> lines[i] \in Others
    BY <2>1 DEF T, Dropped, Others
  <2> HIDE DEF U
  <2>3. Among(lines, U) = Among(lines, Others)
    BY <2>2, AmongSame
  <2> QED
    BY <2>3 DEF U
<1>7. Among(all, Others) = Among(old, Others) \o Among(new, Others)
  <2>1. old \in Seq(Line) /\ new \in Seq(Line)
    BY <1>1
  <2>2. Among(old \o new, Others) = Among(old, Others) \o Among(new, Others)
    BY <2>1, AmongConcat
  <2> QED
    BY <1>1, <2>2
<1>8. Among(old, Others) \o <<>> = Among(old, Others)
  BY <1>1, AmongType, ConcatEmptySeq
<1>9. OtherLines(all) = Among(all, Others) /\ OtherLines(lines) = Among(lines, Others)
  <2>1. all \in Seq(Line)
    BY <1>1, ConcatProperties
  <2> QED
    BY <1>2, <2>1
<1> QED
  BY <1>3, <1>4, <1>5, <1>6, <1>7, <1>8, <1>9 DEF all

\* _write_config: what the window does not manage stays.
LEMMA UnmanagedStays ==
  ASSUME NEW f, NEW c
  PROVE  Only(WriteConfig(f, c), Unmanaged) = Only(c, Unmanaged)
<1> DEFINE given == {p \in Fields : f.fields[p] \notin {Unset, Default[p]}}
           kept == Only(c, Unmanaged)
           wr == WriteConfig(f, c)
<1>1. wr = [p \in DOMAIN kept \cup given |-> IF p \in given THEN f.fields[p] ELSE kept[p]]
  BY DEF WriteConfig
<1>2. DOMAIN kept = DOMAIN c \cap Unmanaged /\ kept = [p \in DOMAIN c \cap Unmanaged |-> c[p]]
  BY DEF Only
<1>3. \A p \in Unmanaged : p \notin given
  BY FieldsAssumption
<1> HIDE DEF wr, kept, given
<1>4. DOMAIN wr = DOMAIN kept \cup given
  BY <1>1
<1>5. DOMAIN wr \cap Unmanaged = DOMAIN c \cap Unmanaged
  BY <1>2, <1>3, <1>4
<1>6. \A p \in DOMAIN c \cap Unmanaged : wr[p] = c[p]
  BY <1>1, <1>2, <1>3
<1>7. Only(wr, Unmanaged) = [p \in DOMAIN c \cap Unmanaged |-> wr[p]]
  BY <1>5 DEF Only
<1> QED
  BY <1>2, <1>6, <1>7 DEF wr, kept

\* What is written to both files is what a window opened later finds.
LEMMA WrittenIsRead ==
  ASSUME NEW f, IsForm(f), NEW c, NEW lines \in Seq(Line)
  PROVE  LoadSettings(WriteConfig(f, c), WriteEnv(f, lines)) = Reopened(f)
<1> DEFINE given == {p \in Fields : f.fields[p] \notin {Unset, Default[p]}}
           kept == Only(c, Unmanaged)
           wr == WriteConfig(f, c)
           env2 == WriteEnv(f, lines)
<1>1. wr = [p \in DOMAIN kept \cup given |-> IF p \in given THEN f.fields[p] ELSE kept[p]]
  BY DEF WriteConfig
<1>2. \A p \in Fields : p \notin DOMAIN kept
  BY FieldsAssumption DEF Only
<1> HIDE DEF wr, kept
<1>3. \A p \in Fields : (IF p \in DOMAIN wr THEN wr[p] ELSE Default[p])
                        = (IF f.fields[p] = Unset THEN Default[p] ELSE f.fields[p])
  <2> SUFFICES ASSUME NEW p \in Fields
               PROVE  (IF p \in DOMAIN wr THEN wr[p] ELSE Default[p])
                      = (IF f.fields[p] = Unset THEN Default[p] ELSE f.fields[p])
    OBVIOUS
  <2>1. CASE p \in given
    <3>1. p \in DOMAIN wr /\ wr[p] = f.fields[p] /\ f.fields[p] # Unset
      BY <1>1, <2>1
    <3> QED
      BY <3>1
  <2>2. CASE p \notin given
    <3>1. p \notin DOMAIN wr /\ (f.fields[p] = Unset \/ f.fields[p] = Default[p])
      BY <1>1, <1>2, <2>2
    <3> QED
      BY <3>1
  <2> QED
    BY <2>1, <2>2
<1>4. \A s \in Secrets : ReadEnv(env2, s) = f.secrets[s]
  BY SecretIsRead
<1> HIDE DEF env2
<1>5. [s \in Secrets |-> ReadEnv(env2, s)] = f.secrets
  BY <1>4 DEF IsForm
<1> DEFINE opened == [p \in Fields |-> IF p \in DOMAIN wr THEN wr[p] ELSE Default[p]]
           blank == [p \in Fields |-> IF f.fields[p] = Unset THEN Default[p] ELSE f.fields[p]]
<1>6. opened = blank
  BY <1>3
<1>7. LoadSettings(wr, env2) = [fields |-> opened, secrets |-> f.secrets]
  BY <1>5 DEF LoadSettings
<1>8. Reopened(f) = [f EXCEPT !.fields = blank]
  BY DEF Reopened
<1> HIDE DEF opened, blank
<1>9. Reopened(f) = [fields |-> blank, secrets |-> f.secrets]
  BY <1>8 DEF IsForm
<1> QED
  BY <1>6, <1>7, <1>9 DEF wr, env2

\* While a file is written the form to write and the configuration that was read are at
\* hand; otherwise the files are what was saved.
SettingsInv ==
  /\ IsForm(form) /\ env \in Seq(Line)
  /\ ~torn => OtherLines(env) = OtherLines(FirstEnv)
  /\ callback \in {"save", "start"} =>
       /\ saved = <<>> /\ IsForm(draft[2])
       /\ ~torn => Only(draft[1], Unmanaged) = Only(FirstConfig, Unmanaged)
  /\ callback \notin {"save", "start"} =>
       /\ saved # <<>> => LoadSettings(config, env) = Reopened(saved[1])
       /\ ~torn => Only(config, Unmanaged) = Only(FirstConfig, Unmanaged)

LEMMA SettingsInitInv == RunControlInit => SettingsInv
<1> SUFFICES ASSUME RunControlInit PROVE SettingsInv
  OBVIOUS
<1>1. /\ config = FirstConfig /\ env = FirstEnv /\ saved = <<>> /\ callback = "none"
      /\ form = LoadSettings(config, env)
  BY DEF RunControlInit
<1>2. env \in Seq(Line)
  <2>1. [key : STRING, value : STRING] \subseteq Line
    BY DEF Line, Text
  <2> QED
    BY <1>1, <2>1, TextAssumption, SeqMonotonic
<1>3. \A s \in Secrets : ReadEnv(env, s) \in Text
  <2> SUFFICES ASSUME NEW s \in Secrets PROVE ReadEnv(env, s) \in Text
    OBVIOUS
  <2>1. ASSUME NEW i \in 1 .. Len(env) PROVE env[i].value \in Text
    <3>1. env[i] \in Line
      BY <1>2, ElementOfSeq
    <3> QED
      BY <3>1 DEF Line
  <2>2. \/ ReadEnv(env, s) = Unset
        \/ \E i \in 1 .. Len(env) : ReadEnv(env, s) = env[i].value
    BY <1>2, ReadIs
  <2> QED
    BY <2>1, <2>2 DEF Text
<1>4. IsForm(form)
  BY <1>1, <1>3 DEF IsForm, LoadSettings
<1> QED
  BY <1>1, <1>2, <1>4 DEF SettingsInv

LEMMA EnteredKept == ASSUME SettingsInv, EnterValue PROVE SettingsInv'
<1>1. UNCHANGED <<runFiles, callback, draft>>
  BY DEF EnterValue
<1>2. IsForm(form')
  <2>1. IsForm(form)
    BY DEF SettingsInv
  <2>2. CASE \E p \in Fields, v \in Values : form' = [form EXCEPT !.fields[p] = v]
    BY <2>1, <2>2 DEF IsForm
  <2>3. CASE \E s \in Secrets, v \in Values : form' = [form EXCEPT !.secrets[s] = v]
    BY <2>1, <2>3, TextAssumption DEF IsForm, Text
  <2> QED
    BY <2>2, <2>3 DEF EnterValue
<1> QED
  BY <1>1, <1>2 DEF SettingsInv, runFiles, IsForm

LEMMA OpenedKept == ASSUME SettingsInv, SaveOpens PROVE SettingsInv'
<1>1. /\ callback = "none" /\ callback' \in {"save", "start"} /\ draft' = <<config, form>> /\ saved' = <<>>
      /\ UNCHANGED <<form, env, torn>>
  BY DEF SaveOpens, Resting
<1> QED
  BY <1>1 DEF SettingsInv, IsForm

LEMMA DumpKept == ASSUME SettingsInv, DumpFails \/ DumpEnds PROVE SettingsInv'
<1>1. CASE DumpFails
  <2>1. /\ callback \in {"save", "start"} /\ callback' = "none" /\ torn' = TRUE
        /\ UNCHANGED <<form, config, env, saved>>
    BY <1>1 DEF DumpFails
  <2> QED
    BY <2>1 DEF SettingsInv, IsForm
<1>2. CASE DumpEnds
  <2> DEFINE f == draft[2]
             c == draft[1]
  <2>1. /\ callback \in {"save", "start"} /\ config' = WriteConfig(f, c) /\ form' = form
        /\ callback' \in {"launch", "none"}
    BY <1>2 DEF DumpEnds
  <2>2. /\ saved = <<>> /\ IsForm(f) /\ IsForm(form) /\ env \in Seq(Line)
        /\ ~torn => OtherLines(env) = OtherLines(FirstEnv)
        /\ ~torn => Only(c, Unmanaged) = Only(FirstConfig, Unmanaged)
    BY <2>1 DEF SettingsInv
  <2>3. Only(config', Unmanaged) = Only(c, Unmanaged)
    BY <2>1, UnmanagedStays
  <2>4. CASE env' = WriteEnv(f, env) /\ saved' = <<f>> /\ torn' = torn
    <3>1. env' \in Seq(Line) /\ OtherLines(env') = OtherLines(env)
      <4>1. /\ OldLines(f, env) \in Seq(Line) /\ NewLines(f, env) \in Seq(Line)
            /\ env' = OldLines(f, env) \o NewLines(f, env)
        BY <2>2, <2>4, WriteEnvIs
      <4>2. env' \in Seq(Line)
        BY <4>1, ConcatProperties
      <4>3. OtherLines(env') = OtherLines(env)
        BY <2>2, <2>4, OthersAreLeft
      <4> QED
        BY <4>2, <4>3
    <3>2. LoadSettings(config', env') = Reopened(saved'[1])
      <4>1. LoadSettings(config', env') = Reopened(f)
        BY <2>1, <2>2, <2>4, WrittenIsRead
      <4> QED
        BY <2>4, <4>1
    <3> QED
      BY <2>1, <2>2, <2>3, <2>4, <3>1, <3>2 DEF SettingsInv, IsForm
  <2>5. CASE env' \in {env, <<>>} /\ torn' = (torn \/ env' # env) /\ saved' = saved
    <3>1. env' \in Seq(Line)
      BY <2>2, <2>5, EmptySeq
    <3>2. ~torn' => ~torn /\ env' = env
      BY <2>5
    <3> QED
      BY <2>1, <2>2, <2>3, <2>5, <3>1, <3>2 DEF SettingsInv, IsForm
  <2> QED
    BY <1>2, <2>4, <2>5 DEF DumpEnds
<1> QED
  BY <1>1, <1>2

LEMMA SettingsNextInv == SettingsInv /\ [RunControlNext]_runControlVars => SettingsInv'
<1> SUFFICES ASSUME SettingsInv, [RunControlNext]_runControlVars PROVE SettingsInv'
  OBVIOUS
<1>1. ASSUME UNCHANGED <<form, config, env, torn, saved, draft>>,
             callback' = callback \/ (callback = "launch" /\ callback' = "none")
      PROVE  SettingsInv'
  BY <1>1 DEF SettingsInv, IsForm
<1>2. CASE UNCHANGED runControlVars
  BY <1>1, <1>2 DEF runControlVars, runFiles
<1>3. CASE LaunchChild
  BY <1>1, <1>3 DEF LaunchChild, runFiles
<1>4. CASE ChildReads \/ ChildEnds \/ PressStop \/ CloseWindow \/ PumpBegins \/ PumpEnds \/ ShowEnding
  <2>1. UNCHANGED <<form, runFiles, callback, draft>>
    BY <1>4 DEF ChildReads, ChildEnds, PressStop, CloseWindow, PumpBegins, PumpEnds, ShowEnding
  <2> QED
    BY <1>1, <2>1 DEF runFiles
<1> QED
  BY <1>2, <1>3, <1>4, EnteredKept, OpenedKept, DumpKept DEF RunControlNext

\* For every set of fields and secrets, and every config.toml and .env to begin with: what
\* the window saved (gui/config_io.py, save_settings) is what it finds when it is opened
\* again, save that a blank field is found at its default, the language too, whose help
\* promises that a blank means detection, and what it does not know in either file is as
\* it was, unless a write was cut short.
THEOREM SettingsAreKept == RunControlSpec => []SavedIsLoaded
<1>1. SettingsInv => SavedIsLoaded
  BY DEF SettingsInv, SavedIsLoaded
<1> QED
  BY <1>1, SettingsInitInv, SettingsNextInv, PTL DEF RunControlSpec

----------------------------------------------------------------------------
(* The tables of the engines.                                              *)

EngineTypeOK ==
  /\ engine \in Engines
  /\ tested \in {"none", "good", "bad", "region", "unknown"}
  /\ backend \in {"none", "built", "key", "region", "project"}

\* Why a test answered, why no backend was built, and what one was built with.
EngineReasons ==
  /\ tested \notin {"none", "bad"} => typed # NoKey
  /\ tested = "good" => engine # "azure"
  /\ backend = "key" => engine \in KeyedEngines /\ KeyFound = NoKey
  /\ backend = "region" => engine = "azure"
  /\ backend = "project" => KeyLess(engine)
  /\ (backend = "built" /\ engine \in KeyedEngines /\ ~KeyLess(engine)) => used = KeyFound

EngineInv == EngineTypeOK /\ EngineReasons

\* create_backend looks for the key of an engine where .env has it.
LEMMA SameVariable == \A e \in KeyedEngines : KeyVar(e) = SecretVar[e]
<1> SUFFICES ASSUME NEW e \in KeyedEngines PROVE KeyVar(e) = SecretVar[e]
  OBVIOUS
<1>1. e \in {"openai", "elevenlabs", "google", "xai", "deepgram", "assemblyai", "azure", "openrouter",
             "replicate", "groq"}
  BY DEF KeyedEngines, SecretVar
<1> QED
  BY <1>1 DEF KeyVar, SecretVar

\* load_dotenv gives the process the key the shell has or else that of .env.
LEMMA KeyIsFound == engine \in KeyedEngines => Loaded[SecretVar[engine]] = KeyFound
<1>1. ASSUME engine \in KeyedEngines PROVE SecretVar[engine] \in Variables
  BY <1>1 DEF Variables
<1> QED
  BY <1>1 DEF Loaded, KeyFound

LEMMA EngineInitInv == EngineInit => EngineInv
  BY DEF EngineInit, EngineInv, EngineTypeOK, EngineReasons

\* What validate_engine may answer.
LEMMA VerdictsKnown ==
  ASSUME NEW e, NEW key, NEW v \in Verdicts(e, key)
  PROVE  /\ v \in {"good", "bad", "region", "unknown"}
         /\ v # "bad" => key # NoKey
         /\ v = "good" => e # "azure"
<1>1. CASE key = NoKey
  <2>1. Verdicts(e, key) = {"bad"}
    BY <1>1 DEF Verdicts
  <2> QED
    BY <2>1
<1>2. CASE key # NoKey /\ e = "azure"
  <2>1. Verdicts(e, key) = {"region"}
    BY <1>2 DEF Verdicts, Network
  <2> QED
    BY <1>2, <2>1
<1>3. CASE key # NoKey /\ e \in Network
  <2>1. e # "azure" /\ Verdicts(e, key) = {"good", "bad", "unknown"}
    BY <1>3 DEF Verdicts, Network
  <2> QED
    BY <1>3, <2>1
<1>4. CASE key # NoKey /\ e # "azure" /\ e \notin Network
  <2>1. Verdicts(e, key) = {"unknown"}
    BY <1>4 DEF Verdicts
  <2> QED
    BY <1>4, <2>1
<1> QED
  BY <1>1, <1>2, <1>3, <1>4

LEMMA EngineNextInv == EngineInv /\ [EngineNext]_engineVars => EngineInv'
<1> SUFFICES ASSUME EngineInv, [EngineNext]_engineVars PROVE EngineInv'
  OBVIOUS
<1> USE DEF EngineInv
<1>1. CASE EnterKey
  <2>1. tested' = "none" /\ UNCHANGED <<engine, provider, dotenv, environ, used, backend>>
    BY <1>1 DEF EnterKey
  <2> QED
    BY <2>1 DEF EngineTypeOK, EngineReasons, KeyFound, KeyLess
<1>2. CASE TestEngineKey
  <2>1. /\ tested' \in {"good", "bad", "region", "unknown"}
        /\ tested' # "bad" => typed # NoKey
        /\ tested' = "good" => engine # "azure"
    BY <1>2, VerdictsKnown DEF TestEngineKey
  <2>2. UNCHANGED <<engine, provider, dotenv, typed, environ, used, backend>>
    BY <1>2 DEF TestEngineKey
  <2> QED
    BY <2>1, <2>2 DEF EngineTypeOK, EngineReasons, KeyFound, KeyLess
<1>3. CASE SaveKeys
  <2>1. backend' = "none" /\ UNCHANGED <<engine, provider, typed, tested, environ>>
    BY <1>3 DEF SaveKeys
  <2> QED
    BY <2>1 DEF EngineTypeOK, EngineReasons
<1>4. CASE CreateBackend
  <2>1. UNCHANGED <<engine, provider, dotenv, typed, tested, environ>>
    BY <1>4 DEF CreateBackend
  <2>2. engine # "local" => engine \in KeyedEngines
    BY DEF EngineTypeOK, Engines
  <2>3. engine \in KeyedEngines => Loaded[KeyVar(engine)] = KeyFound
    BY SameVariable, KeyIsFound
  <2>4. /\ Missing(engine) \in {"nothing", "key", "region", "project"}
        /\ Missing(engine) = "project" => KeyLess(engine)
        /\ Missing(engine) = "region" => engine = "azure"
        /\ Missing(engine) = "key" => engine # "local" /\ Loaded[KeyVar(engine)] = NoKey
    BY DEF Missing
  <2>5. Missing(engine) = "key" => engine \in KeyedEngines /\ KeyFound = NoKey
    BY <2>2, <2>3, <2>4
  <2>6. /\ backend' = IF Missing(engine) = "nothing" THEN "built" ELSE Missing(engine)
        /\ used' = IF Missing(engine) = "nothing" /\ ~KeyLess(engine) THEN Loaded[KeyVar(engine)] ELSE NoKey
    BY <1>4 DEF CreateBackend
  <2>7. (backend' = "built" /\ engine \in KeyedEngines /\ ~KeyLess(engine)) => used' = KeyFound
    BY <2>3, <2>4, <2>6
  <2>8. KeyFound' = KeyFound /\ KeyLess(engine)' = KeyLess(engine)
    BY <2>1 DEF KeyFound, KeyLess
  <2> QED
    BY <2>1, <2>4, <2>5, <2>6, <2>7, <2>8 DEF EngineTypeOK, EngineReasons
<1>5. CASE UNCHANGED engineVars
  BY <1>5 DEF engineVars, EngineTypeOK, EngineReasons, KeyFound, KeyLess
<1> QED
  BY <1>1, <1>2, <1>3, <1>4, <1>5 DEF EngineNext

\* For all keys and all variables of the shell, and in whatever order a key is entered,
\* tested, saved and used: create_backend uses the key load_dotenv leaves it, and where that
\* is the one typed, the table of the key test agrees with the tables create_backend goes
\* by, on every engine but google in its other mode.
THEOREM TestAgreesWithBackend == EngineSpec => []TestedKeyBuilds
<1>1. EngineInv => TestedKeyBuilds
  BY DEF EngineInv, EngineTypeOK, EngineReasons, TestedKeyBuilds
<1> QED
  BY <1>1, EngineInitInv, EngineNextInv, PTL DEF EngineSpec

----------------------------------------------------------------------------
(* The key test of the window.  A test that is under way has a poll due or *)
(* the box open, which is what its button waits for.                       *)

KeyCheckInv ==
  /\ generation \in Nat /\ button \in BOOLEAN /\ retries \in Nat \cup {-1}
  /\ box \in BOOLEAN
  /\ IF retries = -1
     THEN (box = TRUE /\ button = FALSE) \/ (box = FALSE /\ button = TRUE)
     ELSE box = FALSE /\ button = FALSE
  /\ AnswerIsOurs

\* The label never shows the answer to an earlier click, and while the button is off
\* either a poll is due or the message box is open, which gives it back when it is closed:
\* a test waits for its own answer, and no longer than it polls.
THEOREM AnswerIsTheLastClicks == KeyCheckSpec => [](AnswerIsOurs /\ PollIsDue)
<1>1. KeyCheckInit => KeyCheckInv
  <2>1. KeyCheckInit => /\ generation = 0 /\ verdict = 0 /\ retries = -1
                        /\ button = TRUE /\ box = FALSE
    BY Zenon DEF KeyCheckInit
  <2>2. KeyCheckInit => button \in BOOLEAN /\ box \in BOOLEAN
    BY <2>1, Zenon
  <2> QED
    BY <2>1, <2>2 DEF KeyCheckInv, AnswerIsOurs
<1>2. ASSUME KeyCheckInv, [KeyCheckNext]_keyCheckVars PROVE KeyCheckInv'
  <2>1. CASE TestKey
    <3>1. retries' \in Nat /\ retries' # -1 /\ button' = FALSE
      BY <2>1, KeyCheckAssumption DEF TestKey
    <3>2. generation' \in Nat /\ verdict' = 0
      BY <1>2, <2>1 DEF TestKey, KeyCheckInv
    <3>3. box' = FALSE
      BY <1>2, <2>1 DEF TestKey, KeyCheckInv
    <3> QED
      BY <3>1, <3>2, <3>3 DEF KeyCheckInv, AnswerIsOurs
  <2>2. CASE AnswerPut
    BY <1>2, <2>2 DEF AnswerPut, KeyCheckInv, AnswerIsOurs
  <2>3. CASE PollKey /\ results = <<>>
    <3>1. button' = (retries = 0) /\ retries' = retries - 1 /\ retries \in Nat
      BY <1>2, <2>3 DEF PollKey, KeyCheckInv
    <3>2. generation' = generation /\ verdict' = verdict /\ box' = FALSE
      BY <1>2, <2>3 DEF PollKey, KeyCheckInv
    <3>3. (retries = 0 => button' = TRUE) /\ (retries # 0 => button' = FALSE)
      BY <3>1, Zenon
    <3>4. retries' \in Nat \cup {-1} /\ (retries' = -1 <=> retries = 0)
      BY <3>1
    <3> QED
      BY <1>2, <3>2, <3>3, <3>4 DEF KeyCheckInv, AnswerIsOurs
  <2>4. CASE PollKey /\ results # <<>>
    <3>1. CASE Ours(results[1])
      <4>1. verdict' = generation /\ retries' = -1 /\ box' = TRUE /\ UNCHANGED <<button, generation>>
        BY <2>4, <3>1 DEF PollKey, Ours
      <4> QED
        BY <1>2, <2>4, <4>1 DEF PollKey, KeyCheckInv, AnswerIsOurs
    <3>2. CASE ~Ours(results[1])
      <4>1. UNCHANGED <<verdict, retries, box, button, generation>>
        BY <2>4, <3>2 DEF PollKey
      <4> QED
        BY <1>2, <4>1 DEF KeyCheckInv, AnswerIsOurs
    <3> QED
      BY <3>1, <3>2
  <2>6. CASE CloseBox
    BY <1>2, <2>6 DEF CloseBox, KeyCheckInv, AnswerIsOurs
  <2>5. CASE UNCHANGED keyCheckVars
    BY <1>2, <2>5 DEF keyCheckVars, KeyCheckInv, AnswerIsOurs
  <2> QED
    BY <1>2, <2>1, <2>2, <2>3, <2>4, <2>5, <2>6 DEF KeyCheckNext
<1>3. KeyCheckInv => AnswerIsOurs /\ PollIsDue
  BY DEF KeyCheckInv, PollIsDue
<1> QED
  BY <1>1, <1>2, <1>3, PTL DEF KeyCheckSpec
=============================================================================
