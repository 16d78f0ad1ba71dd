------------------------------ MODULE SpeechProofs ------------------------------
(***************************************************************************)
(* The Python runtime from the microphone to the caption: what the device  *)
(* of a capture is, what the run loop makes of the audio, what the         *)
(* backends make of it, and what the page shows of what they say.  Each    *)
(* part has its inductive invariant, the lemmas about its initial states   *)
(* and its steps, and the theorem they give.                               *)
(***************************************************************************)
EXTENDS RunLoop, AudioDevice, Streaming, SpeechV2, LocalWhisper, Utterance, Azure, Overlay,
        SequenceLemmas, SequenceTheorems, FiniteSetTheorems, WellFoundedInduction, TLAPS

----------------------------------------------------------------------------
(* Utterance backends: where every chunk is.                               *)

UtteranceTypeOK ==
  /\ buffer \in Seq(Nat) /\ request \in Seq(Nat) /\ settled \in Seq(Nat)
  /\ chunks \in Nat /\ http \in BOOLEAN
  /\ ending \in {"live", "stopping", "stopped", "raised"}

UtteranceInv == UtteranceTypeOK /\ EachChunkOnce

\* What was fed, with one more chunk.
LEMMA FedOneMore ==
  ASSUME chunks \in Nat, chunks' = chunks + 1
  PROVE  /\ FedSoFar \in Seq(Nat) /\ FedSoFar' \in Seq(Nat)
         /\ FedSoFar' = Append(FedSoFar, chunks + 1)
<1>1. FedSoFar \in Seq(Nat) /\ Len(FedSoFar) = chunks /\ \A i \in 1 .. chunks : FedSoFar[i] = i
  BY DEF FedSoFar
<1>2. FedSoFar' \in Seq(Nat) /\ Len(FedSoFar') = chunks + 1 /\ \A i \in 1 .. chunks + 1 : FedSoFar'[i] = i
  BY DEF FedSoFar
<1> DEFINE longer == Append(FedSoFar, chunks + 1)
<1>3. longer \in Seq(Nat) /\ Len(longer) = chunks + 1
      /\ (\A i \in 1 .. chunks : longer[i] = i) /\ longer[chunks + 1] = chunks + 1
  BY <1>1, AppendProperties
<1> HIDE DEF longer
<1>4. \A i \in 1 .. chunks + 1 : FedSoFar'[i] = longer[i]
  BY <1>2, <1>3
<1>5. FedSoFar' = longer
  BY <1>2, <1>3, <1>4, SeqEqual
<1> QED
  BY <1>1, <1>2, <1>5 DEF longer

LEMMA UtteranceInitInv == UtteranceInit => UtteranceInv
<1> SUFFICES ASSUME UtteranceInit PROVE UtteranceInv
  OBVIOUS
<1>1. FedSoFar = <<>>
  BY DEF UtteranceInit, FedSoFar
<1>2. <<>> \in Seq(Nat) /\ <<>> \o <<>> = <<>>
  BY EmptySeq, ConcatEmptySeq
<1>3. settled \o request \o buffer = <<>>
  BY <1>2 DEF UtteranceInit
<1> QED
  BY <1>1, <1>2, <1>3 DEF UtteranceInit, UtteranceInv, UtteranceTypeOK, EachChunkOnce

LEMMA UtteranceNextInv == UtteranceInv /\ [UtteranceNext]_utteranceVars => UtteranceInv'
<1> SUFFICES ASSUME UtteranceInv, [UtteranceNext]_utteranceVars PROVE UtteranceInv'
  OBVIOUS
<1> USE DEF UtteranceInv
<1>t. UtteranceTypeOK
  OBVIOUS
<1>k. UNCHANGED chunks => FedSoFar' = FedSoFar
  BY DEF FedSoFar
<1>1. CASE FeedChunk
  <2>1. UtteranceTypeOK'
    BY <1>1 DEF FeedChunk, UtteranceTypeOK
  <2>2. settled \o request \in Seq(Nat)
    BY <1>t, ConcatProperties DEF UtteranceTypeOK
  <2>3. settled \o request \o buffer = FedSoFar
    BY <1>1 DEF FeedChunk, EachChunkOnce
  <2>4. chunks + 1 \in Nat /\ buffer' = Append(buffer, chunks + 1) /\ chunks' = chunks + 1
    BY <1>1, <1>t DEF FeedChunk, UtteranceTypeOK
  <2>5. (settled \o request) \o buffer' = Append(FedSoFar, chunks + 1)
    <3> DEFINE before == settled \o request
               c      == chunks + 1
    <3>1. before \in Seq(Nat) /\ buffer \in Seq(Nat) /\ c \in Nat
      BY <1>t, <2>2, <2>4 DEF UtteranceTypeOK
    <3> HIDE DEF before, c
    <3>2. before \o Append(buffer, c) = Append(before \o buffer, c)
      BY <3>1, ConcatAppend
    <3> QED
      BY <2>3, <2>4, <3>2 DEF before, c
  <2>6. FedSoFar' = Append(FedSoFar, chunks + 1)
    BY <1>t, <2>4, FedOneMore DEF UtteranceTypeOK
  <2>7. UNCHANGED <<settled, request, ending, http>> /\ ending # "stopped"
    BY <1>1 DEF FeedChunk
  <2> QED
    BY <2>1, <2>5, <2>6, <2>7 DEF EachChunkOnce
<1>2. ASSUME AskService, ending = "live", ending' \in {"live", "stopping"}
      PROVE  UtteranceInv'
  <2>1. UtteranceTypeOK'
    BY <1>2 DEF AskService, UtteranceTypeOK
  <2>2. settled \o request \o buffer = FedSoFar
    BY <1>2 DEF EachChunkOnce
  <2>3. settled \o <<>> = settled
    BY <1>t, ConcatEmptySeq DEF UtteranceTypeOK
  <2>4. settled \o buffer \in Seq(Nat)
    BY <1>t, ConcatProperties DEF UtteranceTypeOK
  <2>5. (settled \o buffer) \o <<>> = settled \o buffer
    BY <2>4, ConcatEmptySeq
  <2>6. request = <<>> /\ request' = buffer /\ buffer' = <<>> /\ UNCHANGED <<chunks, settled>>
    BY <1>2 DEF AskService
  <2> QED
    BY <1>2, <1>k, <2>1, <2>2, <2>3, <2>5, <2>6 DEF EachChunkOnce
<1>3. CASE FlushUtterance
  BY <1>2, <1>3 DEF FlushUtterance
<1>4. CASE StillWorking
  BY <1>4, <1>k DEF StillWorking, UtteranceTypeOK, EachChunkOnce
<1>5. ASSUME Settle, UNCHANGED <<buffer, chunks>>
      PROVE  /\ settled' \in Seq(Nat) /\ request' = <<>>
             /\ settled' \o request' \o buffer' = settled \o request \o buffer
  <2>1. settled' = settled \o request /\ request' = <<>>
    BY <1>5 DEF Settle
  <2>2. settled' \in Seq(Nat)
    BY <1>t, <2>1, ConcatProperties DEF UtteranceTypeOK
  <2>3. settled' \o <<>> = settled'
    BY <2>2, ConcatEmptySeq
  <2> QED
    BY <1>5, <2>1, <2>2, <2>3
<1>6. ASSUME Settle, UNCHANGED <<buffer, chunks, http>>, ending # "stopped", ending' \in {ending, "raised"},
             ending' # "stopped"
      PROVE  UtteranceInv'
  <2>1. settled' \in Seq(Nat) /\ request' = <<>> /\ settled' \o request' \o buffer' = settled \o request \o buffer
    BY <1>5, <1>6
  <2>2. UtteranceTypeOK'
    BY <1>6, <1>t, <2>1, EmptySeq DEF UtteranceTypeOK
  <2>3. ending' \in {"live", "stopping"} => ending' = ending /\ settled \o request \o buffer = FedSoFar
    BY <1>6 DEF EachChunkOnce
  <2> QED
    BY <1>6, <1>k, <2>1, <2>2, <2>3 DEF EachChunkOnce
<1>7. ASSUME CloseClient, request' = <<>>, settled' \in Seq(Nat), UNCHANGED chunks
      PROVE  UtteranceInv'
  BY <1>7, <1>t, EmptySeq DEF CloseClient, UtteranceTypeOK, EachChunkOnce
<1>8. CASE ServiceAnswers
  <2>1. ending # "stopped"
    BY <1>8 DEF ServiceAnswers, Settle, EachChunkOnce
  <2>2. CASE ending = "stopping"
    <3>1. settled' \in Seq(Nat) /\ request' = <<>>
      BY <1>8, <1>t, ConcatProperties DEF ServiceAnswers, Settle, UtteranceTypeOK
    <3> QED
      BY <1>7, <1>8, <2>2, <3>1 DEF ServiceAnswers
  <2>3. CASE ending # "stopping"
    BY <1>6, <1>8, <2>1, <2>3 DEF ServiceAnswers
  <2> QED
    BY <2>2, <2>3
<1>9. CASE ServiceFails
  <2>1. ending # "stopped"
    BY <1>9 DEF ServiceFails, Settle, EachChunkOnce
  <2> QED
    BY <1>6, <1>9, <2>1 DEF ServiceFails
<1>10. CASE FlushCancelled
  BY <1>6, <1>10 DEF FlushCancelled
<1>11. CASE StopUtterance
  <2>1. CASE buffer # <<>>
    BY <1>2, <1>11, <2>1 DEF StopUtterance
  <2>2. CASE buffer = <<>>
    BY <1>7, <1>11, <1>t, <2>2 DEF StopUtterance, UtteranceTypeOK
  <2> QED
    BY <2>1, <2>2
<1>12. CASE UNCHANGED utteranceVars
  BY <1>12, <1>k DEF utteranceVars, UtteranceTypeOK, EachChunkOnce
<1> QED
  BY <1>1, <1>3, <1>4, <1>8, <1>9, <1>10, <1>11, <1>12 DEF UtteranceNext

\* Whatever is fed while a request is awaited, polled, refused or cancelled, and for
\* every number of chunks and polls: each chunk goes into one request, in order, and
\* a stop_stream that returns leaves neither a request nor an open client; the client of
\* one whose own flush raised stays open.
THEOREM UtterancesAreWhole == UtteranceSpec => []EachChunkOnce
<1>1. UtteranceInv => EachChunkOnce
  BY DEF UtteranceInv
<1> QED
  BY <1>1, UtteranceInitInv, UtteranceNextInv, PTL DEF UtteranceSpec

----------------------------------------------------------------------------
(* Azure: what the loop has still to run.                                  *)

AzureCalls == [what : {"started", "refused", "ended", "partial", "final"}, n : Nat]

AzureTypeOK ==
  /\ azure \in {"off", "starting", "ready", "refused", "stopping", "stopped"}
  /\ azRunning \in BOOLEAN /\ shownLate \in BOOLEAN
  /\ session \in {"none", "begun", "gone", "ending", "closed"}
  /\ calls \in Seq(AzureCalls) /\ shown \in Seq(Nat)
  /\ pushed \in Nat /\ recognized \in Nat

Of(kinds) == \A i \in 1 .. Len(calls) : calls[i].what \in kinds

\* How far the session is when the caller is this far, and what the loop holds then:
\* an "ended" of a session that is gone has nothing behind it.
AzurePlace ==
  /\ azure = "off" => session = "none" /\ calls = <<>> /\ pushed = 0
  /\ azure = "starting" =>
       /\ pushed = 0 /\ Len(calls) <= 1
       /\ \/ session = "none" /\ calls = <<>>
          \/ session = "begun" /\ Len(calls) = 1 /\ calls[1].what = "started"
          \/ session = "gone" /\ Len(calls) = 1 /\ calls[1].what = "refused"
  /\ azure = "ready" => session = "begun" /\ Of({"partial", "final"})
  /\ azure = "refused" => session = "gone" /\ calls = <<>>
  /\ azure = "stopping" =>
       /\ session \in {"begun", "ending", "gone"} /\ Of({"partial", "final", "ended"})
       /\ session = "begun" => Of({"partial", "final"})
       /\ session = "gone" => \A i \in 1 .. Len(calls) : calls[i].what = "ended" <=> i = Len(calls)
  /\ azure = "stopped" =>
       /\ session \in {"gone", "ending", "closed"} /\ Of({"partial", "final", "ended"})
       /\ session = "gone" => calls = <<>>
  /\ azure # "stopped" \/ session = "gone" => ~shownLate

\* The committed segments that were not shown are in the loop, each once and in order.
SegmentsInCalls ==
  /\ Len(shown) <= recognized
  /\ \A i \in 1 .. Len(shown) : shown[i] = i
  /\ \A i \in 1 .. Len(calls) : calls[i].what = "final" => calls[i].n \in Len(shown) + 1 .. recognized
  /\ \A i, j \in 1 .. Len(calls) :
       i < j /\ calls[i].what = "final" /\ calls[j].what = "final" => calls[i].n < calls[j].n
  /\ \A n \in Len(shown) + 1 .. recognized :
       \E i \in 1 .. Len(calls) : calls[i].what = "final" /\ calls[i].n = n

AzureInv == AzureTypeOK /\ AzurePlace /\ SegmentsInCalls

LEMMA AzureInitInv == AzureInit => AzureInv
<1> SUFFICES ASSUME AzureInit PROVE AzureInv
  OBVIOUS
<1>1. Len(calls) = 0 /\ Len(shown) = 0 /\ calls \in Seq(AzureCalls) /\ shown \in Seq(Nat)
  BY EmptySeq DEF AzureInit
<1>2. AzureTypeOK /\ AzurePlace
  BY <1>1 DEF AzureInit, AzureTypeOK, AzurePlace
<1>3. Len(shown) + 1 .. recognized = {}
  BY <1>1 DEF AzureInit
<1>4. SegmentsInCalls
  BY <1>1, <1>3 DEF AzureInit, SegmentsInCalls
<1> QED
  BY <1>2, <1>4 DEF AzureInv

\* A call is added behind the others: none that is a final, or that of the next segment.
LEMMA CallIsLeft ==
  ASSUME AzureTypeOK, NEW c \in AzureCalls, calls' = Append(calls, c)
  PROVE  /\ calls' \in Seq(AzureCalls) /\ Len(calls) \in Nat /\ Len(calls') = Len(calls) + 1
         /\ \A i \in 1 .. Len(calls) : calls'[i] = calls[i]
         /\ calls'[Len(calls) + 1] = c
  BY AppendProperties, LenProperties DEF AzureTypeOK

LEMMA SegmentsKept ==
  ASSUME AzureTypeOK, SegmentsInCalls, NEW c \in AzureCalls, calls' = Append(calls, c), UNCHANGED shown,
         \/ c.what # "final" /\ UNCHANGED recognized
         \/ c.what = "final" /\ recognized' = recognized + 1 /\ c.n = recognized + 1
  PROVE  SegmentsInCalls'
<1> DEFINE k == Len(calls)
           m == Len(shown)
<1>1. /\ k \in Nat /\ Len(calls') = k + 1 /\ calls'[k + 1] = c
      /\ \A i \in 1 .. k : calls'[i] = calls[i]
  BY CallIsLeft
<1>2. m \in Nat /\ recognized \in Nat /\ m <= recognized /\ UNCHANGED m
  BY DEF AzureTypeOK, SegmentsInCalls
<1>3. \A i \in 1 .. k : calls[i].what = "final" => calls[i].n \in m + 1 .. recognized
  BY DEF SegmentsInCalls
<1>4. \A n \in m + 1 .. recognized : \E i \in 1 .. k : calls[i].what = "final" /\ calls[i].n = n
  BY DEF SegmentsInCalls
<1>5. \A i, j \in 1 .. k :
        i < j /\ calls[i].what = "final" /\ calls[j].what = "final" => calls[i].n < calls[j].n
  BY DEF SegmentsInCalls
<1>6. \A i \in 1 .. Len(shown') : shown'[i] = i
  BY DEF SegmentsInCalls
<1> HIDE DEF k, m
<1>7. \A i \in 1 .. k + 1 : calls'[i].what = "final" => calls'[i].n \in m + 1 .. recognized'
  BY <1>1, <1>2, <1>3
<1>8. ASSUME NEW i \in 1 .. k + 1, NEW j \in 1 .. k + 1, i < j,
             calls'[i].what = "final", calls'[j].what = "final"
      PROVE  calls'[i].n < calls'[j].n
  <2>1. i \in 1 .. k
    BY <1>1, <1>8
  <2>2. CASE j = k + 1
    BY <1>1, <1>2, <1>3, <1>8, <2>1, <2>2
  <2>3. CASE j # k + 1
    BY <1>1, <1>5, <1>8, <2>1, <2>3
  <2> QED
    BY <2>2, <2>3
<1>9. ASSUME NEW n \in m + 1 .. recognized'
      PROVE  \E i \in 1 .. k + 1 : calls'[i].what = "final" /\ calls'[i].n = n
  <2>1. CASE n \in m + 1 .. recognized
    BY <1>1, <1>4, <2>1
  <2>2. CASE n \notin m + 1 .. recognized
    <3>1. n = recognized + 1 /\ c.what = "final" /\ c.n = n
      BY <1>2, <1>9, <2>2
    <3> QED
      BY <1>1, <3>1
  <2> QED
    BY <2>1, <2>2
<1> QED
  BY <1>1, <1>2, <1>6, <1>7, <1>8, <1>9, SMTT(30) DEF SegmentsInCalls, k, m

\* The loop runs the oldest call: if it is a final, it is that of the next segment.
LEMMA SegmentShown ==
  ASSUME AzureTypeOK, SegmentsInCalls, calls # <<>>, calls' = Tail(calls), UNCHANGED recognized,
         shown' = IF Head(calls).what = "final" THEN Append(shown, Head(calls).n) ELSE shown
  PROVE  shown' \in Seq(Nat) /\ SegmentsInCalls'
<1> DEFINE k == Len(calls)
           m == Len(shown)
<1>1. /\ k \in Nat \ {0} /\ calls' \in Seq(AzureCalls) /\ Len(calls') = k - 1
      /\ \A i \in 1 .. k - 1 : calls'[i] = calls[i + 1]
  BY HeadTailProperties, EmptySeq DEF AzureTypeOK
<1>2. Head(calls) = calls[1] /\ calls[1] \in AzureCalls
  BY <1>1, ElementOfSeq DEF AzureTypeOK
<1>3. m \in Nat /\ recognized \in Nat /\ m <= recognized /\ shown \in Seq(Nat)
  BY DEF AzureTypeOK, SegmentsInCalls
<1>4. \A i \in 1 .. k : calls[i].what = "final" => calls[i].n \in m + 1 .. recognized
  BY DEF SegmentsInCalls
<1>5. \A n \in m + 1 .. recognized : \E i \in 1 .. k : calls[i].what = "final" /\ calls[i].n = n
  BY DEF SegmentsInCalls
<1>6. \A i, j \in 1 .. k :
        i < j /\ calls[i].what = "final" /\ calls[j].what = "final" => calls[i].n < calls[j].n
  BY DEF SegmentsInCalls
<1>7. \A i \in 1 .. m : shown[i] = i
  BY DEF SegmentsInCalls
<1>8. CASE calls[1].what # "final"
  <2>1. shown' = shown
    BY <1>2, <1>8
  <2> HIDE DEF k
  <2>2. \A n \in m + 1 .. recognized : \E i \in 1 .. k - 1 : calls'[i].what = "final" /\ calls'[i].n = n
    <3> SUFFICES ASSUME NEW n \in m + 1 .. recognized
                 PROVE  \E i \in 1 .. k - 1 : calls'[i].what = "final" /\ calls'[i].n = n
      OBVIOUS
    <3>1. PICK i \in 1 .. k : calls[i].what = "final" /\ calls[i].n = n
      BY <1>5
    <3>2. i - 1 \in 1 .. k - 1 /\ calls'[i - 1] = calls[i]
      BY <1>1, <1>8, <3>1
    <3> QED
      BY <3>1, <3>2
  <2>3. \A i, j \in 1 .. k - 1 :
          i < j /\ calls'[i].what = "final" /\ calls'[j].what = "final" => calls'[i].n < calls'[j].n
    BY <1>1, <1>6
  <2>4. \A i \in 1 .. k - 1 : calls'[i].what = "final" => calls'[i].n \in m + 1 .. recognized
    BY <1>1, <1>4
  <2> QED
    BY <1>1, <1>3, <1>7, <2>1, <2>2, <2>3, <2>4 DEF SegmentsInCalls
<1>9. CASE calls[1].what = "final"
  <2>1. calls[1].n \in m + 1 .. recognized
    BY <1>1, <1>4, <1>9
  <2>2. calls[1].n = m + 1
    <3> SUFFICES ASSUME calls[1].n # m + 1 PROVE FALSE
      OBVIOUS
    <3>1. m + 1 \in m + 1 .. recognized
      BY <1>3, <2>1
    <3>2. PICK i \in 1 .. k : calls[i].what = "final" /\ calls[i].n = m + 1
      BY <1>5, <3>1
    <3>3. 1 < i
      BY <1>1, <3>2
    <3>4. calls[1].n < calls[i].n
      BY <1>1, <1>6, <1>9, <3>2, <3>3
    <3> QED
      BY <1>3, <2>1, <3>2, <3>4
  <2>3. shown' = Append(shown, m + 1)
    BY <1>2, <1>9, <2>2
  <2>4. /\ shown' \in Seq(Nat) /\ Len(shown') = m + 1 /\ shown'[m + 1] = m + 1
        /\ \A i \in 1 .. m : shown'[i] = shown[i]
    BY <1>3, <2>3, AppendProperties
  <2> HIDE DEF k, m
  <2>5. \A i \in 1 .. m + 1 : shown'[i] = i
    BY <1>3, <1>7, <2>4
  <2>6. \A n \in m + 2 .. recognized : \E i \in 1 .. k - 1 : calls'[i].what = "final" /\ calls'[i].n = n
    <3> SUFFICES ASSUME NEW n \in m + 2 .. recognized
                 PROVE  \E i \in 1 .. k - 1 : calls'[i].what = "final" /\ calls'[i].n = n
      OBVIOUS
    <3>1. n \in m + 1 .. recognized
      BY <1>3
    <3>2. PICK i \in 1 .. k : calls[i].what = "final" /\ calls[i].n = n
      BY <1>5, <3>1
    <3>3. i # 1
      BY <1>3, <2>2, <3>2
    <3>4. i - 1 \in 1 .. k - 1 /\ calls'[i - 1] = calls[i]
      BY <1>1, <3>3
    <3> QED
      BY <3>2, <3>4
  <2>7. \A i, j \in 1 .. k - 1 :
          i < j /\ calls'[i].what = "final" /\ calls'[j].what = "final" => calls'[i].n < calls'[j].n
    BY <1>1, <1>6
  <2>8. ASSUME NEW i \in 1 .. k - 1, calls'[i].what = "final"
        PROVE  calls'[i].n \in m + 2 .. recognized
    <3>1. i + 1 \in 1 .. k /\ 1 \in 1 .. k /\ 1 < i + 1 /\ calls'[i] = calls[i + 1]
      BY <1>1
    <3>2. calls[1].n < calls[i + 1].n /\ calls[i + 1].n \in m + 1 .. recognized
      BY <1>4, <1>6, <1>9, <2>8, <3>1
    <3>3. calls[i + 1].n \in m + 2 .. recognized
      BY <1>3, <2>2, <3>2
    <3> QED
      BY <3>1, <3>3
  <2>9. m + 1 <= recognized /\ m + 1 + 1 = m + 2
    BY <1>3, <2>1
  <2> QED
    BY <1>1, <1>3, <2>4, <2>5, <2>6, <2>7, <2>8, <2>9 DEF SegmentsInCalls
<1> QED
  BY <1>8, <1>9

\* A call of these kinds is added to calls of these kinds.
LEMMA OfMore ==
  ASSUME AzureTypeOK, NEW kinds, Of(kinds), NEW c \in AzureCalls, c.what \in kinds,
         calls' = Append(calls, c)
  PROVE  Of(kinds)'
<1> DEFINE k == Len(calls)
<1>1. /\ k \in Nat /\ Len(calls') = k + 1 /\ calls'[k + 1] = c
      /\ \A i \in 1 .. k : calls'[i] = calls[i]
  BY CallIsLeft
<1>2. \A i \in 1 .. k : calls[i].what \in kinds
  BY DEF Of
<1> HIDE DEF k
<1> QED
  BY <1>1, <1>2 DEF Of

LEMMA AzureNextInv == AzureInv /\ [AzureNext]_azureVars => AzureInv'
<1> SUFFICES ASSUME AzureInv, [AzureNext]_azureVars PROVE AzureInv'
  OBVIOUS
<1>t. AzureTypeOK /\ AzurePlace /\ SegmentsInCalls
  BY DEF AzureInv
<1>s. UNCHANGED <<calls, shown, recognized>> => SegmentsInCalls'
  BY <1>t DEF SegmentsInCalls
<1>k. \A kinds : UNCHANGED calls => (Of(kinds) => Of(kinds)')
  BY DEF Of
<1>c. ASSUME NEW w \in {"started", "refused", "ended", "partial", "final"}, NEW n \in Nat
      PROVE  Call(w, n) \in AzureCalls /\ Call(w, n).what = w /\ Call(w, n).n = n
  BY DEF Call, AzureCalls
<1>1. CASE SessionBegins
  <2>1. PICK c \in {Call("started", 0), Call("refused", 0)} :
          /\ calls' = Append(calls, c)
          /\ IF c = Call("started", 0) THEN session' = "begun" ELSE session' = "gone"
    BY <1>1 DEF SessionBegins, Call
  <2>2. c \in AzureCalls /\ c.what # "final" /\ c.what \in {"started", "refused"}
        /\ (c.what = "started" <=> c = Call("started", 0))
    BY <1>c DEF Call
  <2>3. UNCHANGED <<azure, azRunning, pushed, recognized, shown, shownLate>> /\ azure = "starting"
        /\ session = "none"
    BY <1>1 DEF SessionBegins
  <2>4. AzureTypeOK'
    BY <1>t, <2>1, <2>2, <2>3, CallIsLeft DEF AzureTypeOK
  <2>5. Len(calls) = 0 /\ Len(calls') = 1 /\ calls'[1] = c
    BY <1>t, <2>1, <2>2, <2>3, CallIsLeft DEF AzurePlace
  <2>6. AzurePlace'
    BY <1>t, <2>1, <2>2, <2>3, <2>5 DEF AzurePlace
  <2>7. SegmentsInCalls'
    BY <1>t, <2>1, <2>2, <2>3, SegmentsKept
  <2> QED
    BY <2>4, <2>6, <2>7 DEF AzureInv
<1>2. CASE Recognizes
  <2>1. PICK c \in {Call("partial", recognized + 1), Call("final", recognized + 1)} :
          /\ calls' = Append(calls, c)
          /\ recognized' = IF c.what = "final" THEN recognized + 1 ELSE recognized
    BY <1>2 DEF Recognizes, Call
  <2>2. c \in AzureCalls /\ c.what \in {"partial", "final"} /\ c.n = recognized + 1
    BY <1>t, <1>c DEF AzureTypeOK
  <2>3. UNCHANGED <<azure, azRunning, session, pushed, shown, shownLate>> /\ session \in {"begun", "ending"}
        /\ recognized < pushed
    BY <1>2 DEF Recognizes
  <2>4. AzureTypeOK'
    BY <1>t, <2>1, <2>2, <2>3, CallIsLeft DEF AzureTypeOK
  <2>5. azure \in {"ready", "stopping", "stopped"} /\ session # "gone"
    BY <1>t, <2>3 DEF AzureTypeOK, AzurePlace
  <2>6. /\ Of({"partial", "final"}) => Of({"partial", "final"})'
        /\ Of({"partial", "final", "ended"}) => Of({"partial", "final", "ended"})'
    BY <1>t, <2>1, <2>2, OfMore
  <2>7. AzurePlace'
    BY <1>t, <2>3, <2>5, <2>6 DEF AzurePlace
  <2>8. SegmentsInCalls'
    BY <1>t, <2>1, <2>2, <2>3, SegmentsKept
  <2> QED
    BY <2>4, <2>7, <2>8 DEF AzureInv
<1>3. CASE SessionEnds \/ EndFails
  <2>1. /\ calls' = Append(calls, Call("ended", 0)) /\ azure = "stopping" /\ EndAwaited
        /\ UNCHANGED <<azure, azRunning, pushed, recognized, shown, shownLate>>
        /\ session' \in {"gone", "ending"} /\ session # "ending"
    BY <1>3 DEF SessionEnds, EndFails
  <2>2. Call("ended", 0) \in AzureCalls /\ Call("ended", 0).what = "ended"
    BY <1>c
  <2>3. AzureTypeOK'
    BY <1>t, <2>1, <2>2, CallIsLeft DEF AzureTypeOK
  <2>4. Of({"partial", "final", "ended"})'
    BY <1>t, <2>1, <2>2, OfMore DEF AzurePlace
  <2>5. \A i \in 1 .. Len(calls) : calls[i].what # "ended"
    BY <1>t, <2>1, LenProperties DEF EndAwaited, AzureTypeOK
  <2>6. \A i \in 1 .. Len(calls') : calls'[i].what = "ended" <=> i = Len(calls')
    <3> DEFINE k == Len(calls)
    <3>1. /\ k \in Nat /\ Len(calls') = k + 1 /\ calls'[k + 1].what = "ended"
          /\ \A i \in 1 .. k : calls'[i] = calls[i]
      BY <1>t, <2>1, <2>2, CallIsLeft
    <3> HIDE DEF k
    <3> QED
      BY <2>5, <3>1 DEF k
  <2>7. AzurePlace'
    BY <1>t, <2>1, <2>4, <2>6 DEF AzurePlace
  <2>8. SegmentsInCalls'
    BY <1>t, <2>1, <2>2, SegmentsKept
  <2> QED
    BY <2>3, <2>7, <2>8 DEF AzureInv
<1>4. CASE StreamClosed \/ AzureStarts \/ AzureFed \/ AzureStops \/ UNCHANGED azureVars
  <2>1. UNCHANGED <<calls, recognized, shown, shownLate>>
    BY <1>4 DEF StreamClosed, AzureStarts, AzureFed, AzureStops, azureVars
  <2>2. AzureTypeOK'
    <3>1. CASE StreamClosed
      BY <1>t, <3>1 DEF StreamClosed, AzureTypeOK
    <3>2. CASE AzureStarts
      BY <1>t, <3>2 DEF AzureStarts, AzureTypeOK
    <3>3. CASE AzureFed
      BY <1>t, <3>3 DEF AzureFed, AzureTypeOK
    <3>4. CASE AzureStops
      BY <1>t, <3>4 DEF AzureStops, AzureTypeOK
    <3>5. CASE UNCHANGED azureVars
      BY <1>t, <3>5 DEF azureVars, AzureTypeOK
    <3> QED
      BY <1>4, <3>1, <3>2, <3>3, <3>4, <3>5
  <2>3. SegmentsInCalls'
    BY <1>s, <2>1
  <2>4. AzurePlace'
    <3>1. CASE StreamClosed
      BY <1>t, <1>k, <2>1, <3>1 DEF StreamClosed, AzurePlace
    <3>2. CASE AzureStarts
      <4>1. Len(calls) = 0
        BY <1>t, <3>2 DEF AzureStarts, AzurePlace
      <4> QED
        BY <1>t, <2>1, <3>2, <4>1 DEF AzureStarts, AzurePlace
    <3>3. CASE AzureFed
      BY <1>t, <1>k, <2>1, <3>3 DEF AzureFed, AzurePlace
    <3>4. CASE AzureStops
      BY <1>t, <2>1, <3>4 DEF AzureStops, AzurePlace, Of
    <3>5. CASE UNCHANGED azureVars
      BY <1>t, <1>k, <3>5 DEF azureVars, AzurePlace
    <3> QED
      BY <1>4, <3>1, <3>2, <3>3, <3>4, <3>5
  <2> QED
    BY <2>2, <2>3, <2>4 DEF AzureInv
<1>5. CASE LoopRuns
  <2> DEFINE k == Len(calls)
             w == calls[1].what
  <2>1. /\ k \in Nat \ {0} /\ calls' \in Seq(AzureCalls) /\ Len(calls') = k - 1
        /\ \A i \in 1 .. k - 1 : calls'[i] = calls[i + 1]
    BY <1>t, <1>5, HeadTailProperties, EmptySeq DEF LoopRuns, AzureTypeOK
  <2>2. Head(calls) = calls[1] /\ calls[1] \in AzureCalls
    BY <1>t, <2>1, ElementOfSeq DEF AzureTypeOK
  <2>3. /\ w = "started" => azure' = "ready"
        /\ w = "refused" => azure' = "refused"
        /\ w = "ended" => azure' = "stopped"
        /\ w \in {"partial", "final"} => azure' = azure
        /\ shownLate' = (shownLate \/ (azure = "stopped" /\ w \in {"partial", "final"}))
        /\ UNCHANGED <<azRunning, session, pushed, recognized>>
    BY <1>5, <2>2 DEF LoopRuns
  <2>4. shown' \in Seq(Nat) /\ SegmentsInCalls'
    BY <1>t, <1>5, SegmentShown DEF LoopRuns
  <2>5. azure' \in {"off", "starting", "ready", "refused", "stopping", "stopped"} /\ shownLate' \in BOOLEAN
    BY <1>t, <2>2, <2>3 DEF AzureTypeOK, AzureCalls
  <2>6. AzureTypeOK'
    BY <1>t, <2>1, <2>3, <2>4, <2>5 DEF AzureTypeOK
  <2>7. \A kinds : Of(kinds) => w \in kinds /\ Of(kinds)'
    BY <2>1 DEF Of
  <2>8. AzurePlace'
    <3>1. CASE azure = "starting"
      <4>1. w \in {"started", "refused"} /\ Len(calls') = 0 /\ calls' = <<>>
        BY <1>t, <2>1, <3>1, EmptySeq DEF AzurePlace
      <4>2. \A kinds : Of(kinds)'
        BY <4>1 DEF Of
      <4>3. ~shownLate' /\ pushed' = 0
        BY <1>t, <2>3, <3>1 DEF AzurePlace
      <4>4. CASE w = "started"
        <5>1. azure' = "ready" /\ session' = "begun"
          BY <1>t, <1>5, <2>3, <3>1, <4>4 DEF AzurePlace, LoopRuns
        <5> QED
          BY <4>2, <4>3, <5>1 DEF AzurePlace
      <4>5. CASE w = "refused"
        <5>1. azure' = "refused" /\ session' = "gone"
          BY <1>t, <1>5, <2>3, <3>1, <4>5 DEF AzurePlace, LoopRuns
        <5> QED
          BY <4>1, <4>3, <5>1 DEF AzurePlace
      <4> QED
        BY <4>1, <4>4, <4>5
    <3>2. CASE azure = "ready"
      BY <1>t, <2>3, <2>7, <3>2 DEF AzurePlace
    <3>3. CASE azure = "stopping"
      <4>1. w \in {"partial", "final", "ended"} /\ Of({"partial", "final", "ended"})'
        BY <1>t, <2>7, <3>3 DEF AzurePlace
      <4>2. CASE session = "gone"
        <5>1. \A i \in 1 .. k : calls[i].what = "ended" <=> i = k
          BY <1>t, <3>3, <4>2 DEF AzurePlace
        <5> HIDE DEF k
        <5>2. w = "ended" => calls' = <<>>
          BY <2>1, <5>1, EmptySeq DEF k
        <5>3. \A i \in 1 .. Len(calls') : calls'[i].what = "ended" <=> i = Len(calls')
          BY <2>1, <5>1
        <5> QED
          BY <1>t, <2>3, <3>3, <4>1, <4>2, <5>2, <5>3 DEF AzurePlace
      <4>3. CASE session # "gone"
        <5>1. session' \in {"begun", "ending"} /\ ~shownLate'
          BY <1>t, <2>3, <3>3, <4>3 DEF AzurePlace
        <5>2. session' = "begun" => azure' = "stopping" /\ Of({"partial", "final"})'
          BY <1>t, <2>3, <2>7, <3>3 DEF AzurePlace
        <5>3. azure' \in {"stopping", "stopped"}
          BY <2>3, <3>3, <4>1
        <5> QED
          BY <4>1, <5>1, <5>2, <5>3 DEF AzurePlace
      <4> QED
        BY <4>2, <4>3
    <3>4. CASE azure = "stopped"
      BY <1>t, <1>5, <2>3, <2>7, <3>4 DEF AzurePlace, LoopRuns
    <3> QED
      BY <1>t, <1>5, <3>1, <3>2, <3>3, <3>4 DEF AzurePlace, AzureTypeOK, LoopRuns
  <2> QED
    BY <2>4, <2>6, <2>8 DEF AzureInv
<1> QED
  BY <1>1, <1>2, <1>3, <1>4, <1>5 DEF AzureNext

\* However many segments are recognised and however the session ends: on_final gets
\* them once each and in order, and a session ended without an error leaves nothing to
\* be shown after stop_stream.
THEOREM NoTranscriptIsLate == AzureSpec => []NothingShownLate
<1>1. AzureInv => NothingShownLate
  <2> SUFFICES ASSUME AzureInv PROVE NothingShownLate
    OBVIOUS
  <2>1. AzureTypeOK /\ AzurePlace /\ SegmentsInCalls
    BY DEF AzureInv
  <2> DEFINE m == Len(shown)
             ids == [i \in 1 .. m |-> i]
  <2>2. shown \in Seq(Nat) /\ m \in Nat /\ \A i \in 1 .. m : shown[i] = i
    BY <2>1 DEF AzureTypeOK, SegmentsInCalls
  <2>3. ids \in Seq(Nat) /\ Len(ids) = m /\ \A i \in 1 .. m : ids[i] = i
    BY <2>2
  <2>4. shown = ids
    <3> HIDE DEF ids
    <3> QED
      BY <2>2, <2>3, SeqEqual
  <2>5. ASSUME azure = "stopped", session \notin {"ending", "closed"}
        PROVE  calls = <<>> /\ m = recognized /\ ~shownLate
    <3>1. calls = <<>> /\ ~shownLate /\ Len(calls) = 0
      BY <2>1, <2>5 DEF AzurePlace
    <3>2. m <= recognized /\ m + 1 .. recognized = {}
      BY <2>1, <3>1 DEF SegmentsInCalls
    <3>3. m < recognized => m + 1 \in m + 1 .. recognized
      BY <2>1, <2>2 DEF AzureTypeOK
    <3>4. m = recognized
      BY <2>1, <2>2, <3>2, <3>3 DEF AzureTypeOK
    <3> QED
      BY <3>1, <3>4
  <2> QED
    BY <2>4, <2>5 DEF NothingShownLate
<1> QED
  BY <1>1, AzureInitInv, AzureNextInv, PTL DEF AzureSpec

----------------------------------------------------------------------------
(* The streaming backends.  What a client will have heard when it has      *)
(* received all that is in its socket is what the server has said; the     *)
(* invariant names the hypothesis and the finals after each message.       *)

MessageTypes == {"delta", "completed", "Results", "Turn", "partial_transcript", "committed_transcript",
                 "transcript.partial", "transcript.done", "serverContent", "note"}
Messages == [type : MessageTypes, text : Seq(Nat), flag : BOOLEAN]

\* The kinds of message, whatever the provider p calls them.
IsDelta(p, m) ==
  \/ p = "openai" /\ m.type = "delta"
  \/ p = "google" /\ m.type = "serverContent" /\ m.text # <<>>

IsWhole(p, m) ==
  /\ m.text # <<>>
  /\ \/ p = "deepgram" /\ m.type = "Results" /\ ~m.flag
     \/ p = "assemblyai" /\ m.type = "Turn" /\ ~m.flag
     \/ p = "elevenlabs" /\ m.type = "partial_transcript"
     \/ p = "xai" /\ m.type = "transcript.partial" /\ ~m.flag

IsFinal(p, m) ==
  \/ p = "google" /\ m.type = "serverContent" /\ m.text = <<>> /\ m.flag
  \/ /\ m.text # <<>>
     /\ \/ p = "openai" /\ m.type = "completed"
        \/ p = "deepgram" /\ m.type = "Results" /\ m.flag
        \/ p = "assemblyai" /\ m.type = "Turn" /\ m.flag
        \/ p = "elevenlabs" /\ m.type = "committed_transcript"
        \/ p = "xai" /\ m.type = "transcript.partial" /\ m.flag
        \/ p = "xai" /\ m.type = "transcript.done"

IsNote(m) == m.type = "note"

Known(p, m) == IsDelta(p, m) \/ IsWhole(p, m) \/ IsFinal(p, m) \/ IsNote(m)

\* The hypothesis a and the finals f after a message; FinalText is what it makes final.
HypAfter(p, m, a) ==
  IF IsFinal(p, m) THEN <<>> ELSE IF IsDelta(p, m) THEN a \o m.text ELSE IF IsWhole(p, m) THEN m.text ELSE a

FinalText(p, m, a) == IF p = "google" THEN a ELSE m.text

FinAfter(p, m, a, f) ==
  IF IsFinal(p, m) /\ FinalText(p, m, a) # <<>> THEN Append(f, FinalText(p, m, a)) ELSE f

StreamTypeOK ==
  /\ provider \in Providers /\ running \in BOOLEAN /\ carried \in BOOLEAN
  /\ ws \in {"none", "open", "broken"} /\ recv \in {"none", "recv", "reopen", "gave_up"}
  /\ attempts \in Nat /\ words \in Nat /\ breaks \in Nat
  /\ accum \in Seq(Nat) /\ hearing \in Seq(Nat)
  /\ finals \in Seq(Seq(Nat)) /\ said \in Seq(Seq(Nat))
  /\ inbox \in Seq(Messages) /\ mixed \in SUBSET Nat

StreamPlace ==
  /\ ~running => /\ ws = "none" /\ recv = "none" /\ ~carried
                 /\ inbox = <<>> /\ hearing = <<>>
  /\ ws # "open" => hearing = <<>>
  /\ recv = "reopen" => ws = "none"
  /\ recv = "gave_up" => attempts >= MaxReconnects
  /\ \A i \in 1 .. Len(inbox) : Known(provider, inbox[i])

\* The hypothesis a and the finals f are the server's, but for what a broken
\* socket left over.
UpToDate(a, f) ==
  /\ (carried => hearing # <<>> /\ ~SendsDeltas) => a = hearing
  /\ hearing # <<>> => a # <<>>
  /\ Len(f) = Len(said)
  /\ \A i \in 1 .. Len(said) : i \in mixed \/ f[i] = said[i]

\* acc[i] and fin[i] are the hypothesis and the finals after i messages of the inbox.
Dispatched(acc, fin) ==
  LET n == Len(inbox) IN
  /\ acc \in [0 .. n -> Seq(Nat)] /\ fin \in [0 .. n -> Seq(Seq(Nat))]
  /\ acc[0] = accum /\ fin[0] = finals
  /\ \A i \in 1 .. n : /\ acc[i] = HypAfter(provider, inbox[i], acc[i - 1])
                       /\ fin[i] = FinAfter(provider, inbox[i], acc[i - 1], fin[i - 1])
  /\ \A i \in 0 .. n : IsPrefix(fin[i], fin[n])
  /\ UpToDate(acc[n], fin[n])

StreamInv == StreamTypeOK /\ StreamPlace /\ \E acc, fin : Dispatched(acc, fin)

\* IsPrefix, element by element.
LEMMA PrefixByElements ==
  ASSUME NEW S, NEW s \in Seq(S), NEW t \in Seq(S)
  PROVE  IsPrefix(s, t) <=> Len(s) <= Len(t) /\ \A i \in 1 .. Len(s) : s[i] = t[i]
<1> DEFINE n == Len(s)
           u == SubSeq(t, 1, n)
<1>1. SubSeq(s, 1, n) = s /\ n \in Nat /\ Len(t) \in Nat
  BY SubSeqFull, LenProperties
<1>2. ASSUME n <= Len(t)
      PROVE  u \in Seq(S) /\ Len(u) = n /\ \A i \in 1 .. n : u[i] = t[i]
  <2>1. \A i \in 1 .. n : t[i] \in S
    BY <1>1, <1>2, ElementOfSeq
  <2> QED
    BY <1>1, <2>1, SubSeqProperties
<1> HIDE DEF u
<1>3. n <= Len(t) => (s = u <=> \A i \in 1 .. n : s[i] = t[i])
  BY <1>1, <1>2, SeqEqual
<1> QED
  BY <1>1, <1>3 DEF IsPrefix, u

LEMMA PrefixOfSelf ==
  ASSUME NEW S, NEW s \in Seq(S)
  PROVE  IsPrefix(s, s)
<1>1. Len(s) \in Nat
  BY LenProperties
<1> QED
  BY <1>1, PrefixByElements

LEMMA PrefixOfMore ==
  ASSUME NEW S, NEW s \in Seq(S), NEW t \in Seq(S), NEW e \in S, IsPrefix(s, t)
  PROVE  IsPrefix(s, Append(t, e))
<1> DEFINE u == Append(t, e)
<1>1. u \in Seq(S) /\ Len(u) = Len(t) + 1 /\ \A i \in 1 .. Len(t) : u[i] = t[i]
  BY AppendProperties
<1>2. Len(s) \in Nat /\ Len(t) \in Nat /\ Len(s) <= Len(t) /\ \A i \in 1 .. Len(s) : s[i] = t[i]
  BY PrefixByElements, LenProperties
<1> HIDE DEF u
<1>3. Len(s) <= Len(u) /\ \A i \in 1 .. Len(s) : s[i] = u[i]
  BY <1>1, <1>2
<1> QED
  BY <1>1, <1>3, PrefixByElements DEF u

LEMMA AfterType ==
  ASSUME NEW p, NEW m \in Messages, NEW a \in Seq(Nat), NEW f \in Seq(Seq(Nat))
  PROVE  /\ HypAfter(p, m, a) \in Seq(Nat) /\ FinalText(p, m, a) \in Seq(Nat)
         /\ FinAfter(p, m, a, f) \in Seq(Seq(Nat))
         /\ \A s \in Seq(Seq(Nat)) : IsPrefix(s, f) => IsPrefix(s, FinAfter(p, m, a, f))
<1>1. m.text \in Seq(Nat)
  BY DEF Messages
<1>2. a \o m.text \in Seq(Nat) /\ <<>> \in Seq(Nat)
  BY <1>1, ConcatProperties, EmptySeq
<1>3. HypAfter(p, m, a) \in Seq(Nat)
  BY <1>1, <1>2 DEF HypAfter
<1>4. FinalText(p, m, a) \in Seq(Nat)
  BY <1>1 DEF FinalText
<1> DEFINE x == FinalText(p, m, a)
<1> HIDE DEF x
<1>5. x \in Seq(Nat)
  BY <1>4 DEF x
<1>6. Append(f, x) \in Seq(Seq(Nat))
  BY <1>5, AppendProperties
<1>7. \A s \in Seq(Seq(Nat)) : IsPrefix(s, f) => IsPrefix(s, Append(f, x))
  BY <1>5, PrefixOfMore
<1>8. FinAfter(p, m, a, f) \in {f, Append(f, x)}
  BY DEF FinAfter, x
<1> QED
  BY <1>3, <1>4, <1>6, <1>7, <1>8

\* The parsers and _dispatch do with a message of each kind what the kind says.
LEMMA ReceivedIsDispatched ==
  ASSUME provider \in Providers, accum \in Seq(Nat),
         NEW m \in Messages, Known(provider, m), Dispatch(ParseEvent(m))
  PROVE  accum' = HypAfter(provider, m, accum) /\ finals' = FinAfter(provider, m, accum, finals)
<1> DEFINE e == ParseEvent(m)
<1> USE DEF Known, IsDelta, IsWhole, IsFinal, IsNote
<1>1. e = IF IsFinal(provider, m) THEN Event("final", FinalText(provider, m, accum), FALSE)
          ELSE IF IsDelta(provider, m) THEN Event("partial", m.text, TRUE)
          ELSE IF IsWhole(provider, m) THEN Event("partial", m.text, FALSE)
          ELSE Ignored
  <2>1. CASE provider = "openai"
    BY <2>1 DEF ParseEvent, ParseOpenai, FinalText
  <2>2. CASE provider = "deepgram"
    BY <2>2 DEF ParseEvent, ParseDeepgram, FinalText
  <2>3. CASE provider = "assemblyai"
    BY <2>3 DEF ParseEvent, ParseAssemblyai, FinalText
  <2>4. CASE provider = "elevenlabs"
    BY <2>4 DEF ParseEvent, ParseElevenlabs, FinalText
  <2>5. CASE provider = "xai"
    BY <2>5 DEF ParseEvent, ParseXai, FinalText
  <2>6. CASE provider = "google"
    BY <2>6 DEF ParseEvent, ParseGoogle, FinalText
  <2> QED
    BY <2>1, <2>2, <2>3, <2>4, <2>5, <2>6 DEF Providers
<1> HIDE DEF e, Known, IsDelta, IsWhole, IsFinal, IsNote
<1>2. /\ accum' = CASE e.kind = "partial" -> HypothesisAfter(e) [] e.kind = "final" -> <<>> [] OTHER -> accum
      /\ finals' = IF e.kind = "final" /\ e.text # <<>> THEN Append(finals, e.text) ELSE finals
  BY DEF Dispatch, e
<1>3. CASE IsFinal(provider, m)
  BY <1>1, <1>2, <1>3 DEF Event, HypAfter, FinAfter
<1>4. CASE ~IsFinal(provider, m) /\ IsDelta(provider, m)
  BY <1>1, <1>2, <1>4 DEF Event, HypothesisAfter, HypAfter, FinAfter
<1>5. CASE ~IsFinal(provider, m) /\ ~IsDelta(provider, m) /\ IsWhole(provider, m)
  BY <1>1, <1>2, <1>5 DEF Event, HypothesisAfter, HypAfter, FinAfter
<1>6. CASE ~IsFinal(provider, m) /\ ~IsDelta(provider, m) /\ ~IsWhole(provider, m)
  BY <1>1, <1>2, <1>6 DEF Event, Ignored, HypAfter, FinAfter
<1> QED
  BY <1>3, <1>4, <1>5, <1>6

\* What follows a message that is added to the inbox.
LEMMA OneMoreMessage ==
  ASSUME StreamTypeOK, NEW m \in Messages, NEW acc, NEW fin, Dispatched(acc, fin),
         inbox' = Append(inbox, m), UNCHANGED <<provider, accum, finals>>,
         NEW a1, a1 = HypAfter(provider, m, acc[Len(inbox)]),
         NEW f1, f1 = FinAfter(provider, m, acc[Len(inbox)], fin[Len(inbox)]),
         UpToDate(a1, f1)'
  PROVE  \E acc2, fin2 : Dispatched(acc2, fin2)'
<1> DEFINE n  == Len(inbox)
<1>0. PICK acc2, fin2 : /\ acc2 = [i \in 0 .. n + 1 |-> IF i <= n THEN acc[i] ELSE a1]
                        /\ fin2 = [i \in 0 .. n + 1 |-> IF i <= n THEN fin[i] ELSE f1]
  OBVIOUS
<1>1. /\ n \in Nat /\ Len(inbox') = n + 1 /\ inbox'[n + 1] = m
      /\ \A i \in 1 .. n : inbox'[i] = inbox[i]
  BY AppendProperties, LenProperties DEF StreamTypeOK
<1>2. /\ acc \in [0 .. n -> Seq(Nat)] /\ fin \in [0 .. n -> Seq(Seq(Nat))]
      /\ acc[0] = accum /\ fin[0] = finals
      /\ \A i \in 1 .. n : /\ acc[i] = HypAfter(provider, inbox[i], acc[i - 1])
                           /\ fin[i] = FinAfter(provider, inbox[i], acc[i - 1], fin[i - 1])
      /\ \A i \in 0 .. n : IsPrefix(fin[i], fin[n])
  BY DEF Dispatched
<1>3. acc[n] \in Seq(Nat) /\ fin[n] \in Seq(Seq(Nat))
  BY <1>1, <1>2
<1>4. a1 \in Seq(Nat) /\ f1 \in Seq(Seq(Nat)) /\ \A s \in Seq(Seq(Nat)) : IsPrefix(s, fin[n]) => IsPrefix(s, f1)
  BY <1>3, AfterType
<1>a. a1 = HypAfter(provider, m, acc[n]) /\ f1 = FinAfter(provider, m, acc[n], fin[n])
  OBVIOUS
<1> HIDE DEF n
<1>7. acc2 \in [0 .. n + 1 -> Seq(Nat)] /\ fin2 \in [0 .. n + 1 -> Seq(Seq(Nat))]
  BY <1>0, <1>2, <1>4
<1>8. /\ \A i \in 0 .. n : acc2[i] = acc[i] /\ fin2[i] = fin[i]
      /\ acc2[n + 1] = a1 /\ fin2[n + 1] = f1
  BY <1>0, <1>1
<1>9. acc2[0] = accum' /\ fin2[0] = finals'
  BY <1>1, <1>2, <1>8
<1>10. ASSUME NEW i \in 1 .. n + 1
       PROVE  /\ acc2[i] = HypAfter(provider, inbox'[i], acc2[i - 1])
              /\ fin2[i] = FinAfter(provider, inbox'[i], acc2[i - 1], fin2[i - 1])
  <2>1. CASE i = n + 1
    <3>1. i - 1 = n /\ n \in 0 .. n
      BY <1>1, <2>1
    <3>2. acc2[i - 1] = acc[n] /\ fin2[i - 1] = fin[n]
      BY <1>8, <3>1
    <3> QED
      BY <1>1, <1>8, <1>a, <2>1, <3>2
  <2>2. CASE i # n + 1
    <3>1. i \in 1 .. n /\ i \in 0 .. n /\ i - 1 \in 0 .. n
      BY <1>1, <2>2
    <3> QED
      BY <1>1, <1>2, <1>8, <3>1
  <2> QED
    BY <2>1, <2>2
<1>11. ASSUME NEW i \in 0 .. n + 1
       PROVE  IsPrefix(fin2[i], fin2[n + 1])
  <2>1. CASE i = n + 1
    BY <1>4, <1>8, <2>1, PrefixOfSelf
  <2>2. CASE i # n + 1
    <3>1. i \in 0 .. n
      BY <1>1, <2>2
    <3>2. fin[i] \in Seq(Seq(Nat)) /\ IsPrefix(fin[i], fin[n])
      BY <1>2, <3>1
    <3> QED
      BY <1>4, <1>8, <3>1, <3>2
  <2> QED
    BY <2>1, <2>2
<1>12. provider' = provider /\ Len(inbox') = n + 1
  BY <1>1
<1>13. Dispatched(acc2, fin2)'
  <2>1. /\ acc2 \in [0 .. Len(inbox') -> Seq(Nat)] /\ fin2 \in [0 .. Len(inbox') -> Seq(Seq(Nat))]
        /\ acc2[0] = accum' /\ fin2[0] = finals'
    BY <1>7, <1>9, <1>12
  <2>2. \A i \in 1 .. Len(inbox') : /\ acc2[i] = HypAfter(provider', inbox'[i], acc2[i - 1])
                                   /\ fin2[i] = FinAfter(provider', inbox'[i], acc2[i - 1], fin2[i - 1])
    BY <1>10, <1>12
  <2>3. \A i \in 0 .. Len(inbox') : IsPrefix(fin2[i], fin2[Len(inbox')])
    BY <1>11, <1>12
  <2>4. acc2[Len(inbox')] = a1 /\ fin2[Len(inbox')] = f1
    BY <1>8, <1>12
  <2> QED
    BY <2>1, <2>2, <2>3, <2>4 DEF Dispatched
<1> QED
  BY <1>13

\* What follows the oldest message, once it is dispatched.
LEMMA OneMessageLess ==
  ASSUME StreamTypeOK, NEW acc, NEW fin, Dispatched(acc, fin),
         inbox # <<>>, inbox' = Tail(inbox), UNCHANGED <<provider, carried, mixed, hearing, said>>,
         accum' = HypAfter(provider, Head(inbox), accum),
         finals' = FinAfter(provider, Head(inbox), accum, finals)
  PROVE  \E acc2, fin2 : Dispatched(acc2, fin2)'
<1> DEFINE n  == Len(inbox)
<1>0. PICK acc2, fin2 : /\ acc2 = [i \in 0 .. n - 1 |-> acc[i + 1]]
                        /\ fin2 = [i \in 0 .. n - 1 |-> fin[i + 1]]
  OBVIOUS
<1>1. /\ n \in Nat \ {0} /\ Len(inbox') = n - 1 /\ Head(inbox) = inbox[1]
      /\ \A i \in 1 .. n - 1 : inbox'[i] = inbox[i + 1]
  BY HeadTailProperties, EmptySeq DEF StreamTypeOK
<1>2. /\ acc \in [0 .. n -> Seq(Nat)] /\ fin \in [0 .. n -> Seq(Seq(Nat))]
      /\ acc[0] = accum /\ fin[0] = finals
      /\ \A i \in 1 .. n : /\ acc[i] = HypAfter(provider, inbox[i], acc[i - 1])
                           /\ fin[i] = FinAfter(provider, inbox[i], acc[i - 1], fin[i - 1])
      /\ \A i \in 0 .. n : IsPrefix(fin[i], fin[n])
      /\ UpToDate(acc[n], fin[n])
  BY DEF Dispatched
<1> HIDE DEF n
<1>3. acc2 \in [0 .. n - 1 -> Seq(Nat)] /\ fin2 \in [0 .. n - 1 -> Seq(Seq(Nat))]
  BY <1>0, <1>1, <1>2
<1>4. \A i \in 0 .. n - 1 : acc2[i] = acc[i + 1] /\ fin2[i] = fin[i + 1]
  BY <1>0
<1>5. acc2[0] = acc[1] /\ fin2[0] = fin[1] /\ acc2[n - 1] = acc[n] /\ fin2[n - 1] = fin[n]
  BY <1>1, <1>4
<1>6. acc2[0] = accum' /\ fin2[0] = finals'
  BY <1>1, <1>2, <1>5
<1>7. ASSUME NEW i \in 1 .. n - 1
      PROVE  /\ acc2[i] = HypAfter(provider, inbox'[i], acc2[i - 1])
             /\ fin2[i] = FinAfter(provider, inbox'[i], acc2[i - 1], fin2[i - 1])
  <2>1. i + 1 \in 1 .. n /\ i \in 0 .. n - 1 /\ i - 1 \in 0 .. n - 1 /\ (i + 1) - 1 = i /\ (i - 1) + 1 = i
    BY <1>1
  <2>2. acc2[i] = acc[i + 1] /\ fin2[i] = fin[i + 1] /\ acc2[i - 1] = acc[i] /\ fin2[i - 1] = fin[i]
    BY <1>4, <2>1
  <2> QED
    BY <1>1, <1>2, <2>1, <2>2, ZenonT(30)
<1>8. ASSUME NEW i \in 0 .. n - 1
      PROVE  IsPrefix(fin2[i], fin2[n - 1])
  <2>1. i + 1 \in 0 .. n
    BY <1>1
  <2> QED
    BY <1>2, <1>4, <1>5, <2>1
<1>9. Dispatched(acc2, fin2)'
  <2>0. Len(inbox') = n - 1 /\ UNCHANGED <<provider, carried, mixed, hearing, said>>
    BY <1>1
  <2>1. /\ acc2 \in [0 .. Len(inbox') -> Seq(Nat)] /\ fin2 \in [0 .. Len(inbox') -> Seq(Seq(Nat))]
        /\ acc2[0] = accum' /\ fin2[0] = finals'
    BY <1>3, <1>6, <2>0
  <2>2. \A i \in 1 .. Len(inbox') : /\ acc2[i] = HypAfter(provider', inbox'[i], acc2[i - 1])
                                   /\ fin2[i] = FinAfter(provider', inbox'[i], acc2[i - 1], fin2[i - 1])
    BY <1>7, <2>0
  <2>3. \A i \in 0 .. Len(inbox') : IsPrefix(fin2[i], fin2[Len(inbox')])
    BY <1>8, <2>0
  <2>4. \A a, f : UpToDate(a, f)' <=> UpToDate(a, f)
    BY <2>0 DEF UpToDate, SendsDeltas
  <2>5. PICK a1, f1 : a1 = acc[n] /\ f1 = fin[n]
    OBVIOUS
  <2>6. UpToDate(a1, f1)'
    BY <1>2, <2>4, <2>5
  <2>7. acc2[Len(inbox')] = a1 /\ fin2[Len(inbox')] = f1
    BY <1>5, <2>0, <2>5
  <2> QED
    BY <2>1, <2>2, <2>3, <2>6, <2>7 DEF Dispatched
<1> QED
  BY <1>9

\* An empty inbox: the hypothesis and the finals are what they are.
LEMMA NothingToDispatch ==
  ASSUME inbox = <<>>, accum \in Seq(Nat), finals \in Seq(Seq(Nat)),
         UpToDate(accum, finals)
  PROVE  \E acc, fin : Dispatched(acc, fin)
<1>0. PICK acc, fin : acc = [i \in 0 .. 0 |-> accum] /\ fin = [i \in 0 .. 0 |-> finals]
  OBVIOUS
<1>1. Len(inbox) = 0 /\ acc[0] = accum /\ fin[0] = finals
  BY <1>0
<1>2. acc \in [0 .. 0 -> Seq(Nat)] /\ fin \in [0 .. 0 -> Seq(Seq(Nat))]
  BY <1>0
<1>3. \A i \in 0 .. 0 : IsPrefix(fin[i], fin[0])
  BY <1>1, PrefixOfSelf
<1>4. Dispatched(acc, fin)
  BY <1>1, <1>2, <1>3 DEF Dispatched
<1> QED
  BY <1>4

\* The same of the state a step leads to.
LEMMA NothingLeftToDispatch ==
  ASSUME inbox' = <<>>, accum' \in Seq(Nat), finals' \in Seq(Seq(Nat)),
         UpToDate(accum, finals)'
  PROVE  \E acc, fin : Dispatched(acc, fin)'
<1>0. PICK acc, fin : acc = [i \in 0 .. 0 |-> accum'] /\ fin = [i \in 0 .. 0 |-> finals']
  OBVIOUS
<1>1. Len(inbox') = 0 /\ acc[0] = accum' /\ fin[0] = finals'
  BY <1>0
<1>2. acc \in [0 .. 0 -> Seq(Nat)] /\ fin \in [0 .. 0 -> Seq(Seq(Nat))]
  BY <1>0
<1>3. \A i \in 0 .. 0 : IsPrefix(fin[i], fin[0])
  BY <1>1, PrefixOfSelf
<1>4. Dispatched(acc, fin)'
  BY <1>1, <1>2, <1>3 DEF Dispatched
<1> QED
  BY <1>4

\* What was received is a beginning of what was said, and all of it when the
\* inbox is empty.
LEMMA AllDispatched ==
  ASSUME StreamTypeOK, NEW acc, NEW fin, Dispatched(acc, fin)
  PROVE  /\ Len(finals) <= Len(said)
         /\ \A i \in 1 .. Len(finals) : i \in mixed \/ finals[i] = said[i]
         /\ inbox = <<>> => UpToDate(accum, finals)
<1> DEFINE n == Len(inbox)
<1>1. /\ acc[0] = accum /\ fin[0] = finals
      /\ \A i \in 0 .. n : IsPrefix(fin[i], fin[n])
      /\ UpToDate(acc[n], fin[n])
      /\ fin \in [0 .. n -> Seq(Seq(Nat))]
  BY DEF Dispatched
<1>2. n \in Nat /\ (inbox = <<>> => n = 0)
  BY LenProperties DEF StreamTypeOK
<1> HIDE DEF n
<1>3. 0 \in 0 .. n /\ n \in 0 .. n
  BY <1>2
<1>4. finals \in Seq(Seq(Nat)) /\ fin[n] \in Seq(Seq(Nat)) /\ IsPrefix(finals, fin[n])
  BY <1>1, <1>3
<1>5. Len(finals) <= Len(fin[n]) /\ \A i \in 1 .. Len(finals) : finals[i] = fin[n][i]
  BY <1>4, PrefixByElements
<1>6. Len(finals) \in Nat /\ Len(fin[n]) \in Nat
  BY <1>4, LenProperties
<1>7. Len(fin[n]) = Len(said) /\ \A i \in 1 .. Len(said) : i \in mixed \/ fin[n][i] = said[i]
  BY <1>1 DEF UpToDate
<1>8. inbox = <<>> => UpToDate(accum, finals)
  BY <1>1, <1>2
<1> QED
  BY <1>5, <1>6, <1>7, <1>8

LEMMA StreamInitInv == StreamInit => StreamInv
<1> SUFFICES ASSUME StreamInit PROVE StreamInv
  OBVIOUS
<1>1. <<>> \in Seq(Nat) /\ <<>> \in Seq(Seq(Nat)) /\ <<>> \in Seq(Messages) /\ Len(inbox) = 0
  BY EmptySeq DEF StreamInit
<1>2. StreamTypeOK
  BY <1>1 DEF StreamInit, StreamTypeOK
<1>p. StreamPlace
  BY <1>1 DEF StreamInit, StreamPlace
<1>u. UpToDate(accum, finals)
  BY <1>1 DEF StreamInit, UpToDate
<1>3. \E acc, fin : Dispatched(acc, fin)
  BY <1>1, <1>u, NothingToDispatch DEF StreamInit
<1> QED
  BY <1>2, <1>p, <1>3 DEF StreamInv

LEMMA MessageIs ==
  ASSUME NEW x \in MessageTypes, NEW s \in Seq(Nat), NEW b \in BOOLEAN
  PROVE  /\ Message(x, s, b) \in Messages
         /\ Message(x, s, b).type = x /\ Message(x, s, b).text = s /\ Message(x, s, b).flag = b
  BY DEF Message, Messages

\* The server hears one more word: its message, received, brings the hypothesis up to date.
LEMMA HypothesisIsKnown ==
  ASSUME provider \in Providers, NEW h \in Seq(Nat), NEW w \in Nat,
         NEW m, m = Hypothesis(Append(h, w))
  PROVE  /\ m \in Messages /\ Known(provider, m)
         /\ HypAfter(provider, m, h) = Append(h, w)
         /\ \A a \in Seq(Nat) : /\ HypAfter(provider, m, a) # <<>>
                                /\ ~SendsDeltas => HypAfter(provider, m, a) = Append(h, w)
         /\ \A a, f : FinAfter(provider, m, a, f) = f
<1> DEFINE t == Append(h, w)
           d == <<w>>
<1>1. t \in Seq(Nat) /\ t # <<>> /\ Last(t) = w /\ h \o d = t
  <2>1. t \in Seq(Nat) /\ t # <<>> /\ Len(t) = Len(h) + 1 /\ t[Len(h) + 1] = w
    BY AppendProperties
  <2>2. h \o d = t
    BY AppendIsConcat
  <2> QED
    BY <2>1, <2>2 DEF Last
<1>2. d \in Seq(Nat) /\ d # <<>> /\ <<Last(t)>> = d
  BY <1>1
<1> HIDE DEF t, d
<1> USE DEF Hypothesis, Message, Messages, MessageTypes, Known, IsDelta, IsWhole, IsFinal, IsNote
<1>3. m = Hypothesis(t)
  BY DEF t
<1>4. m \in Messages /\ Known(provider, m) /\ ~IsFinal(provider, m)
  BY <1>1, <1>2, <1>3 DEF Providers
<1>5. IF provider \in {"openai", "google"} THEN IsDelta(provider, m) /\ m.text = d
                                          ELSE IsWhole(provider, m) /\ ~IsDelta(provider, m) /\ m.text = t
  <2>1. CASE provider \in {"openai", "google"}
    BY <1>1, <1>2, <1>3, <2>1
  <2>2. CASE provider \notin {"openai", "google"}
    <3>1. ~IsDelta(provider, m)
      BY <2>2
    <3>2. IsWhole(provider, m) /\ m.text = t
      BY <1>1, <1>3, <2>2, SMTT(30) DEF Providers
    <3> QED
      BY <2>2, <3>1, <3>2
  <2> QED
    BY <2>1, <2>2
<1> HIDE DEF Hypothesis, Message, Messages, MessageTypes, Known, IsDelta, IsWhole, IsFinal, IsNote
<1>6. HypAfter(provider, m, h) = t
  BY <1>1, <1>4, <1>5 DEF HypAfter
<1>7. ASSUME NEW a \in Seq(Nat)
      PROVE  /\ HypAfter(provider, m, a) # <<>>
             /\ ~SendsDeltas => HypAfter(provider, m, a) = t
  <2>1. a \o d # <<>>
    <3>1. Len(a \o d) = Len(a) + 1 /\ Len(a) \in Nat
      BY <1>2, ConcatProperties, LenProperties DEF d
    <3> QED
      BY <3>1
  <2> QED
    BY <1>1, <1>4, <1>5, <2>1 DEF HypAfter, SendsDeltas
<1> QED
  BY <1>4, <1>6, <1>7 DEF FinAfter, t

\* It commits the utterance: the message makes the text final.
LEMMA CommitIsKnown ==
  ASSUME provider \in Providers, NEW h \in Seq(Nat), h # <<>>, NEW m \in Commits(h)
  PROVE  /\ m \in Messages /\ Known(provider, m) /\ IsFinal(provider, m)
         /\ provider # "google" => m.text = h
<1>0. \A x \in MessageTypes : \A b \in BOOLEAN :
        /\ Message(x, h, b) \in Messages
        /\ Message(x, h, b).type = x /\ Message(x, h, b).text = h /\ Message(x, h, b).flag = b
  BY MessageIs
<1>e. <<>> \in Seq(Nat)
  BY EmptySeq
<1> USE DEF MessageTypes, Known, IsFinal
<1>1. CASE provider = "google"
  <2>1. m = Message("serverContent", <<>>, TRUE)
    BY <1>1 DEF Commits
  <2>2. m \in Messages /\ m.type = "serverContent" /\ m.text = <<>> /\ m.flag
    BY <1>e, <2>1, MessageIs, ZenonT(30)
  <2> QED
    BY <1>1, <2>2
<1>2. CASE provider = "xai"
  <2>1. m \in {Message("transcript.partial", h, TRUE), Message("transcript.done", h, FALSE)}
    BY <1>2 DEF Commits
  <2>2. /\ m \in Messages /\ m.text = h
        /\ \/ m.type = "transcript.partial" /\ m.flag
           \/ m.type = "transcript.done"
    BY <1>0, <2>1
  <2> QED
    BY <1>2, <2>2
<1>3. CASE provider = "openai"
  <2>1. m = Message("completed", h, FALSE)
    BY <1>3 DEF Commits
  <2> QED
    BY <1>0, <1>3, <2>1
<1>4. CASE provider = "deepgram"
  <2>1. m = Message("Results", h, TRUE)
    BY <1>4 DEF Commits
  <2> QED
    BY <1>0, <1>4, <2>1
<1>5. CASE provider = "assemblyai"
  <2>1. m = Message("Turn", h, TRUE)
    BY <1>5 DEF Commits
  <2> QED
    BY <1>0, <1>5, <2>1
<1>6. CASE provider = "elevenlabs"
  <2>1. m = Message("committed_transcript", h, FALSE)
    BY <1>6 DEF Commits
  <2> QED
    BY <1>0, <1>6, <2>1
<1> QED
  BY <1>1, <1>2, <1>3, <1>4, <1>5, <1>6 DEF Providers

LEMMA StreamNextInv == StreamInv /\ [StreamNext]_streamVars => StreamInv'
<1> SUFFICES ASSUME StreamInv, [StreamNext]_streamVars PROVE StreamInv'
  OBVIOUS
<1>t. StreamTypeOK /\ StreamPlace
  BY DEF StreamInv
<1>d. PICK acc, fin : Dispatched(acc, fin)
  BY DEF StreamInv
<1>k. UNCHANGED <<provider, accum, finals, inbox, hearing, said, carried, mixed>> => \E a, f : Dispatched(a, f)'
  <2> SUFFICES ASSUME UNCHANGED <<provider, accum, finals, inbox, hearing, said, carried, mixed>>
               PROVE  Dispatched(acc, fin)'
    OBVIOUS
  <2>1. UpToDate(acc[Len(inbox)], fin[Len(inbox)]) => UpToDate(acc[Len(inbox)], fin[Len(inbox)])'
    BY DEF UpToDate, SendsDeltas
  <2> QED
    BY <1>d, <2>1 DEF Dispatched
<1>n. Len(inbox) \in Nat /\ acc[Len(inbox)] \in Seq(Nat) /\ fin[Len(inbox)] \in Seq(Seq(Nat))
  <2>1. Len(inbox) \in Nat
    BY <1>t, LenProperties DEF StreamTypeOK
  <2>2. acc \in [0 .. Len(inbox) -> Seq(Nat)] /\ fin \in [0 .. Len(inbox) -> Seq(Seq(Nat))]
    BY <1>d DEF Dispatched
  <2> QED
    BY <2>1, <2>2
<1>e. UpToDate(acc[Len(inbox)], fin[Len(inbox)])
  BY <1>d DEF Dispatched
<1>m. ASSUME NEW m \in Messages, Known(provider, m), inbox' = Append(inbox, m), UNCHANGED provider
      PROVE  inbox' \in Seq(Messages) /\ \A i \in 1 .. Len(inbox') : Known(provider', inbox'[i])
  <2> DEFINE n == Len(inbox)
  <2>1. /\ inbox' \in Seq(Messages) /\ Len(inbox') = n + 1 /\ inbox'[n + 1] = m
        /\ \A i \in 1 .. n : inbox'[i] = inbox[i]
    BY <1>t, <1>m, AppendProperties DEF StreamTypeOK
  <2>2. n \in Nat /\ \A i \in 1 .. n : Known(provider, inbox[i])
    BY <1>t, <1>n DEF StreamPlace
  <2> HIDE DEF n
  <2> QED
    BY <1>m, <2>1, <2>2
<1>1. CASE ServerHears
  <2>1. /\ ws = "open" /\ words' = words + 1 /\ hearing' = Append(hearing, words + 1)
        /\ inbox' = Append(inbox, Hypothesis(hearing'))
        /\ UNCHANGED <<provider, running, ws, recv, attempts, accum, finals, said, breaks, carried, mixed, caller>>
    BY <1>1 DEF ServerHears
  <2> DEFINE m == Hypothesis(hearing')
             w == words + 1
  <2>2. hearing \in Seq(Nat) /\ w \in Nat /\ hearing' = Append(hearing, w) /\ hearing' \in Seq(Nat)
    BY <1>t, <2>1, AppendProperties DEF StreamTypeOK
  <2>p. PICK x : x = m
    OBVIOUS
  <2>3. /\ x \in Messages /\ Known(provider, x) /\ HypAfter(provider, x, hearing) = hearing'
        /\ \A a \in Seq(Nat) : /\ HypAfter(provider, x, a) # <<>>
                               /\ ~SendsDeltas => HypAfter(provider, x, a) = hearing'
        /\ \A a, f : FinAfter(provider, x, a, f) = f
    <3>1. provider \in Providers /\ x = Hypothesis(Append(hearing, w))
      BY <1>t, <2>2, <2>p DEF StreamTypeOK
    <3> HIDE DEF w
    <3> QED
      BY <2>2, <3>1, HypothesisIsKnown, ZenonT(60)
  <2>4. inbox' = Append(inbox, x)
    BY <2>1, <2>p
  <2>5. inbox' \in Seq(Messages) /\ \A i \in 1 .. Len(inbox') : Known(provider', inbox'[i])
    BY <1>m, <2>1, <2>3, <2>4
  <2>6. StreamTypeOK'
    BY <1>t, <2>1, <2>2, <2>5 DEF StreamTypeOK
  <2>7. StreamPlace'
    BY <1>t, <2>1, <2>5 DEF StreamPlace
  <2>h. hearing' # <<>>
    BY <2>2, AppendProperties
  <2>q. PICK a1, f1 : /\ a1 = HypAfter(provider, x, acc[Len(inbox)])
                      /\ f1 = FinAfter(provider, x, acc[Len(inbox)], fin[Len(inbox)])
    OBVIOUS
  <2>u. UpToDate(a1, f1)'
    <3>0. acc[Len(inbox)] \in Seq(Nat)
      BY <1>n
    <3>1. a1 # <<>> /\ (~SendsDeltas => a1 = hearing') /\ f1 = fin[Len(inbox)]
      BY <2>3, <2>q, <3>0, ZenonT(30)
    <3>2. ~carried => a1 = hearing'
      BY <1>e, <2>3, <2>q DEF UpToDate
    <3>3. SendsDeltas' = SendsDeltas
      BY <2>1 DEF SendsDeltas
    <3> QED
      BY <1>e, <2>1, <2>h, <3>1, <3>2, <3>3 DEF UpToDate
  <2>8. \E a, f : Dispatched(a, f)'
    BY <1>t, <1>d, <2>1, <2>3, <2>4, <2>q, <2>u, OneMoreMessage
  <2> QED
    BY <2>6, <2>7, <2>8 DEF StreamInv
<1>2. CASE ServerCommits
  <2>1. PICK m \in Commits(hearing) : inbox' = Append(inbox, m)
    BY <1>2 DEF ServerCommits
  <2>2. /\ ws = "open" /\ hearing # <<>> /\ said' = Append(said, hearing) /\ hearing' = <<>>
        /\ carried' = FALSE
        /\ mixed' = mixed \cup {i \in {Len(said')} : carried /\ provider = "google"}
        /\ UNCHANGED <<provider, running, ws, recv, attempts, accum, finals, words, breaks, caller>>
    BY <1>2 DEF ServerCommits
  <2>3. /\ m \in Messages /\ Known(provider, m) /\ IsFinal(provider, m)
        /\ provider # "google" => m.text = hearing
    BY <1>t, <2>2, CommitIsKnown DEF StreamTypeOK
  <2>4. inbox' \in Seq(Messages) /\ \A i \in 1 .. Len(inbox') : Known(provider', inbox'[i])
    BY <1>m, <2>1, <2>2, <2>3
  <2>5. said' \in Seq(Seq(Nat)) /\ hearing' \in Seq(Nat) /\ mixed' \in SUBSET Nat
    <3>1. said' \in Seq(Seq(Nat)) /\ hearing' \in Seq(Nat)
      BY <1>t, <2>2, AppendProperties, EmptySeq DEF StreamTypeOK
    <3>2. Len(said') \in Nat
      BY <3>1, LenProperties
    <3> QED
      BY <1>t, <2>2, <3>1, <3>2 DEF StreamTypeOK
  <2>6. StreamTypeOK'
    BY <1>t, <2>2, <2>4, <2>5 DEF StreamTypeOK
  <2>7. StreamPlace'
    BY <1>t, <2>2, <2>4 DEF StreamPlace
  <2>8. HypAfter(provider, m, acc[Len(inbox)]) = hearing'
    BY <2>2, <2>3 DEF HypAfter
  <2>p. PICK x, a1, f1 : /\ x = FinalText(provider, m, acc[Len(inbox)])
                         /\ a1 = HypAfter(provider, m, acc[Len(inbox)])
                         /\ f1 = FinAfter(provider, m, acc[Len(inbox)], fin[Len(inbox)])
    OBVIOUS
  <2>9. x \in Seq(Nat) /\ x # <<>> /\ (~(carried /\ provider = "google") => x = hearing)
    BY <1>n, <1>e, <1>t, <2>2, <2>3, <2>p DEF FinalText, UpToDate, StreamTypeOK
  <2>f. f1 = Append(fin[Len(inbox)], x)
    BY <2>3, <2>9, <2>p DEF FinAfter
  <2>u. UpToDate(a1, f1)'
    <3> DEFINE f == fin[Len(inbox)]
               k == Len(said)
    <3>1. f \in Seq(Seq(Nat)) /\ said \in Seq(Seq(Nat)) /\ hearing \in Seq(Nat)
      BY <1>n, <1>t DEF StreamTypeOK
    <3>2. k \in Nat /\ Len(f) = k /\ \A i \in 1 .. k : i \in mixed \/ f[i] = said[i]
      BY <1>e, <3>1, LenProperties DEF UpToDate
    <3>3. f1 = Append(f, x)
      BY <2>f
    <3> HIDE DEF f
    <3>4. Len(f1) = k + 1 /\ f1[k + 1] = x /\ \A i \in 1 .. k : f1[i] = f[i]
      BY <2>9, <3>1, <3>2, <3>3, AppendProperties
    <3>5. Len(said') = k + 1 /\ said'[k + 1] = hearing /\ \A i \in 1 .. k : said'[i] = said[i]
      BY <2>2, <3>1, AppendProperties
    <3> HIDE DEF k
    <3>6. (k + 1 \in mixed') \/ x = hearing
      BY <2>2, <2>9, <3>5
    <3>7. \A i \in 1 .. Len(said') : i \in mixed' \/ f1[i] = said'[i]
      BY <2>2, <3>2, <3>4, <3>5, <3>6
    <3> QED
      BY <2>2, <2>8, <2>p, <3>4, <3>5, <3>7 DEF UpToDate
  <2>10. \E a, g : Dispatched(a, g)'
    BY <1>t, <1>d, <2>1, <2>2, <2>3, <2>8, <2>p, <2>u, OneMoreMessage
  <2> QED
    BY <2>6, <2>7, <2>10 DEF StreamInv
<1>3. CASE ServerNotes
  <2>p. PICK m : m = Message("note", <<>>, FALSE)
    OBVIOUS
  <2>1. /\ ws = "open" /\ inbox = <<>> /\ inbox' = <<m>>
        /\ UNCHANGED <<provider, running, ws, recv, attempts, accum, finals, hearing, said, words, breaks,
                       carried, mixed, caller>>
    BY <1>3, <2>p DEF ServerNotes
  <2>2. m \in Messages /\ m.type = "note"
    BY <2>p, MessageIs, EmptySeq DEF MessageTypes
  <2>3. IsNote(m) /\ ~IsDelta(provider, m) /\ ~IsWhole(provider, m) /\ ~IsFinal(provider, m)
    BY <2>2 DEF IsNote, IsDelta, IsWhole, IsFinal
  <2>4. inbox' = Append(inbox, m)
    BY <2>1
  <2>5. inbox' \in Seq(Messages) /\ \A i \in 1 .. Len(inbox') : Known(provider', inbox'[i])
    BY <1>m, <2>1, <2>2, <2>3, <2>4 DEF Known
  <2>6. StreamTypeOK'
    BY <1>t, <2>1, <2>5 DEF StreamTypeOK
  <2>7. StreamPlace'
    BY <1>t, <2>1, <2>5 DEF StreamPlace
  <2>8. \A a, f : HypAfter(provider, m, a) = a /\ FinAfter(provider, m, a, f) = f
    BY <2>3 DEF HypAfter, FinAfter
  <2>q. PICK a1, f1 : a1 = acc[Len(inbox)] /\ f1 = fin[Len(inbox)]
    OBVIOUS
  <2>u. UpToDate(a1, f1)'
    BY <1>e, <2>1, <2>q DEF UpToDate, SendsDeltas
  <2>9. \E a, f : Dispatched(a, f)'
    BY <1>t, <1>d, <2>1, <2>2, <2>4, <2>8, <2>q, <2>u, OneMoreMessage
  <2> QED
    BY <2>6, <2>7, <2>9 DEF StreamInv
<1>4. CASE SocketBreaks
  <2>1. /\ ws = "open" /\ breaks' = breaks + 1 /\ ws' = "broken" /\ hearing' = <<>>
        /\ carried' = (carried \/ hearing # <<>>)
        /\ UNCHANGED <<provider, running, recv, attempts, accum, finals, inbox, said, words, mixed, caller>>
    BY <1>4 DEF SocketBreaks
  <2>2. running
    BY <1>t, <2>1 DEF StreamPlace
  <2>3. hearing' \in Seq(Nat) /\ carried' \in BOOLEAN
    BY <1>t, <2>1, EmptySeq DEF StreamTypeOK
  <2>4. StreamTypeOK'
    BY <1>t, <2>1, <2>3 DEF StreamTypeOK
  <2>5. StreamPlace'
    BY <1>t, <2>1, <2>2 DEF StreamPlace
  <2>6. ~carried' => ~carried /\ hearing' = hearing
    BY <2>1
  <2>7. Dispatched(acc, fin)'
    BY <1>d, <2>1, <2>6 DEF Dispatched, UpToDate, SendsDeltas
  <2> QED
    BY <2>4, <2>5, <2>7 DEF StreamInv
<1>5. CASE StartStream
  <2>1. /\ ~running /\ running' = TRUE /\ accum' = <<>>
        /\ ws' \in {"none", "open", "broken"} /\ recv' \in {"none", "recv"}
        /\ attempts' \in Nat /\ breaks' \in Nat
        /\ UNCHANGED <<provider, finals, inbox, hearing, said, words, carried, mixed>>
    BY <1>5, <1>t DEF StartStream, StreamTypeOK, StreamPlace
  <2>2. inbox = <<>> /\ hearing = <<>> /\ ~carried
    BY <1>t, <2>1 DEF StreamPlace
  <2>3. UpToDate(accum, finals)
    BY <1>t, <1>d, <2>2, AllDispatched
  <2>4. StreamTypeOK'
    BY <1>t, <2>1, EmptySeq DEF StreamTypeOK
  <2>5. StreamPlace'
    BY <1>t, <2>1, <2>2 DEF StreamPlace
  <2>6. \E a, f : Dispatched(a, f)'
    <3>1. UpToDate(accum, finals)'
      BY <2>1, <2>2, <2>3 DEF UpToDate, SendsDeltas
    <3> QED
      BY <1>t, <2>1, <2>2, <2>4, <3>1, NothingLeftToDispatch DEF StreamTypeOK
  <2> QED
    BY <2>4, <2>5, <2>6 DEF StreamInv
<1>6. CASE FeedAudio \/ GivesUp \/ UNCHANGED streamVars
  <2>1. UNCHANGED <<provider, running, ws, attempts, accum, finals, inbox, hearing, said, words, breaks, carried,
                  mixed>>
    BY <1>6 DEF FeedAudio, GivesUp, serverVars, streamVars
  <2>2. \/ recv' = recv
        \/ running /\ recv' = "gave_up" /\ attempts >= MaxReconnects
    BY <1>6, <1>t DEF FeedAudio, GivesUp, streamVars, StreamPlace
  <2>3. StreamTypeOK'
    BY <1>t, <2>1, <2>2 DEF StreamTypeOK
  <2>4. StreamPlace'
    BY <1>t, <2>1, <2>2 DEF StreamPlace
  <2> QED
    BY <1>k, <2>1, <2>3, <2>4 DEF StreamInv
<1>7. CASE StopStream
  <2>1. CASE CloseFrameFails
    <3>1. UNCHANGED <<provider, running, ws, recv, attempts, accum, finals, inbox, hearing, said, words, breaks,
                      carried, mixed>>
      BY <1>7, <2>1 DEF StopStream, serverVars
    <3>2. StreamTypeOK'
      BY <1>t, <3>1 DEF StreamTypeOK
    <3>3. StreamPlace'
      BY <1>t, <3>1 DEF StreamPlace
    <3> QED
      BY <1>k, <3>1, <3>2, <3>3 DEF StreamInv
  <2>2. CASE ~CloseFrameFails
    <3>1. /\ running' = FALSE /\ ws' = "none" /\ recv' = "none" /\ accum' = <<>>
          /\ inbox' = <<>> /\ hearing' = <<>> /\ said' = finals
          /\ carried' = FALSE /\ mixed' = {} /\ UNCHANGED <<provider, attempts, finals, words, breaks>>
      BY <1>7, <2>2 DEF StopStream
    <3>2. <<>> \in Seq(Nat) /\ <<>> \in Seq(Messages) /\ Len(inbox') = 0
      BY <3>1, EmptySeq
    <3>3. StreamTypeOK'
      BY <1>t, <3>1, <3>2 DEF StreamTypeOK
    <3>4. StreamPlace'
      BY <3>1, <3>2 DEF StreamPlace
    <3>5. \E a, f : Dispatched(a, f)'
      <4>1. UpToDate(accum, finals)'
        BY <3>1 DEF UpToDate
      <4> QED
        BY <3>1, <3>3, <4>1, NothingLeftToDispatch DEF StreamTypeOK
    <3> QED
      BY <3>3, <3>4, <3>5 DEF StreamInv
  <2> QED
    BY <2>1, <2>2
<1>8. CASE Receive
  <2> DEFINE m == Head(inbox)
             n == Len(inbox)
  <2>1. /\ recv = "recv" /\ inbox # <<>> /\ inbox' = Tail(inbox) /\ attempts' = 0 /\ Dispatch(ParseEvent(m))
        /\ UNCHANGED <<provider, running, ws, recv, hearing, said, words, breaks, carried, mixed, caller>>
    BY <1>8 DEF Receive
  <2>2. /\ n \in Nat \ {0} /\ inbox' \in Seq(Messages) /\ Len(inbox') = n - 1 /\ m = inbox[1] /\ m \in Messages
        /\ \A i \in 1 .. n - 1 : inbox'[i] = inbox[i + 1]
    BY <1>t, <2>1, HeadTailProperties, EmptySeq DEF StreamTypeOK
  <2>3. \A i \in 1 .. n : Known(provider, inbox[i])
    BY <1>t DEF StreamPlace
  <2>4. accum' = HypAfter(provider, m, accum) /\ finals' = FinAfter(provider, m, accum, finals)
    <3>1. Known(provider, m)
      BY <2>2, <2>3
    <3> QED
      BY <1>t, <2>1, <2>2, <3>1, ReceivedIsDispatched DEF StreamTypeOK
  <2>5. accum' \in Seq(Nat) /\ finals' \in Seq(Seq(Nat))
    BY <1>t, <2>2, <2>4, AfterType DEF StreamTypeOK
  <2>6. StreamTypeOK'
    BY <1>t, <2>1, <2>2, <2>5 DEF StreamTypeOK
  <2>7. StreamPlace'
    <3>1. \A i \in 1 .. n - 1 : Known(provider, inbox'[i])
      <4> HIDE DEF n
      <4> QED
        BY <2>2, <2>3
    <3>2. running
      BY <1>t, <2>1 DEF StreamPlace
    <3> HIDE DEF n
    <3> QED
      BY <1>t, <2>1, <2>2, <3>1, <3>2 DEF StreamPlace
  <2>8. \E a, f : Dispatched(a, f)'
    BY <1>t, <1>d, <2>1, <2>4, OneMessageLess
  <2> QED
    BY <2>6, <2>7, <2>8 DEF StreamInv
<1>9. CASE ReceiveFails \/ Reopen
  <2>1. UNCHANGED <<provider, running, accum, finals, inbox, hearing, said, words, carried, mixed>>
    BY <1>9 DEF ReceiveFails, Reopen, serverVars
  <2>2. /\ recv \in {"recv", "reopen"} /\ ws # "open"
        /\ recv' \in {"recv", "reopen"} /\ ws' \in {"none", "open", "broken"}
        /\ recv' = "reopen" => ws' = "none"
        /\ attempts' \in Nat /\ breaks' \in Nat
    <3>1. CASE ReceiveFails
      BY <3>1, <1>t DEF ReceiveFails, StreamTypeOK
    <3>2. CASE Reopen
      BY <3>2, <1>t DEF Reopen, StreamTypeOK, StreamPlace
    <3> QED
      BY <1>9, <3>1, <3>2
  <2>3. running /\ hearing' = <<>>
    BY <1>t, <2>1, <2>2 DEF StreamPlace
  <2>4. StreamTypeOK'
    BY <1>t, <2>1, <2>2 DEF StreamTypeOK
  <2>5. StreamPlace'
    BY <1>t, <2>1, <2>2, <2>3 DEF StreamPlace
  <2> QED
    BY <1>k, <2>1, <2>4, <2>5 DEF StreamInv
<1> QED
  BY <1>1, <1>2, <1>3, <1>4, <1>5, <1>6, <1>7, <1>8, <1>9 DEF StreamNext

\* For every provider's protocol and every number of words, broken sockets and
\* reconnects: on_final gets each utterance once and in order, whole but for the
\* first one google's client puts together after a socket broke within one; the
\* partial on display is the whole hypothesis, but for what a provider of deltas
\* carries over so; the loop gives up no earlier than max_reconnects allows, and
\* a stopped stream has neither socket nor task.
THEOREM TranscriptsAreExact == StreamSpec => []TranscriptsExact
<1>1. StreamInv => TranscriptsExact
  <2> SUFFICES ASSUME StreamInv PROVE TranscriptsExact
    OBVIOUS
  <2>1. StreamTypeOK /\ StreamPlace
    BY DEF StreamInv
  <2>2. /\ Len(finals) <= Len(said)
        /\ \A i \in 1 .. Len(finals) : i \in mixed \/ finals[i] = said[i]
        /\ inbox = <<>> => UpToDate(accum, finals)
    BY <2>1, AllDispatched DEF StreamInv
  <2> QED
    BY <2>1, <2>2 DEF StreamPlace, TranscriptsExact, FinalsExact, PartialIsHypothesis, GaveUpLate, StoppedIsQuiet,
                      Received, UpToDate
<1> QED
  BY <1>1, StreamInitInv, StreamNextInv, PTL DEF StreamSpec

----------------------------------------------------------------------------
(* The Google Speech V2 backend: the audio of a session.                   *)
(*                                                                         *)
(* What a session has sent, followed by the chunks that wait in its queue, *)
(* is what it was fed without what orphans took: the generator moves a     *)
(* chunk from the second to the first, an orphan takes it from the second  *)
(* and from what is kept of what was fed.                                  *)

\* What a queue may hold, the chunks in it, and the chunks fed that no orphan took.
Items == 0 .. MaxChunks + 1
Waiting == Among(items, Chunks)
NotLost == Among(fed, Chunks \ ToSet(lost))

SpeechTypeOK ==
  /\ live \in BOOLEAN /\ orphans \in Nat
  /\ drive \in {"none", "open", "stream", "backoff"}
  /\ items \in Seq(Items)
  /\ fed \in Seq(Chunks) /\ sent \in Seq(Chunks) /\ lost \in Seq(Chunks)
  /\ drops \in Nat

\* The chunks are numbered as they were fed.
Numbered == Len(fed) <= MaxChunks /\ \A i \in 1 .. Len(fed) : fed[i] = i

\* What was lost is paid for by the drops that left the orphans.
Paid == Len(lost) + orphans <= drops

\* While a session lives: every chunk fed and not lost is sent or waits, in order.
Carried ==
  /\ client = "open"
  /\ \A i \in 1 .. Len(items) : items[i] # STOP
  /\ ToSet(lost) \subseteq ToSet(fed)
  /\ sent \o Waiting = NotLost

SpeechInv ==
  /\ SpeechTypeOK /\ Numbered /\ Paid
  /\ live => Carried
  /\ ~live => client = "none" /\ drive = "none"

\* Chunks and sentinels.
LEMMA SpeechSets ==
  /\ RESTART \in Items /\ STOP \in Items /\ Chunks \subseteq Items /\ RESTART # STOP
  /\ RESTART \notin Chunks /\ STOP \notin Chunks
  /\ \A i \in Items : i = RESTART \/ i = STOP \/ i \in Chunks
BY SpeechAssumption DEF Items, RESTART, STOP, Chunks

\* The invariant gives the two properties.
LEMMA CarriedIsExact == SpeechInv => AudioCarriesOver /\ SessionIsFresh
<1> SUFFICES ASSUME SpeechInv PROVE AudioCarriesOver /\ SessionIsFresh
  OBVIOUS
<1>1. Len(lost) <= drops
  <2>1. Len(lost) \in Nat /\ orphans \in Nat /\ drops \in Nat
    BY LenProperties DEF SpeechInv, SpeechTypeOK
  <2> QED
    BY <2>1 DEF SpeechInv, Paid
<1>2. ASSUME live PROVE Carried
  BY <1>2 DEF SpeechInv
<1>3. AudioCarriesOver
  BY <1>1, <1>2 DEF AudioCarriesOver, Carried, Waiting, NotLost
<1>4. SessionIsFresh
  BY <1>2 DEF SessionIsFresh, Carried, Contains
<1> QED
  BY <1>3, <1>4

LEMMA SpeechInitInv == SpeechInit => SpeechInv
<1> SUFFICES ASSUME SpeechInit PROVE SpeechInv
  OBVIOUS
<1>1. <<>> \in Seq(Items) /\ <<>> \in Seq(Chunks) /\ Len(<<>>) = 0
  BY EmptySeq
<1>2. SpeechTypeOK
  BY <1>1 DEF SpeechInit, SpeechTypeOK
<1>3. Numbered
  BY <1>1, SpeechAssumption DEF SpeechInit, Numbered
<1>4. Paid
  BY <1>1 DEF SpeechInit, Paid
<1>5. ~live /\ client = "none" /\ drive = "none"
  BY DEF SpeechInit
<1> QED
  BY <1>2, <1>3, <1>4, <1>5 DEF SpeechInv

\* No chunk is twice in what is sent and waits.
LEMMA CarriedDistinct ==
  ASSUME SpeechInv, Carried
  PROVE  /\ Waiting \in Seq(Chunks) /\ NotLost \in Seq(Chunks)
         /\ IsInjective(sent \o Waiting)
         /\ ToSet(items) \cap Chunks \subseteq ToSet(fed)
<1>1. Waiting \in Seq(Items) /\ ToSet(Waiting) = ToSet(items) \cap Chunks
  BY AmongType, AmongElements DEF Waiting, SpeechInv, SpeechTypeOK
<1>2. Waiting \in Seq(Chunks)
  <2> DEFINE w == Waiting
  <2>1. w \in Seq(Items) /\ Len(w) \in Nat /\ DOMAIN w = 1 .. Len(w) /\ w \in [1 .. Len(w) -> Items]
    BY <1>1, LenProperties
  <2>2. \A i \in 1 .. Len(w) : w[i] \in Chunks
    BY <1>1, <2>1 DEF ToSet
  <2> HIDE DEF w
  <2>3. w \in [1 .. Len(w) -> Chunks]
    BY <2>1, <2>2
  <2> QED
    BY <2>1, <2>3, SeqDef DEF w
<1>3. NotLost \in Seq(Chunks) /\ IsInjective(NotLost) /\ ToSet(NotLost) = ToSet(fed) \cap (Chunks \ ToSet(lost))
  <2>1. fed \in Seq(Chunks) /\ DOMAIN fed = 1 .. Len(fed)
    BY LenProperties DEF SpeechInv, SpeechTypeOK
  <2>2. IsInjective(fed)
    BY <2>1 DEF IsInjective, SpeechInv, Numbered
  <2> DEFINE S == Chunks \ ToSet(lost)
  <2> HIDE DEF S
  <2>3. Among(fed, S) \in Seq(Chunks) /\ IsInjective(Among(fed, S)) /\ ToSet(Among(fed, S)) = ToSet(fed) \cap S
    BY <2>1, <2>2, AmongType, AmongDistinct, AmongElements
  <2> QED
    BY <2>3 DEF NotLost, S
<1>4. sent \o Waiting = NotLost
  BY DEF Carried
<1>5. ToSet(Waiting) \subseteq ToSet(sent \o Waiting)
  <2> DEFINE w == Waiting
             n == Len(sent)
             m == Len(w)
             all == sent \o w
  <2>1. /\ n \in Nat /\ m \in Nat /\ all \in Seq(Chunks) /\ Len(all) = n + m
        /\ \A i \in 1 .. n + m : all[i] = IF i <= n THEN sent[i] ELSE w[i - n]
    BY <1>2, ConcatProperties, LenProperties DEF SpeechInv, SpeechTypeOK
  <2> HIDE DEF all
  <2>2. DOMAIN w = 1 .. m /\ DOMAIN all = 1 .. n + m
    BY <1>2, <2>1, LenProperties
  <2> HIDE DEF w, n, m
  <2>3. ASSUME NEW i \in 1 .. m PROVE w[i] = all[n + i] /\ n + i \in 1 .. n + m
    <3>1. n + i \in 1 .. n + m /\ ~(n + i <= n) /\ (n + i) - n = i
      BY <2>1
    <3> QED
      BY <2>1, <3>1
  <2>4. ToSet(w) \subseteq ToSet(all)
    BY <2>2, <2>3 DEF ToSet
  <2> QED
    BY <2>4 DEF w, all
<1> QED
  BY <1>1, <1>2, <1>3, <1>4, <1>5

\* start_stream.
LEMMA StartKept == ASSUME SpeechInv, SpeechStarts PROVE SpeechInv'
<1>1. /\ <<>> \in Seq(Items) /\ <<>> \in Seq(Chunks) /\ Len(<<>>) = 0 /\ DOMAIN <<>> = {}
      /\ ToSet(<<>>) = {} /\ Among(<<>>, Chunks) = <<>> /\ Among(<<>>, Chunks \ {}) = <<>>
      /\ <<>> \o <<>> = <<>>
  BY EmptySeq, AmongEmpty DEF ToSet
<1>2. /\ live' = TRUE /\ client' = "open" /\ drive' = "open" /\ items' = <<>> /\ orphans' = 0
      /\ fed' = <<>> /\ sent' = <<>> /\ lost' = <<>> /\ drops' = drops
  BY DEF SpeechStarts, SpeechInv, BuiltClient
<1>3. SpeechTypeOK' /\ Paid' /\ Numbered'
  <2>1. drops \in Nat
    BY DEF SpeechInv, SpeechTypeOK
  <2>2. SpeechTypeOK'
    BY <1>1, <1>2, <2>1 DEF SpeechTypeOK
  <2>3. Paid'
    BY <1>1, <1>2, <2>1 DEF Paid
  <2>4. Numbered'
    BY <1>1, <1>2, SpeechAssumption DEF Numbered
  <2> QED
    BY <2>2, <2>3, <2>4
<1>4. Carried'
  <2>1. Waiting' = <<>>
    BY <1>1, <1>2 DEF Waiting
  <2>2. NotLost' = <<>>
    BY <1>1, <1>2 DEF NotLost
  <2>3. \A i \in 1 .. Len(items') : items'[i] # STOP
    BY <1>1, <1>2
  <2>4. sent' \o Waiting' = NotLost'
    BY <1>1, <1>2, <2>1, <2>2
  <2>5. ToSet(lost') \subseteq ToSet(fed')
    BY <1>2
  <2> QED
    BY <1>2, <2>3, <2>4, <2>5 DEF Carried
<1> QED
  BY <1>2, <1>3, <1>4 DEF SpeechInv

\* feed_audio.
LEMMA FedKept == ASSUME SpeechInv, SpeechFed PROVE SpeechInv'
<1>t. /\ live /\ live' = live /\ orphans' = orphans /\ drive' = drive /\ client' = client
      /\ sent' = sent /\ lost' = lost /\ drops' = drops
  BY DEF SpeechFed
<1>k. SpeechTypeOK /\ Numbered /\ Paid /\ Carried
  BY <1>t DEF SpeechInv
<1>1. PICK n \in 1 .. 2 : /\ Len(fed) + n <= MaxChunks
                          /\ fed' = fed \o [i \in 1 .. n |-> Len(fed) + i]
                          /\ items' = items \o [i \in 1 .. n |-> Len(fed) + i]
  BY DEF SpeechFed
<1> DEFINE m == Len(fed)
           more == [i \in 1 .. n |-> m + i]
<1>2. m \in Nat /\ m + n <= MaxChunks /\ DOMAIN fed = 1 .. m
  BY <1>1, <1>k, LenProperties DEF SpeechTypeOK
<1>3. /\ more \in Seq(Chunks) /\ more \in Seq(Items) /\ Len(more) = n /\ DOMAIN more = 1 .. n
      /\ \A i \in 1 .. n : more[i] = m + i /\ more[i] \in Chunks
  <2> HIDE DEF m
  <2>1. \A i \in 1 .. n : m + i \in Chunks /\ m + i \in Items
    BY <1>2, SpeechSets, SpeechAssumption DEF Chunks
  <2>2. more \in [1 .. n -> Chunks] /\ more \in [1 .. n -> Items] /\ n \in Nat
    BY <2>1
  <2>3. more \in Seq(Chunks) /\ more \in Seq(Items)
    BY <2>2, SeqDef
  <2>4. Len(more) = n
    BY <2>2
  <2> QED
    BY <2>1, <2>3, <2>4
<1>4. fed' = fed \o more /\ items' = items \o more
  BY <1>1
<1> HIDE DEF m, more
<1>5. /\ fed' \in Seq(Chunks) /\ Len(fed') = m + n
      /\ \A i \in 1 .. m + n : fed'[i] = IF i <= m THEN fed[i] ELSE more[i - m]
  BY <1>3, <1>4, <1>k, ConcatProperties DEF SpeechTypeOK, m
<1>6. items' \in Seq(Items) /\ \A i \in 1 .. Len(items') : items'[i] # STOP
  <2> DEFINE k == Len(items)
  <2>1. k \in Nat /\ \A i \in 1 .. k : items[i] # STOP
    BY <1>k, LenProperties DEF SpeechTypeOK, Carried
  <2>2. /\ items' \in Seq(Items) /\ Len(items') = k + n
        /\ \A i \in 1 .. k + n : items'[i] = IF i <= k THEN items[i] ELSE more[i - k]
    BY <1>3, <1>4, <1>k, ConcatProperties DEF SpeechTypeOK
  <2> HIDE DEF k
  <2>3. ASSUME NEW i \in 1 .. k + n PROVE items'[i] # STOP
    <3>1. CASE i <= k
      BY <2>1, <2>2, <3>1
    <3>2. CASE ~(i <= k)
      <4>1. i - k \in 1 .. n
        BY <2>1, <3>2
      <4> QED
        BY <1>3, <2>2, <3>2, <4>1, SpeechSets
    <3> QED
      BY <3>1, <3>2
  <2> QED
    BY <2>2, <2>3
<1>7. SpeechTypeOK'
  BY <1>t, <1>k, <1>5, <1>6 DEF SpeechTypeOK
<1>8. Numbered'
  <2>1. ASSUME NEW i \in 1 .. m + n PROVE fed'[i] = i
    <3>1. CASE i <= m
      BY <1>2, <1>5, <1>k, <3>1 DEF Numbered, m
    <3>2. CASE ~(i <= m)
      <4>1. i - m \in 1 .. n /\ m + (i - m) = i
        BY <1>2, <3>2
      <4> QED
        BY <1>3, <1>5, <3>2, <4>1
    <3> QED
      BY <3>1, <3>2
  <2> QED
    BY <1>2, <1>5, <2>1 DEF Numbered
<1>9. \A i \in 1 .. n : m + i \notin ToSet(lost)
  <2>1. ASSUME NEW i \in 1 .. n, m + i \in ToSet(fed) PROVE FALSE
    <3>1. PICK j \in 1 .. m : fed[j] = m + i
      BY <1>2, <2>1 DEF ToSet
    <3> QED
      BY <1>2, <1>k, <3>1 DEF Numbered, m
  <2> QED
    BY <1>k, <2>1 DEF Carried
<1>10. ToSet(fed) \subseteq ToSet(fed')
  <2>1. DOMAIN fed' = 1 .. m + n
    BY <1>5, LenProperties
  <2>2. \A i \in 1 .. m : fed'[i] = fed[i] /\ i \in 1 .. m + n
    BY <1>2, <1>5
  <2> QED
    BY <1>2, <2>1, <2>2 DEF ToSet
<1>11. Waiting' = Waiting \o more
  <2>1. Among(more, Chunks) = more
    BY <1>3, AmongAll
  <2>2. Among(items \o more, Chunks) = Among(items, Chunks) \o Among(more, Chunks)
    <3>1. items \in Seq(Items) /\ more \in Seq(Items)
      BY <1>3, <1>k DEF SpeechTypeOK
    <3> QED
      BY <3>1, AmongConcat
  <2> QED
    BY <1>4, <2>1, <2>2 DEF Waiting
<1>12. NotLost' = NotLost \o more
  <2> DEFINE S == Chunks \ ToSet(lost)
  <2>1. \A i \in 1 .. n : more[i] \in S
    BY <1>3, <1>9
  <2> HIDE DEF S
  <2>2. Among(more, S) = more
    BY <1>3, <2>1, AmongAll
  <2>3. Among(fed \o more, S) = Among(fed, S) \o Among(more, S)
    <3>1. fed \in Seq(Chunks) /\ more \in Seq(Chunks)
      BY <1>3, <1>k DEF SpeechTypeOK
    <3> QED
      BY <3>1, AmongConcat
  <2> QED
    BY <1>t, <1>4, <2>2, <2>3 DEF NotLost, S
<1>13. (sent \o Waiting) \o more = sent \o (Waiting \o more)
  <2>1. Waiting \in Seq(Chunks) /\ sent \in Seq(Chunks)
    BY <1>k, CarriedDistinct DEF SpeechTypeOK
  <2> DEFINE w == Waiting
  <2> HIDE DEF w
  <2>2. (sent \o w) \o more = sent \o (w \o more)
    BY <1>3, <2>1, ConcatAssociative DEF w
  <2> QED
    BY <2>2 DEF w
<1>14. Carried'
  <2>1. sent' \o Waiting' = NotLost'
    BY <1>t, <1>k, <1>11, <1>12, <1>13 DEF Carried
  <2> QED
    BY <1>t, <1>k, <1>6, <1>10, <2>1 DEF Carried
<1>15. Paid'
  BY <1>t, <1>k DEF Paid
<1> QED
  BY <1>t, <1>7, <1>8, <1>14, <1>15 DEF SpeechInv

\* What is taken from the front of the queue.
LEMMA TakenFromFront ==
  ASSUME SpeechInv, items # <<>>, items' = Tail(items)
  PROVE  /\ Head(items) \in Items /\ items' \in Seq(Items)
         /\ Waiting' \in Seq(Items)
         /\ Waiting = IF Head(items) \in Chunks THEN <<Head(items)>> \o Waiting' ELSE Waiting'
         /\ live => Head(items) # STOP /\ \A i \in 1 .. Len(items') : items'[i] # STOP
<1>1. items \in Seq(Items)
  BY DEF SpeechInv, SpeechTypeOK
<1>2. /\ Head(items) \in Items /\ Tail(items) \in Seq(Items) /\ Among(Tail(items), Chunks) \in Seq(Items)
      /\ Among(items, Chunks) = IF Head(items) \in Chunks THEN <<Head(items)>> \o Among(Tail(items), Chunks)
                                ELSE Among(Tail(items), Chunks)
  BY <1>1, AmongHead
<1>3. ASSUME live PROVE Head(items) # STOP /\ \A i \in 1 .. Len(items') : items'[i] # STOP
  <2>1. \A i \in 1 .. Len(items) : items[i] # STOP
    BY <1>3 DEF SpeechInv, Carried
  <2>2. Len(items) \in Nat \ {0} /\ Len(items') = Len(items) - 1 /\ \A i \in 1 .. Len(items') : items'[i] = items[i + 1]
    BY <1>1, HeadTailProperties, EmptySeq
  <2>3. Head(items) = items[1] /\ 1 \in 1 .. Len(items)
    BY <2>2
  <2>4. \A i \in 1 .. Len(items') : i + 1 \in 1 .. Len(items)
    BY <2>2
  <2> QED
    BY <2>1, <2>2, <2>3, <2>4
<1> QED
  BY <1>2, <1>3 DEF Waiting

\* Steps that touch neither the queue nor what was fed, sent or lost.
LEMMA QueueKept ==
  ASSUME SpeechInv, UNCHANGED <<live, items, client, fed, sent, lost>>,
         drive' \in {"none", "open", "stream", "backoff"}, ~live => drive' = "none",
         orphans' \in Nat, drops' \in Nat, Paid'
  PROVE  SpeechInv'
<1>1. SpeechTypeOK' /\ Numbered'
  BY DEF SpeechInv, SpeechTypeOK, Numbered
<1>2. ASSUME Carried PROVE Carried'
  BY <1>2 DEF Carried, Waiting, NotLost
<1> QED
  BY <1>1, <1>2 DEF SpeechInv

\* The drive opens a stream, waits, or has its stream ended by the server.
LEMMA DriveKept ==
  ASSUME SpeechInv, StreamOpens \/ StreamDrops \/ BackoffEnds
  PROVE  SpeechInv'
<1>k. SpeechTypeOK /\ Paid /\ Len(lost) \in Nat
  BY LenProperties DEF SpeechInv, SpeechTypeOK
<1>1. CASE StreamOpens
  <2>1. /\ UNCHANGED <<live, items, client, fed, sent, lost, orphans>>
        /\ drive' \in {"stream", "backoff"} /\ (drops' = drops \/ drops' = drops + 1) /\ live
    BY <1>1 DEF StreamOpens, SpeechInv
  <2>2. drops' \in Nat /\ Paid'
    BY <1>k, <2>1 DEF Paid, SpeechTypeOK
  <2>3. orphans' \in Nat
    BY <1>k, <2>1 DEF SpeechTypeOK
  <2> QED
    BY <2>1, <2>2, <2>3, QueueKept
<1>2. CASE StreamDrops
  <2>1. /\ UNCHANGED <<live, items, client, fed, sent, lost>> /\ drops' = drops + 1 /\ drive' = "backoff" /\ live
        /\ orphans' = orphans \/ orphans' = orphans + 1
    BY <1>2 DEF StreamDrops, SpeechInv
  <2>2. orphans' \in Nat
    BY <1>k, <2>1 DEF SpeechTypeOK
  <2>3. drops' \in Nat /\ Paid'
    <3>1. Len(lost) <= drops
      BY <1>k DEF Paid, SpeechTypeOK
    <3> QED
      BY <1>k, <2>1, <3>1 DEF Paid, SpeechTypeOK
  <2> QED
    BY <2>1, <2>2, <2>3, QueueKept
<1>3. CASE BackoffEnds
  <2>1. UNCHANGED <<live, items, client, fed, sent, lost, orphans, drops>> /\ drive' = "open" /\ live
    BY <1>3 DEF BackoffEnds
  <2>2. drops' \in Nat /\ Paid' /\ orphans' \in Nat
    BY <1>k, <2>1 DEF Paid, SpeechTypeOK
  <2> QED
    BY <2>1, <2>2, QueueKept
<1> QED
  BY <1>1, <1>2, <1>3

\* The generator of the stream under way takes an item.
LEMMA TakeKept == ASSUME SpeechInv, GeneratorTakes PROVE SpeechInv'
<1> DEFINE h == Head(items)
<1>1. /\ drive = "stream" /\ items # <<>> /\ items' = Tail(items)
      /\ UNCHANGED <<live, orphans, client, fed, lost, drops>>
  BY DEF GeneratorTakes
<1>2. live /\ SpeechTypeOK /\ Numbered /\ Paid /\ Carried
  BY <1>1 DEF SpeechInv
<1>3. /\ h \in Items /\ items' \in Seq(Items) /\ Waiting' \in Seq(Items) /\ h # STOP
      /\ Waiting = IF h \in Chunks THEN <<h>> \o Waiting' ELSE Waiting'
      /\ \A i \in 1 .. Len(items') : items'[i] # STOP
  BY <1>1, <1>2, TakenFromFront
<1>4. /\ h = RESTART => drive' = "open" /\ sent' = sent
      /\ h # RESTART => drive' = drive /\ sent' = Append(sent, h)
  BY <1>3 DEF GeneratorTakes
<1>5. h = RESTART \/ h \in Chunks
  BY <1>3, SpeechSets
<1> HIDE DEF h
<1>6. sent' \in Seq(Chunks) /\ sent' \o Waiting' = sent \o Waiting
  <2>1. CASE h = RESTART
    BY <1>2, <1>3, <1>4, <2>1, SpeechSets DEF SpeechTypeOK
  <2>2. CASE h \in Chunks
    <3>1. h # RESTART
      BY <2>2, SpeechSets
    <3>2. sent' = Append(sent, h) /\ Waiting = <<h>> \o Waiting'
      BY <1>3, <1>4, <2>2, <3>1
    <3>3. sent \in Seq(Chunks) /\ sent \in Seq(Items) /\ h \in Items
      BY <1>2, <1>3, SpeechSets, SeqMonotonic DEF SpeechTypeOK
    <3>4. sent' \in Seq(Chunks) /\ sent' = sent \o <<h>>
      BY <2>2, <3>2, <3>3, AppendProperties, AppendIsConcat
    <3>5. PICK u \in Seq(Items), w \in Seq(Items) : u = <<h>> /\ w = Waiting'
      <4>1. <<h>> \in Seq(Items)
        BY <3>3
      <4> QED
        BY <1>3, <4>1
    <3>6. (sent \o u) \o w = sent \o (u \o w)
      BY <3>3, ConcatAssociative
    <3> QED
      BY <3>2, <3>4, <3>5, <3>6
  <2> QED
    BY <1>5, <2>1, <2>2
<1>7. SpeechTypeOK' /\ Numbered' /\ Paid'
  <2>1. drive' \in {"none", "open", "stream", "backoff"}
    BY <1>1, <1>4
  <2> QED
    BY <1>1, <1>2, <1>3, <1>6, <2>1 DEF SpeechTypeOK, Numbered, Paid
<1>8. Carried'
  <2>1. NotLost' = NotLost
    BY <1>1 DEF NotLost
  <2>2. sent' \o Waiting' = NotLost'
    BY <1>2, <1>6, <2>1 DEF Carried
  <2> QED
    BY <1>1, <1>2, <1>3, <2>2 DEF Carried
<1> QED
  BY <1>1, <1>2, <1>7, <1>8 DEF SpeechInv

\* The generator of a stream that is gone takes an item.
LEMMA OrphanKept == ASSUME SpeechInv, OrphanTakes PROVE SpeechInv'
<1> DEFINE h == Head(items)
<1>1. /\ orphans > 0 /\ items # <<>> /\ items' = Tail(items) /\ orphans' = orphans - 1
      /\ lost' = IF h \in Chunks THEN Append(lost, h) ELSE lost
      /\ UNCHANGED <<live, drive, client, fed, sent, drops>>
  BY DEF OrphanTakes
<1>2. SpeechTypeOK /\ Numbered /\ Paid /\ (live => Carried)
  BY DEF SpeechInv
<1>3. /\ h \in Items /\ items' \in Seq(Items) /\ Waiting' \in Seq(Items)
      /\ Waiting = IF h \in Chunks THEN <<h>> \o Waiting' ELSE Waiting'
      /\ live => \A i \in 1 .. Len(items') : items'[i] # STOP
  BY <1>1, TakenFromFront
<1>4. Head(items) \in ToSet(items)
  <2>1. DOMAIN items = 1 .. Len(items) /\ Len(items) \in Nat \ {0}
    BY <1>1, <1>2, LenProperties, EmptySeq DEF SpeechTypeOK
  <2>2. Head(items) = items[1] /\ 1 \in 1 .. Len(items)
    BY <2>1
  <2> QED
    BY <2>1, <2>2 DEF ToSet
<1> HIDE DEF h
<1>5. /\ lost' \in Seq(Chunks) /\ ToSet(lost') = ToSet(lost) \cup ({h} \cap Chunks)
      /\ Len(lost') <= Len(lost) + 1 /\ Len(lost') \in Nat /\ Len(lost) \in Nat
  <2>1. lost \in Seq(Chunks) /\ Len(lost) \in Nat
    BY <1>2, LenProperties DEF SpeechTypeOK
  <2>2. CASE h \in Chunks
    BY <1>1, <2>1, <2>2, AppendProperties, AppendElements
  <2>3. CASE h \notin Chunks
    BY <1>1, <2>1, <2>3
  <2> QED
    BY <2>2, <2>3
<1>6. SpeechTypeOK' /\ Numbered'
  BY <1>1, <1>2, <1>3, <1>5 DEF SpeechTypeOK, Numbered
<1>7. Paid'
  <2>1. Len(lost) + orphans <= drops /\ orphans \in Nat /\ drops \in Nat
    BY <1>1, <1>2 DEF Paid, SpeechTypeOK
  <2>2. Len(lost') + (orphans - 1) <= drops
    BY <1>1, <1>5, <2>1
  <2> QED
    BY <1>1, <2>2 DEF Paid
<1>8. ASSUME live PROVE Carried'
  <2>1. Carried
    BY <1>2, <1>8
  <2>2. sent' \o Waiting' = NotLost'
    <3>1. CASE h \notin Chunks
      BY <1>1, <1>3, <2>1, <3>1 DEF Carried, NotLost
    <3>2. CASE h \in Chunks
      <4>1. /\ Waiting \in Seq(Chunks) /\ NotLost \in Seq(Chunks) /\ IsInjective(sent \o Waiting)
            /\ sent \o Waiting = NotLost
        BY <2>1, CarriedDistinct DEF Carried
      <4>2. PICK w \in Seq(Items) : w = Waiting'
        BY <1>3
      <4> DEFINE z == sent \o Waiting
                 u == <<h>>
                 v == u \o w
                 T == Items \ {h}
      <4>z. z = sent \o v /\ IsInjective(z) /\ NotLost = z
        BY <1>3, <3>2, <4>1, <4>2
      <4>s. sent \in Seq(Items) /\ u \in Seq(Items) /\ w \in Seq(Items)
        <5>1. sent \in Seq(Chunks) /\ Chunks \subseteq Items
          BY <1>2, SpeechSets DEF SpeechTypeOK
        <5> QED
          BY <1>3, <4>2, <5>1, SeqMonotonic
      <4>n. (\A i \in 1 .. Len(sent) : sent[i] # h) /\ (\A i \in 1 .. Len(w) : w[i] # h)
        <5>1. z = sent \o (<<h>> \o w)
          BY <4>z
        <5> HIDE DEF z
        <5> QED
          BY <1>3, <4>z, <4>s, <5>1, OnlyOnce
      <4>3. Among(sent, T) = sent /\ Among(w, T) = w
        <5>1. (\A i \in 1 .. Len(sent) : sent[i] \in T) /\ (\A i \in 1 .. Len(w) : w[i] \in T)
          BY <4>n, <4>s, ElementOfSeq
        <5> HIDE DEF T
        <5> QED
          BY <4>s, <5>1, AmongAll
      <4>4. Among(z, T) = sent \o w
        <5>1. Among(u, T) = <<>>
          BY AmongOne
        <5> HIDE DEF T, u, z
        <5>2. v \in Seq(Items) /\ Among(v, T) = Among(u, T) \o Among(w, T)
          BY <4>s, AmongConcat, ConcatProperties
        <5>3. <<>> \o w = w
          BY <4>s, ConcatEmptySeq
        <5>4. Among(v, T) = w
          BY <4>3, <5>1, <5>2, <5>3
        <5> HIDE DEF v
        <5>5. Among(sent \o v, T) = Among(sent, T) \o Among(v, T)
          <6>1. sent \in Seq(Items) /\ v \in Seq(Items)
            BY <4>s, <5>2
          <6> QED
            BY <6>1, AmongConcat
        <5> QED
          BY <4>z, <4>3, <5>4, <5>5
      <4> HIDE DEF z, T
      <4> DEFINE S == Chunks \ ToSet(lost)
                 U == Chunks \ ToSet(lost')
      <4>5. S \cap T = U
        BY <1>5, SpeechSets DEF T
      <4> HIDE DEF S, U
      <4>6. Among(Among(fed, S), T) = Among(fed, S \cap T)
        BY <1>2, AmongTwice DEF SpeechTypeOK
      <4>7. NotLost' = Among(fed, U)
        BY <1>1 DEF NotLost, U
      <4> QED
        BY <1>1, <4>2, <4>z, <4>4, <4>5, <4>6, <4>7 DEF NotLost, S
    <3> QED
      BY <3>1, <3>2
  <2>3. ToSet(lost') \subseteq ToSet(fed')
    BY <1>1, <1>4, <1>5, <2>1, CarriedDistinct DEF Carried, h
  <2> QED
    BY <1>1, <1>3, <1>8, <2>1, <2>2, <2>3 DEF Carried
<1> QED
  BY <1>1, <1>2, <1>6, <1>7, <1>8 DEF SpeechInv

\* The timer, or the stop, puts its sentinel behind the audio.
LEMMA SentinelKept ==
  ASSUME SpeechInv, TimerFires \/ SpeechStops
  PROVE  SpeechInv'
<1>k. SpeechTypeOK /\ Numbered /\ Paid
  BY DEF SpeechInv
<1>1. CASE TimerFires
  <2>1. /\ live /\ items' = Append(items, RESTART)
        /\ UNCHANGED <<live, drive, orphans, client, fed, sent, lost, drops>>
    BY <1>1 DEF TimerFires
  <2>2. Carried
    BY <2>1 DEF SpeechInv
  <2>3. /\ items \in Seq(Items) /\ RESTART \in Items /\ RESTART \notin Chunks /\ Len(items) \in Nat
    BY <1>k, SpeechSets, LenProperties DEF SpeechTypeOK
  <2>4. /\ items' \in Seq(Items) /\ Len(items') = Len(items) + 1 /\ items'[Len(items) + 1] = RESTART
        /\ \A i \in 1 .. Len(items) : items'[i] = items[i]
    BY <2>1, <2>3, AppendProperties
  <2>5. Waiting' = Waiting
    <3>1. Among(Append(items, RESTART), Chunks) =
            IF RESTART \in Chunks THEN Append(Among(items, Chunks), RESTART) ELSE Among(items, Chunks)
      BY <2>3, AmongAppend
    <3> QED
      BY <2>1, <2>3, <3>1 DEF Waiting
  <2>6. \A i \in 1 .. Len(items') : items'[i] # STOP
    <3>1. \A i \in 1 .. Len(items) + 1 : i = Len(items) + 1 \/ i \in 1 .. Len(items)
      BY <2>3
    <3> QED
      BY <2>2, <2>4, <3>1, SpeechSets DEF Carried
  <2>7. Carried'
    <3>1. sent' \o Waiting' = NotLost'
      BY <2>1, <2>2, <2>5 DEF Carried, NotLost
    <3> QED
      BY <2>1, <2>2, <2>6, <3>1 DEF Carried
  <2> QED
    BY <1>k, <2>1, <2>4, <2>7 DEF SpeechInv, SpeechTypeOK, Numbered, Paid
<1>2. CASE SpeechStops
  <2>1. /\ live' = FALSE /\ items' = Append(items, STOP) /\ drive' = "none" /\ client' = "none"
        /\ UNCHANGED <<orphans, fed, sent, lost, drops>>
    BY <1>2 DEF SpeechStops, CloseSpeech
  <2>2. items' \in Seq(Items)
    BY <1>k, <2>1, SpeechSets, AppendProperties DEF SpeechTypeOK
  <2> QED
    BY <1>k, <2>1, <2>2 DEF SpeechInv, SpeechTypeOK, Numbered, Paid
<1> QED
  BY <1>1, <1>2

LEMMA SpeechNextInv == SpeechInv /\ [SpeechNext]_speechVars => SpeechInv'
<1> SUFFICES ASSUME SpeechInv, [SpeechNext]_speechVars PROVE SpeechInv'
  OBVIOUS
<1>1. CASE UNCHANGED speechVars
  <2>1. UNCHANGED <<live, drive, items, client, fed, sent, lost, orphans, drops>>
    BY <1>1 DEF speechVars
  <2>2. /\ drive \in {"none", "open", "stream", "backoff"} /\ (~live => drive = "none")
        /\ orphans \in Nat /\ drops \in Nat /\ Paid
    BY DEF SpeechInv, SpeechTypeOK
  <2>3. Paid'
    BY <2>1, <2>2 DEF Paid
  <2> QED
    BY <2>1, <2>2, <2>3, QueueKept
<1>2. CASE SpeechNext
  BY <1>2, StartKept, FedKept, SentinelKept, DriveKept, TakeKept, OrphanKept DEF SpeechNext
<1> QED
  BY <1>1, <1>2

\* The safety half of AudioIsHeard (google_speech_v2.py): across planned restarts, dropped
\* streams and sessions, what was fed is sent once and in order or waits, but for one chunk
\* at most for each dropped stream, and a session begins with an empty queue and an open
\* client.
THEOREM AudioIsCarriedOver == SpeechSpec => [](AudioCarriesOver /\ SessionIsFresh)
BY SpeechInitInv, SpeechNextInv, CarriedIsExact, PTL DEF SpeechSpec

----------------------------------------------------------------------------
(* Local Whisper: every word becomes final once.                           *)
(*                                                                         *)
(* The window is a run of consecutive words, and the last hypothesis a run *)
(* of the words it was transcribed from, of which only the last may be     *)
(* misheard; the finals are the words from the first of the utterance up   *)
(* to the last confirmed one.  When the window was trimmed, the overlap of *)
(* the last hypothesis with the new one is all of it but its first word,   *)
(* so that the confirmed words are found again where they are.             *)

\* The word the window begins with, and the one the last transcription begins with: a
\* trimmed window has lost one more.
Oldest == spoken - Len(window) + 1
HeardFrom == IF hypothesis.rebase THEN Oldest - 1 ELSE Oldest

\* tokens are the words from `from` on; the last of them may be misheard.
Says(tokens, from) ==
  /\ tokens \in Seq(Int)
  /\ \A i \in 1 .. Len(tokens) : Word(tokens[i]) = from + i - 1
  /\ \A i \in 1 .. Len(tokens) - 1 : tokens[i] = from + i - 1

\* tail is the words from `from` up to the one before `to`.
Finals(tail, from, to) ==
  /\ tail \in Seq(Int) /\ from + Len(tail) = to
  /\ \A i \in 1 .. Len(tail) : Word(tail[i]) = from + i - 1

HypothesisIs(hyp) ==
  /\ hyp = [prev |-> hyp.prev, confirmed |-> hyp.confirmed, rebase |-> hyp.rebase]
  /\ hyp.prev \in Seq(Int) /\ hyp.confirmed \in 0 .. Len(hyp.prev) /\ hyp.rebase \in BOOLEAN

Anchored ==
  /\ HypothesisIs(hypothesis)
  /\ Says(hypothesis.prev, HeardFrom) /\ Len(hypothesis.prev) <= Len(window)
  /\ Finals(committed, first, HeardFrom + hypothesis.confirmed)
  /\ hypothesis.rebase => feeding.busy /\ Len(hypothesis.prev) = Len(window)
  /\ feeding.busy => feeding.audio = window /\ window # <<>> /\ ~flushing.busy
  /\ flushing.busy => flushing.audio = window /\ window # <<>>
  /\ ~feeding.busy /\ Len(window) = MaxBufferWords => Len(hypothesis.prev) = Len(window)

WhisperInv ==
  /\ spoken \in Nat /\ first \in Nat /\ first >= 1 /\ unanchored \in BOOLEAN
  /\ feeding.busy \in BOOLEAN /\ flushing.busy \in BOOLEAN
  /\ window \in Seq(Int) /\ Len(window) <= MaxBufferWords /\ Len(window) <= spoken
  /\ \A i \in 1 .. Len(window) : window[i] = Oldest + i - 1
  /\ ~unanchored => Anchored

LEMMA WhisperInvExact == WhisperInv => WordsCommittedOnce
<1> SUFFICES ASSUME WhisperInv, ~unanchored PROVE
      /\ \A i \in DOMAIN committed : Word(committed[i]) = first + i - 1
      /\ window = <<>> /\ ~flushing.busy /\ spoken >= first => Len(committed) = spoken - first + 1
  BY DEF WordsCommittedOnce
<1>1. Anchored
  BY DEF WhisperInv
<1>2. \A i \in DOMAIN committed : Word(committed[i]) = first + i - 1
  BY <1>1, LenProperties DEF Anchored, Finals
<1>3. ASSUME window = <<>> PROVE Len(committed) = spoken - first + 1
  <2>1. Len(window) = 0 /\ Oldest = spoken + 1
    BY <1>3 DEF Oldest, WhisperInv
  <2>2. ~hypothesis.rebase
    BY <1>1, <1>3 DEF Anchored
  <2>3. Len(hypothesis.prev) = 0 /\ hypothesis.confirmed = 0
    BY <1>1, <2>1, LenProperties DEF Anchored, HypothesisIs
  <2>4. first + Len(committed) = spoken + 1 + 0
    BY <1>1, <2>1, <2>2, <2>3 DEF Anchored, HeardFrom, Finals
  <2>5. Len(committed) \in Nat /\ spoken \in Nat /\ first \in Nat
    BY <1>1, LenProperties DEF Anchored, WhisperInv, Finals
  <2> QED
    BY <2>4, <2>5
<1> QED
  BY <1>2, <1>3

\* What a transcription makes of a window that says the words from `from` on.
LEMMA TranscriptSays ==
  ASSUME NEW audio \in Seq(Int), NEW from \in Nat, audio # <<>>, from >= 1,
         \A i \in 1 .. Len(audio) : audio[i] = from + i - 1,
         NEW text \in Transcripts(audio), text # <<>>
  PROVE  Says(text, from) /\ Len(text) = Len(audio)
<1> DEFINE n == Len(audio)
<1>1. n \in Nat /\ n >= 1 /\ DOMAIN audio = 1 .. n
  BY LenProperties, EmptySeq
<1>2. text = audio \/ text = [audio EXCEPT ![n] = -@]
  BY DEF Transcripts
<1>3. DOMAIN text = 1 .. n /\ \A i \in 1 .. n : text[i] = audio[i] \/ (i = n /\ text[i] = -audio[i])
  BY <1>1, <1>2, ElementOfSeq
<1> HIDE DEF n
<1>4. \A i \in 1 .. n : text[i] \in Int /\ Word(text[i]) = from + i - 1 /\ (i # n => text[i] = from + i - 1)
  <2> SUFFICES ASSUME NEW i \in 1 .. n
               PROVE  text[i] \in Int /\ Word(text[i]) = from + i - 1 /\ (i # n => text[i] = from + i - 1)
    OBVIOUS
  <2> DEFINE w == from + i - 1
             t == text[i]
  <2>0. audio[i] = w
    BY DEF n
  <2>1. w \in Nat /\ w >= 1 /\ (t = w \/ (i = n /\ t = -w))
    BY <1>1, <1>3, <2>0
  <2>2. Word(t) = IF t < 0 THEN -t ELSE t
    BY DEF Word
  <2> HIDE DEF w, t
  <2>3. t \in Int /\ Word(t) = w /\ (i # n => t = w)
    BY <2>1, <2>2
  <2> QED
    BY <2>3 DEF w, t
<1>5. text \in Seq(Int) /\ Len(text) = n
  <2>1. text \in [1 .. n -> Int]
    <3>1. text = [i \in 1 .. n |-> text[i]]
      BY <1>2, <1>3
    <3> QED
      BY <1>4, <3>1
  <2> QED
    BY <1>1, <2>1
<1> QED
  BY <1>4, <1>5, SMTT(30) DEF Says, n

LEMMA AgreementFits ==
  ASSUME NEW prev \in Seq(Int), NEW curr \in Seq(Int)
  PROVE  LocalAgreement(prev, curr) \in 0 .. Len(curr)
<1> DEFINE l == Lesser(Len(prev), Len(curr))
           agree(n) == SubSeq(prev, 1, n) = SubSeq(curr, 1, n)
           S == {n \in 0 .. l : agree(n)}
<1>1. l \in Nat /\ l <= Len(curr) /\ Len(curr) \in Nat
  BY LenProperties DEF Lesser
<1>2. agree(0)
  BY SubSeqEmpty
<1>3. LocalAgreement(prev, curr) = CHOOSE n \in 0 .. l : agree(n) /\ \A m \in n + 1 .. l : ~agree(m)
  BY DEF LocalAgreement
<1> HIDE DEF l, agree
<1>4. 0 \in S
  BY <1>1, <1>2
<1>5. \E n \in 0 .. l : n \in S /\ \A m \in n + 1 .. l : m \notin S
  <2> HIDE DEF S
  <2> QED
    BY <1>1, <1>4, GreatestExists
<1>6. \E n \in 0 .. l : agree(n) /\ \A m \in n + 1 .. l : ~agree(m)
  <2>1. PICK n \in 0 .. l : n \in S /\ \A m \in n + 1 .. l : m \notin S
    BY <1>5
  <2>2. \A m \in n + 1 .. l : m \in 0 .. l
    BY <1>1
  <2> QED
    BY <2>1, <2>2
<1>7. LocalAgreement(prev, curr) \in 0 .. l
  BY <1>3, <1>6
<1> QED
  BY <1>1, <1>7

LEMMA DropIs ==
  ASSUME NEW seq \in Seq(Int), NEW n \in 0 .. Len(seq)
  PROVE  /\ Drop(n, seq) \in Seq(Int) /\ Len(Drop(n, seq)) = Len(seq) - n
         /\ \A i \in 1 .. Len(seq) - n : Drop(n, seq)[i] = seq[n + i]
<1> DEFINE l == Len(seq)
           s == SubSeq(seq, n + 1, l)
<1>1. l \in Nat /\ n \in 0 .. l
  BY LenProperties
<1>2. n + 1 \in 1 .. l + 1 /\ l \in (n + 1) - 1 .. l
  BY <1>1
<1>3. /\ s \in Seq(Int) /\ Len(s) = (IF n + 1 <= l THEN l - (n + 1) + 1 ELSE 0)
      /\ \A i \in 1 .. l - (n + 1) + 1 : s[i] = seq[(n + 1) + i - 1]
  BY <1>2, SubSeqProperties
<1>4. Drop(n, seq) = s
  BY DEF Drop
<1> HIDE DEF s, l
<1>5. (IF n + 1 <= l THEN l - (n + 1) + 1 ELSE 0) = l - n /\ l - (n + 1) + 1 = l - n
  BY <1>1
<1>6. \A i \in 1 .. l - n : (n + 1) + i - 1 = n + i
  BY <1>1
<1> QED
  BY <1>3, <1>4, <1>5, <1>6 DEF l

\* SubSeqProperties, for what the overlap compares.
LEMMA PieceIs ==
  ASSUME NEW seq \in Seq(Int), NEW o \in Nat, NEW m \in Nat, o + m <= Len(seq)
  PROVE  /\ SubSeq(seq, o + 1, o + m) \in Seq(Int) /\ Len(SubSeq(seq, o + 1, o + m)) = m
         /\ \A i \in 1 .. m : SubSeq(seq, o + 1, o + m)[i] = seq[o + i]
<1> DEFINE l == Len(seq)
           s == SubSeq(seq, o + 1, o + m)
<1>1. l \in Nat /\ o + m <= l
  BY LenProperties
<1>2. o + 1 \in 1 .. l + 1 /\ o + m \in (o + 1) - 1 .. l
  BY <1>1
<1>3. /\ s \in Seq(Int) /\ Len(s) = (IF o + 1 <= o + m THEN (o + m) - (o + 1) + 1 ELSE 0)
      /\ \A i \in 1 .. (o + m) - (o + 1) + 1 : s[i] = seq[(o + 1) + i - 1]
  BY <1>2, SubSeqProperties
<1> HIDE DEF s, l
<1>4. (IF o + 1 <= o + m THEN (o + m) - (o + 1) + 1 ELSE 0) = m /\ (o + m) - (o + 1) + 1 = m
  BY <1>1
<1>5. \A i \in 1 .. m : (o + 1) + i - 1 = o + i
  BY <1>1
<1> QED
  BY <1>3, <1>4, <1>5 DEF s

\* A window that has lost its oldest word retains all of the last transcription but
\* that word.
LEMMA OverlapIs ==
  ASSUME NEW p \in Nat, NEW n \in Nat, n >= 1, NEW prev \in Seq(Int), NEW curr \in Seq(Int),
         Len(prev) = n, Len(curr) = n, \A i \in 1 .. n : prev[i] = p + i - 1, Says(curr, p + 1)
  PROVE  RetainedOverlap(prev, curr) = [length |-> n - 1, offset |-> 0]
<1> DEFINE at(m) == {o \in 0 .. n - m : SubSeq(curr, o + 1, o + m) = Drop(n - m, prev)}
           found == {m \in 1 .. n : at(m) # {}}
<1>1. RetainedOverlap(prev, curr) =
        IF found = {} THEN [length |-> 0, offset |-> 0]
        ELSE LET m == CHOOSE m \in found : \A k \in found : k <= m
             IN [length |-> m, offset |-> CHOOSE o \in at(m) : \A q \in at(m) : q <= o]
  <2>1. Lesser(Len(prev), Len(curr)) = n
    BY DEF Lesser
  <2> QED
    BY <2>1 DEF RetainedOverlap
<1>2. \A i \in 1 .. n : curr[i] = p + i \/ (i = n /\ curr[i] = -(p + i))
  <2> SUFFICES ASSUME NEW i \in 1 .. n PROVE curr[i] = p + i \/ (i = n /\ curr[i] = -(p + i))
    OBVIOUS
  <2> DEFINE c == curr[i]
  <2>1. c \in Int /\ Word(c) = (p + 1) + i - 1 /\ (i # n => c = (p + 1) + i - 1)
    BY ElementOfSeq DEF Says
  <2>2. Word(c) = IF c < 0 THEN -c ELSE c
    BY DEF Word
  <2> HIDE DEF c
  <2>3. c = p + i \/ (i = n /\ c = -(p + i))
    BY <2>1, <2>2
  <2> QED
    BY <2>3 DEF c
<1>3. ASSUME NEW m \in 1 .. n, NEW o \in 0 .. n - m
      PROVE  o \in at(m) <=> \A i \in 1 .. m : curr[o + i] = prev[(n - m) + i]
  <2> DEFINE a == SubSeq(curr, o + 1, o + m)
             b == Drop(n - m, prev)
  <2>1. a \in Seq(Int) /\ Len(a) = m /\ \A i \in 1 .. m : a[i] = curr[o + i]
    <3>1. m \in Nat /\ o \in Nat /\ o + m <= Len(curr)
      OBVIOUS
    <3> QED
      BY <3>1, PieceIs, ZenonT(30)
  <2>2. b \in Seq(Int) /\ Len(b) = m /\ \A i \in 1 .. m : b[i] = prev[(n - m) + i]
    <3>1. n - m \in 0 .. Len(prev) /\ Len(prev) - (n - m) = m
      OBVIOUS
    <3> QED
      BY <3>1, DropIs, ZenonT(30)
  <2>3. o \in at(m) <=> a = b
    OBVIOUS
  <2> HIDE DEF a, b, at
  <2>4. a = b <=> \A i \in 1 .. m : a[i] = b[i]
    BY <2>1, <2>2, SeqEqual
  <2> QED
    BY <2>1, <2>2, <2>3, <2>4
<1>4. \A m \in 1 .. n : at(m) \subseteq 0 .. n - m
  OBVIOUS
<1> HIDE DEF at
<1>5. at(n) = {}
  <2> SUFFICES ASSUME NEW o \in 0 .. n - n, o \in at(n) PROVE FALSE
    BY <1>4
  <2>1. o = 0 /\ 1 \in 1 .. n /\ n \in 1 .. n
    OBVIOUS
  <2>2. curr[0 + 1] = prev[(n - n) + 1]
    BY <1>3, <2>1
  <2>3. curr[1] = prev[1] /\ prev[1] = p
    BY <2>1, <2>2
  <2>4. curr[1] = p + 1 \/ curr[1] = -(p + 1)
    BY <1>2, <2>1
  <2> QED
    BY <2>3, <2>4
<1>6. CASE n = 1
  <2>1. found = {}
    BY <1>5, <1>6
  <2> QED
    BY <1>1, <1>6, <2>1
<1>7. CASE n >= 2
  <2> DEFINE m == n - 1
  <2>1. m \in 1 .. n /\ 0 \in 0 .. n - m /\ n - m = 1
    BY <1>7
  <2>2. 0 \in at(m)
    <3>1. \A i \in 1 .. m : curr[0 + i] = prev[(n - m) + i]
      <4> SUFFICES ASSUME NEW i \in 1 .. m PROVE curr[0 + i] = prev[(n - m) + i]
        OBVIOUS
      <4>1. 0 + i = i /\ (n - m) + i = 1 + i /\ i \in 1 .. n /\ i # n /\ 1 + i \in 1 .. n
        BY <2>1
      <4>2. curr[i] = p + i
        BY <1>2, <4>1
      <4>3. prev[1 + i] = p + (1 + i) - 1
        BY <4>1
      <4>4. curr[i] = prev[1 + i]
        BY <4>2, <4>3
      <4> QED
        BY <4>1, <4>4
    <3> QED
      BY <1>3, <2>1, <3>1
  <2>3. 1 \notin at(m)
    <3> SUFFICES ASSUME 1 \in at(m) PROVE FALSE
      OBVIOUS
    <3>1. 1 \in 0 .. n - m /\ 1 \in 1 .. m /\ 2 \in 1 .. n
      BY <1>7, <2>1
    <3>2. curr[1 + 1] = prev[(n - m) + 1]
      BY <1>3, <2>1, <3>1
    <3>3. curr[2] = prev[2] /\ prev[2] = p + 2 - 1
      BY <2>1, <3>1, <3>2
    <3>4. curr[2] = p + 2 \/ curr[2] = -(p + 2)
      BY <1>2, <3>1
    <3> QED
      BY <3>3, <3>4
  <2>4. at(m) = {0}
    <3>1. at(m) \subseteq 0 .. 1
      BY <1>4, <2>1
    <3> QED
      BY <2>2, <2>3, <3>1
  <2>5. m \in found /\ \A k \in found : k <= m
    BY <1>5, <2>1, <2>2
  <2> HIDE DEF found, m
  <2>6. (CHOOSE k \in found : \A j \in found : j <= k) = m
    <3>1. \A k \in found : k \in Int
      BY DEF found
    <3> QED
      BY <2>5, <3>1
  <2>7. (CHOOSE o \in at(m) : \A q \in at(m) : q <= o) = 0
    BY <2>4
  <2>8. RetainedOverlap(prev, curr) = [length |-> m, offset |-> CHOOSE o \in at(m) : \A q \in at(m) : q <= o]
    BY <1>1, <2>5, <2>6
  <2> QED
    BY <2>7, <2>8 DEF m
<1> QED
  BY <1>6, <1>7

LEMMA PieceSays ==
  ASSUME NEW p \in Nat, NEW seq, Says(seq, p), NEW o \in Nat, NEW m \in Nat, o + m <= Len(seq)
  PROVE  Finals(SubSeq(seq, o + 1, o + m), p + o, p + o + m)
<1> DEFINE piece == SubSeq(seq, o + 1, o + m)
<1>1. piece \in Seq(Int) /\ Len(piece) = m /\ \A i \in 1 .. m : piece[i] = seq[o + i]
  BY PieceIs DEF Says
<1>2. Len(seq) \in Nat
  BY LenProperties DEF Says
<1> HIDE DEF piece
<1>3. ASSUME NEW i \in 1 .. m PROVE Word(piece[i]) = p + o + i - 1
  <2>1. o + i \in 1 .. Len(seq)
    BY <1>2
  <2>2. Word(seq[o + i]) = p + (o + i) - 1
    BY <2>1 DEF Says
  <2> QED
    BY <1>1, <2>2
<1> QED
  BY <1>1, <1>3 DEF Finals, piece

LEMMA PieceEmpty ==
  ASSUME NEW seq \in Seq(Int), NEW o \in Nat, NEW m \in Int, m <= o
  PROVE  SubSeq(seq, o + 1, m) = <<>>
BY SubSeqEmpty

LEMMA NothingFinal ==
  ASSUME NEW p \in Nat
  PROVE  Finals(<<>>, p, p)
BY DEF Finals

\* A transcription commits the words between those committed before and the ones that
\* are so now, whether it agrees or is anchored to a window that was trimmed.
LEMMA EmitCarries ==
  ASSUME NEW hyp, HypothesisIs(hyp), NEW n \in Nat, n >= 1, NEW from \in Nat, from >= 1,
         NEW curr, Says(curr, from), Len(curr) = n,
         NEW p \in Nat, p = (IF hyp.rebase THEN from - 1 ELSE from),
         Says(hyp.prev, p), Len(hyp.prev) <= n,
         hyp.rebase => Len(hyp.prev) = n /\ hyp.prev[n] >= 0,
         NEW r, r = EmitPartial(hyp, curr)
  PROVE  /\ HypothesisIs(r.hyp) /\ r.hyp.prev = curr /\ ~r.hyp.rebase
         /\ Finals(r.finals, p + hyp.confirmed, from + r.hyp.confirmed)
<1> DEFINE prev == hyp.prev
           c == hyp.confirmed
<1>1. prev \in Seq(Int) /\ c \in 0 .. Len(prev) /\ Len(prev) \in Nat /\ c \in Nat /\ curr \in Seq(Int) /\ curr # <<>>
  BY LenProperties DEF HypothesisIs, Says
<1>2. CASE hyp.rebase
  <2>1. r = RebaseAfterTrim(hyp, curr)
    BY <1>1, <1>2 DEF EmitPartial
  <2>2. from = p + 1 /\ Len(prev) = n /\ Len(curr) = n /\ prev[n] >= 0 /\ Says(curr, p + 1)
    BY <1>2
  <2>3. \A i \in 1 .. n : prev[i] = p + i - 1
    <3> SUFFICES ASSUME NEW i \in 1 .. n PROVE prev[i] = p + i - 1
      OBVIOUS
    <3>1. i # n => i \in 1 .. Len(prev) - 1
      BY <2>2
    <3>2. CASE i # n
      BY <3>1, <3>2 DEF Says
    <3>3. CASE i = n
      <4> DEFINE w == prev[n]
      <4>1. n \in 1 .. Len(prev) /\ w \in Int /\ w >= 0
        BY <1>1, <2>2, ElementOfSeq
      <4>2. Word(w) = p + n - 1
        BY <4>1 DEF Says
      <4> HIDE DEF w
      <4>3. w = p + n - 1
        BY <4>1, <4>2 DEF Word
      <4> QED
        BY <3>3, <4>3 DEF w
    <3> QED
      BY <3>2, <3>3
  <2>4. RetainedOverlap(prev, curr) = [length |-> n - 1, offset |-> 0]
    BY <1>1, <2>2, <2>3, OverlapIs, ZenonT(30)
  <2> DEFINE d == IF c > 1 THEN c - 1 ELSE 0
  <2>5. r = Result([prev |-> curr, confirmed |-> d, rebase |-> FALSE], SubSeq(prev, c + 1, 1))
    <3> DEFINE o == RetainedOverlap(prev, curr)
               start == Len(prev) - o.length
               survivors == Lesser(IF c > start THEN c - start ELSE 0, o.length)
    <3>1. RebaseAfterTrim(hyp, curr) =
            Result([prev |-> curr, confirmed |-> o.offset + survivors, rebase |-> FALSE], SubSeq(prev, c + 1, start))
      BY DEF RebaseAfterTrim
    <3>2. o.length = n - 1 /\ o.offset = 0
      BY <2>4
    <3> HIDE DEF o
    <3>3. start = 1
      BY <2>2, <3>2
    <3> HIDE DEF start
    <3>4. survivors = d
      BY <1>1, <2>2, <3>2, <3>3 DEF Lesser
    <3> HIDE DEF survivors, d
    <3>5. d \in Nat
      BY <1>1 DEF d
    <3>6. o.offset + survivors = d
      BY <3>2, <3>4, <3>5
    <3> QED
      BY <2>1, <3>1, <3>3, <3>6
  <2>6. r.hyp = [prev |-> curr, confirmed |-> d, rebase |-> FALSE] /\ r.finals = SubSeq(prev, c + 1, 1)
    <3> DEFINE h == [prev |-> curr, confirmed |-> d, rebase |-> FALSE]
               q == SubSeq(prev, c + 1, 1)
    <3>1. r = Result(h, q)
      BY <2>5
    <3> HIDE DEF h, q
    <3>2. r.hyp = h /\ r.finals = q
      BY <3>1 DEF Result
    <3> QED
      BY <3>2 DEF h, q
  <2>7. d \in 0 .. Len(curr)
    BY <1>1, <2>2
  <2>8. Finals(r.finals, p + c, from + d)
    <3>1. CASE c = 0
      <4>1. SubSeq(prev, c + 1, 1) = SubSeq(prev, 0 + 1, 0 + 1)
        BY <3>1
      <4>2. Finals(SubSeq(prev, 0 + 1, 0 + 1), p + 0, p + 0 + 1)
        <5>1. 0 + 1 <= Len(prev)
          BY <2>2
        <5> QED
          BY <5>1, PieceSays
      <4>3. p + 0 = p + c /\ p + 0 + 1 = from + d
        BY <2>2, <3>1
      <4> QED
        BY <2>6, <4>1, <4>2, <4>3
    <3>2. CASE c # 0
      <4>1. SubSeq(prev, c + 1, 1) = <<>>
        BY <1>1, <3>2, PieceEmpty
      <4>2. p + c \in Nat /\ from + d = p + c
        <5> DEFINE k == c
        <5>1. k \in Nat /\ k # 0 /\ from = p + 1 /\ d = (IF k > 1 THEN k - 1 ELSE 0)
          BY <1>1, <2>2, <3>2
        <5> HIDE DEF k, d
        <5>2. d = k - 1
          BY <5>1
        <5>3. p + k \in Nat /\ from + d = p + k
          BY <5>1, <5>2
        <5> QED
          BY <5>3 DEF k
      <4> QED
        BY <2>6, <4>1, <4>2, NothingFinal
    <3> QED
      BY <3>1, <3>2
  <2> HIDE DEF d
  <2> QED
    BY <1>1, <2>6, <2>7, <2>8 DEF HypothesisIs
<1>3. CASE ~hyp.rebase
  <2> DEFINE agreed == LocalAgreement(prev, curr)
             upTo == IF agreed > c THEN agreed ELSE c
  <2>1. r = Agree(hyp, curr)
    BY <1>1, <1>3 DEF EmitPartial
  <2>2. r.hyp = [prev |-> curr, confirmed |-> upTo, rebase |-> FALSE] /\ r.finals = SubSeq(curr, c + 1, agreed)
    <3> DEFINE h == [prev |-> curr, confirmed |-> upTo, rebase |-> FALSE]
               q == SubSeq(curr, c + 1, agreed)
    <3>1. r = Result(h, q)
      BY <2>1 DEF Agree
    <3> HIDE DEF h, q
    <3>2. r.hyp = h /\ r.finals = q
      BY <3>1 DEF Result
    <3> QED
      BY <3>2 DEF h, q
  <2>3. agreed \in 0 .. n
    BY <1>1, AgreementFits
  <2>4. p = from
    BY <1>3
  <2> HIDE DEF agreed
  <2>5. upTo \in 0 .. n
    BY <1>1, <2>3
  <2>6. Finals(r.finals, p + c, from + upTo)
    <3>1. CASE agreed > c
      <4> DEFINE m == agreed - c
      <4>1. m \in Nat /\ c + m = agreed /\ c + m <= Len(curr) /\ from + c + m = from + upTo
        BY <1>1, <2>3, <3>1
      <4>2. Finals(SubSeq(curr, c + 1, c + m), from + c, from + c + m)
        BY <1>1, <4>1, PieceSays
      <4> QED
        BY <2>2, <2>4, <4>1, <4>2
    <3>2. CASE ~(agreed > c)
      <4>1. SubSeq(curr, c + 1, agreed) = <<>> /\ upTo = c /\ from + c \in Nat
        <5>1. agreed \in Int /\ agreed <= c
          BY <1>1, <2>3, <3>2
        <5> QED
          BY <1>1, <3>2, <5>1, PieceEmpty
      <4> QED
        BY <2>2, <2>4, <4>1, NothingFinal
    <3> QED
      BY <3>1, <3>2
  <2> HIDE DEF upTo
  <2> QED
    BY <1>1, <2>2, <2>5, <2>6 DEF HypothesisIs
<1> QED
  BY <1>2, <1>3

\* Commitments one after the other.
LEMMA FinalsJoin ==
  ASSUME NEW a \in Nat, NEW b \in Nat, NEW c \in Nat, NEW s, NEW t, Finals(s, a, b), Finals(t, b, c)
  PROVE  Finals(s \o t, a, c)
<1>1. s \in Seq(Int) /\ t \in Seq(Int) /\ Len(s) \in Nat /\ Len(t) \in Nat /\ a + Len(s) = b /\ b + Len(t) = c
  BY LenProperties DEF Finals
<1>2. /\ s \o t \in Seq(Int) /\ Len(s \o t) = Len(s) + Len(t)
      /\ \A i \in 1 .. Len(s) + Len(t) : (s \o t)[i] = IF i <= Len(s) THEN s[i] ELSE t[i - Len(s)]
  BY <1>1, ConcatProperties
<1>3. ASSUME NEW i \in 1 .. Len(s) + Len(t) PROVE Word((s \o t)[i]) = a + i - 1
  <2>1. CASE i <= Len(s)
    <3>1. i \in 1 .. Len(s) /\ (s \o t)[i] = s[i]
      BY <1>1, <1>2, <2>1
    <3> QED
      BY <3>1 DEF Finals
  <2>2. CASE ~(i <= Len(s))
    <3>1. i - Len(s) \in 1 .. Len(t) /\ (s \o t)[i] = t[i - Len(s)]
      BY <1>1, <1>2, <2>2
    <3>2. Word(t[i - Len(s)]) = b + (i - Len(s)) - 1
      BY <3>1 DEF Finals
    <3> DEFINE w == Word(t[i - Len(s)])
               k == Len(s)
    <3>3. w = b + (i - k) - 1 /\ a + k = b /\ k \in Nat
      BY <1>1, <3>2
    <3> HIDE DEF w, k
    <3>4. w = a + i - 1
      BY <3>3
    <3> QED
      BY <3>1, <3>4 DEF w
  <2> QED
    BY <2>1, <2>2
<1> QED
  BY <1>1, <1>2, <1>3 DEF Finals

LEMMA WhisperInitInv == WhisperInit => WhisperInv
<1> SUFFICES ASSUME WhisperInit PROVE WhisperInv
  OBVIOUS
<1>1. /\ window = <<>> /\ hypothesis = NoHypothesis /\ feeding = Resting /\ flushing = Resting
      /\ committed = <<>> /\ spoken = 0 /\ first = 1 /\ unanchored = FALSE
  BY DEF WhisperInit
<1>2. /\ hypothesis.prev = <<>> /\ hypothesis.confirmed = 0 /\ ~hypothesis.rebase /\ HypothesisIs(hypothesis)
      /\ ~feeding.busy /\ ~flushing.busy /\ feeding.busy \in BOOLEAN /\ flushing.busy \in BOOLEAN
  BY <1>1 DEF NoHypothesis, HypothesisIs, Resting
<1>3. window \in Seq(Int) /\ Len(window) = 0 /\ Oldest = 1 /\ HeardFrom = 1
  BY <1>1, <1>2 DEF Oldest, HeardFrom
<1>4. Says(hypothesis.prev, HeardFrom) /\ Finals(committed, first, HeardFrom + hypothesis.confirmed)
  BY <1>1, <1>2, <1>3 DEF Says, Finals
<1>5. MaxBufferWords \in Nat /\ MaxBufferWords # 0
  BY WhisperAssumption
<1>6. Anchored
  <2>1. Len(window) # MaxBufferWords /\ Len(hypothesis.prev) <= Len(window)
    BY <1>2, <1>3, <1>5
  <2> QED
    BY <1>2, <1>4, <2>1 DEF Anchored
<1>7. Len(window) <= MaxBufferWords /\ Len(window) <= spoken /\ \A i \in 1 .. Len(window) : window[i] = Oldest + i - 1
  BY <1>1, <1>3, <1>5
<1>8. spoken \in Nat /\ first \in Nat /\ first >= 1
  BY <1>1
<1>9. unanchored \in BOOLEAN
  BY <1>1, Zenon
<1> QED
  BY <1>2, <1>3, <1>6, <1>7, <1>8, <1>9 DEF WhisperInv

\* What the invariant says of the window alone.
LEMMA WindowFacts ==
  ASSUME WhisperInv
  PROVE  /\ Len(window) \in Nat /\ Len(window) <= MaxBufferWords /\ Len(window) <= spoken /\ spoken \in Nat
         /\ MaxBufferWords \in Nat /\ MaxBufferWords >= 1
         /\ Oldest \in Nat /\ Oldest >= 1 /\ HeardFrom \in Nat /\ Oldest = spoken - Len(window) + 1
         /\ window \in Seq(Int) /\ (window = <<>> <=> Len(window) = 0)
BY LenProperties, EmptySeq, WhisperAssumption DEF WhisperInv, Oldest, HeardFrom

LEMMA FeedKept ==
  ASSUME WhisperInv, NEW due \in BOOLEAN, Feed(due)
  PROVE  WhisperInv'
<1> DEFINE k == Len(window)
           grown == Append(window, spoken + 1)
           excess == Len(grown) - MaxBufferWords
           from == Oldest
<1>1. /\ k \in Nat /\ k <= MaxBufferWords /\ k <= spoken /\ spoken \in Nat /\ MaxBufferWords \in Nat
      /\ MaxBufferWords >= 1 /\ from \in Nat /\ from >= 1 /\ from = spoken - k + 1 /\ window \in Seq(Int)
  BY WindowFacts
<1>2. /\ ~feeding.busy /\ spoken' = spoken + 1
      /\ window' = (IF excess > 0 THEN Drop(excess, grown) ELSE grown)
      /\ hypothesis' = [hypothesis EXCEPT !.rebase = @ \/ excess > 0]
      /\ due \/ excess < 0
      /\ feeding' = (IF due THEN Transcribing(window') ELSE feeding)
      /\ unanchored' = (unanchored \/ flushing.busy)
      /\ flushing' = flushing /\ committed' = committed /\ first' = first
  BY DEF Feed, MayFeed
<1>3. /\ grown \in Seq(Int) /\ Len(grown) = k + 1
      /\ \A i \in 1 .. k + 1 : grown[i] = from + i - 1
  <2>1. spoken + 1 \in Int /\ spoken + 1 = from + (k + 1) - 1
    BY <1>1
  <2>2. /\ grown \in Seq(Int) /\ Len(grown) = k + 1 /\ grown[k + 1] = spoken + 1
        /\ \A i \in 1 .. k : grown[i] = window[i]
    BY <1>1, <2>1, AppendProperties
  <2>3. \A i \in 1 .. k : window[i] = from + i - 1
    BY DEF WhisperInv
  <2> HIDE DEF grown, k, from
  <2> QED
    BY <1>1, <2>1, <2>2, <2>3
<1>4. excess \in Int /\ excess = k + 1 - MaxBufferWords
  BY <1>1, <1>3
<1> HIDE DEF grown, excess
<1>5. /\ window' \in Seq(Int) /\ Len(window') = (IF excess > 0 THEN MaxBufferWords ELSE k + 1)
      /\ \A i \in 1 .. Len(window') : window'[i] = (IF excess > 0 THEN from + i ELSE from + i - 1)
  <2>1. CASE excess > 0
    <3>1. excess = 1 /\ k = MaxBufferWords /\ excess \in 0 .. Len(grown)
      BY <1>1, <1>3, <1>4, <2>1
    <3>2. /\ Drop(excess, grown) \in Seq(Int) /\ Len(Drop(excess, grown)) = Len(grown) - excess
          /\ \A i \in 1 .. Len(grown) - excess : Drop(excess, grown)[i] = grown[excess + i]
      BY <1>3, <3>1, DropIs
    <3>3. window' = Drop(excess, grown) /\ Len(grown) - excess = MaxBufferWords
      BY <1>1, <1>2, <1>3, <2>1, <3>1
    <3>4. ASSUME NEW i \in 1 .. MaxBufferWords PROVE window'[i] = from + i
      <4>1. 1 + i \in 1 .. k + 1 /\ window'[i] = grown[1 + i]
        <5>1. i \in 1 .. Len(grown) - excess /\ excess + i = 1 + i /\ 1 + i \in 1 .. k + 1
          <6> HIDE DEF k, from
          <6> QED
            BY <1>1, <3>1, <3>3
        <5> QED
          BY <3>2, <3>3, <5>1
      <4>2. grown[1 + i] = from + (1 + i) - 1
        BY <1>3, <4>1
      <4> QED
        BY <1>1, <4>1, <4>2
    <3> QED
      BY <2>1, <3>2, <3>3, <3>4
  <2>2. CASE ~(excess > 0)
    BY <1>2, <1>3, <2>2
  <2> QED
    BY <2>1, <2>2
<1>6. Oldest' = (IF excess > 0 THEN from + 1 ELSE from)
  <2>1. Oldest' = (spoken + 1) - Len(window') + 1
    BY <1>2 DEF Oldest
  <2> HIDE DEF k, from
  <2> QED
    BY <1>1, <1>4, <1>5, <2>1
<1>7. /\ \A i \in 1 .. Len(window') : window'[i] = Oldest' + i - 1
      /\ Len(window') <= MaxBufferWords /\ Len(window') <= spoken' /\ spoken' \in Nat
      /\ Len(window') >= 1 /\ Len(window') >= k
  <2>1. ASSUME NEW i \in 1 .. Len(window') PROVE window'[i] = Oldest' + i - 1
    <3> HIDE DEF from
    <3>1. i \in Int
      BY <1>1, <1>5
    <3>2. CASE excess > 0
      BY <1>1, <1>5, <1>6, <3>1, <3>2
    <3>3. CASE ~(excess > 0)
      BY <1>1, <1>5, <1>6, <3>1, <3>3
    <3> QED
      BY <3>2, <3>3
  <2>2. /\ Len(window') <= MaxBufferWords /\ Len(window') <= spoken' /\ spoken' \in Nat
        /\ Len(window') >= 1 /\ Len(window') >= k
    <3> DEFINE l == Len(window')
               m == MaxBufferWords
    <3>1. /\ l = (IF excess > 0 THEN m ELSE k + 1) /\ excess = k + 1 - m /\ spoken' = spoken + 1
          /\ k \in Nat /\ k <= m /\ k <= spoken /\ spoken \in Nat /\ m \in Nat /\ m >= 1
      BY <1>1, <1>2, <1>4, <1>5
    <3> HIDE DEF from, k, l, m
    <3>2. l <= m /\ l <= spoken' /\ spoken' \in Nat /\ l >= 1 /\ l >= k
      BY <3>1
    <3> QED
      BY <3>2 DEF l, m
  <2> QED
    BY <2>1, <2>2
<1>8. unanchored' \in BOOLEAN /\ feeding'.busy \in BOOLEAN /\ flushing'.busy \in BOOLEAN
      /\ first' \in Nat /\ first' >= 1
  BY <1>2 DEF WhisperInv, Transcribing
<1>9. ASSUME ~unanchored' PROVE Anchored'
  <2>1. ~flushing.busy /\ Anchored
    BY <1>2, <1>9 DEF WhisperInv
  <2>2. ~hypothesis.rebase /\ HeardFrom = from
    BY <1>2, <2>1 DEF Anchored, HeardFrom
  <2>3. /\ hypothesis'.prev = hypothesis.prev /\ hypothesis'.confirmed = hypothesis.confirmed
        /\ (hypothesis'.rebase <=> excess > 0) /\ HypothesisIs(hypothesis')
    <3>1. HypothesisIs(hypothesis)
      BY <2>1 DEF Anchored
    <3>2. /\ hypothesis'.prev = hypothesis.prev /\ hypothesis'.confirmed = hypothesis.confirmed
          /\ hypothesis'.rebase = (hypothesis.rebase \/ excess > 0)
          /\ hypothesis' = [prev |-> hypothesis'.prev, confirmed |-> hypothesis'.confirmed,
                            rebase |-> hypothesis'.rebase]
      BY <1>2, <3>1 DEF HypothesisIs
    <3> QED
      BY <2>2, <3>1, <3>2 DEF HypothesisIs
  <2>4. HeardFrom' = HeardFrom
    <3>1. HeardFrom' = IF excess > 0 THEN Oldest' - 1 ELSE Oldest'
      BY <2>3 DEF HeardFrom
    <3> HIDE DEF from
    <3> QED
      BY <1>1, <1>6, <2>2, <3>1
  <2>5. Says(hypothesis'.prev, HeardFrom') /\ Finals(committed', first', HeardFrom' + hypothesis'.confirmed)
    BY <1>2, <2>1, <2>3, <2>4 DEF Anchored
  <2>6. Len(hypothesis'.prev) <= Len(window')
    <3>1. Len(hypothesis.prev) \in Nat /\ Len(hypothesis.prev) <= k /\ Len(window') \in Nat
      BY <1>5, <2>1, LenProperties DEF Anchored, Says
    <3> QED
      BY <1>1, <1>7, <2>3, <3>1
  <2>7. excess > 0 => due /\ Len(hypothesis'.prev) = Len(window')
    <3> SUFFICES ASSUME excess > 0 PROVE due /\ Len(hypothesis'.prev) = Len(window')
      OBVIOUS
    <3>1. due
      BY <1>2, <1>4
    <3>2. k = MaxBufferWords
      BY <1>1, <1>4
    <3>3. Len(hypothesis.prev) = k
      BY <1>2, <2>1, <3>2 DEF Anchored
    <3> QED
      BY <1>5, <2>3, <3>1, <3>2, <3>3
  <2>8. due => feeding'.busy /\ feeding'.audio = window'
    BY <1>2 DEF Transcribing
  <2>9. ~due => ~feeding'.busy /\ Len(window') # MaxBufferWords
    <3> SUFFICES ASSUME ~due PROVE ~feeding'.busy /\ Len(window') # MaxBufferWords
      OBVIOUS
    <3>1. excess < 0 /\ Len(window') = k + 1
      BY <1>2, <1>4, <1>5
    <3> QED
      BY <1>1, <1>2, <1>4, <3>1
  <2>10. window' # <<>> /\ ~flushing'.busy
    BY <1>2, <1>5, <1>7, <2>1, EmptySeq
  <2> QED
    BY <2>3, <2>5, <2>6, <2>7, <2>8, <2>9, <2>10 DEF Anchored
<1> QED
  BY <1>5, <1>7, <1>8, <1>9 DEF WhisperInv

\* What either transcription makes of the window, when it loses no anchor.
LEMMA TranscribedCarries ==
  ASSUME WhisperInv, Anchored, window # <<>>, NEW text \in Transcripts(window), ~LosesAnchor(text),
         NEW r, r = EmitPartial(hypothesis, text)
  PROVE  /\ HypothesisIs(r.hyp) /\ ~r.hyp.rebase /\ Says(r.hyp.prev, Oldest) /\ Len(r.hyp.prev) = Len(window)
         /\ Finals(committed \o r.finals, first, Oldest + r.hyp.confirmed)
<1> DEFINE n == Len(window)
<1>1. /\ n \in Nat /\ n >= 1 /\ Oldest \in Nat /\ Oldest >= 1 /\ HeardFrom \in Nat /\ window \in Seq(Int)
      /\ \A i \in 1 .. n : window[i] = Oldest + i - 1
  BY WindowFacts DEF WhisperInv
<1>2. text # <<>> /\ Says(text, Oldest) /\ Len(text) = n
  <2>1. text # <<>>
    BY DEF LosesAnchor
  <2> QED
    BY <1>1, <2>1, TranscriptSays
<1>3. /\ HypothesisIs(hypothesis) /\ Says(hypothesis.prev, HeardFrom) /\ Len(hypothesis.prev) <= n
      /\ HeardFrom = IF hypothesis.rebase THEN Oldest - 1 ELSE Oldest
  BY DEF Anchored, HeardFrom
<1>4. hypothesis.rebase => Len(hypothesis.prev) = n /\ hypothesis.prev[n] >= 0
  <2> SUFFICES ASSUME hypothesis.rebase PROVE Len(hypothesis.prev) = n /\ hypothesis.prev[n] >= 0
    OBVIOUS
  <2>1. Len(hypothesis.prev) = n
    BY DEF Anchored
  <2>2. hypothesis.prev # <<>> /\ hypothesis.prev[n] \in Int
    BY <1>1, <1>3, <2>1, ElementOfSeq, EmptySeq DEF Says
  <2>3. ~(hypothesis.prev[n] < 0)
    BY <2>1, <2>2 DEF LosesAnchor
  <2> DEFINE w == hypothesis.prev[n]
  <2>4. w \in Int /\ ~(w < 0)
    BY <2>2, <2>3
  <2> HIDE DEF w
  <2>5. w >= 0
    BY <2>4
  <2> QED
    BY <2>1, <2>5 DEF w
<1> HIDE DEF n
<1>5. /\ HypothesisIs(r.hyp) /\ r.hyp.prev = text /\ ~r.hyp.rebase
      /\ Finals(r.finals, HeardFrom + hypothesis.confirmed, Oldest + r.hyp.confirmed)
  <2> DEFINE hyp == hypothesis
             from == Oldest
             p == HeardFrom
  <2>1. /\ HypothesisIs(hyp) /\ from \in Nat /\ from >= 1 /\ Says(text, from) /\ Len(text) = n /\ p \in Nat
        /\ p = (IF hyp.rebase THEN from - 1 ELSE from) /\ Says(hyp.prev, p) /\ Len(hyp.prev) <= n
        /\ n \in Nat /\ n >= 1 /\ r = EmitPartial(hyp, text)
    BY <1>1, <1>2, <1>3
  <2>2. hyp.rebase => Len(hyp.prev) = n /\ hyp.prev[n] >= 0
    BY <1>4
  <2> HIDE DEF hyp, from, p
  <2>3. /\ HypothesisIs(r.hyp) /\ r.hyp.prev = text /\ ~r.hyp.rebase
        /\ Finals(r.finals, p + hyp.confirmed, from + r.hyp.confirmed)
    BY <2>1, <2>2, EmitCarries
  <2> QED
    BY <2>3 DEF hyp, from, p
<1>6. Finals(committed, first, HeardFrom + hypothesis.confirmed)
  BY DEF Anchored
<1>7. first \in Nat /\ HeardFrom + hypothesis.confirmed \in Nat /\ Oldest + r.hyp.confirmed \in Nat
  <2>1. first \in Nat
    BY DEF WhisperInv
  <2>2. hypothesis.confirmed \in Nat /\ r.hyp.confirmed \in Nat
    BY <1>3, <1>5, LenProperties DEF HypothesisIs
  <2> QED
    BY <1>1, <2>1, <2>2, SMTT(30)
<1>8. Finals(committed \o r.finals, first, Oldest + r.hyp.confirmed)
  BY <1>5, <1>6, <1>7, FinalsJoin
<1> QED
  BY <1>2, <1>5, <1>8 DEF n

LEMMA FeedTranscribedKept == ASSUME WhisperInv, FeedTranscribed PROVE WhisperInv'
<1>1. /\ feeding.busy /\ feeding' = Resting /\ window' = window /\ flushing' = flushing
      /\ spoken' = spoken /\ first' = first
  BY DEF FeedTranscribed
<1>2. PICK text \in Transcripts(feeding.audio) :
        /\ hypothesis' = EmitPartial(hypothesis, text).hyp
        /\ committed' = committed \o EmitPartial(hypothesis, text).finals
        /\ unanchored' = (unanchored \/ LosesAnchor(text) \/ window = <<>>)
  BY DEF FeedTranscribed
<1>3. Oldest' = Oldest /\ ~feeding'.busy /\ feeding'.busy \in BOOLEAN
  BY <1>1 DEF Oldest, Resting
<1>4. ASSUME ~unanchored' PROVE Anchored'
  <2>1. Anchored /\ ~LosesAnchor(text) /\ window # <<>> /\ feeding.audio = window /\ ~flushing.busy
    BY <1>1, <1>2, <1>4 DEF WhisperInv, Anchored
  <2> DEFINE r == EmitPartial(hypothesis, text)
  <2>2. text \in Transcripts(window)
    BY <2>1
  <2>3. hypothesis' = r.hyp /\ committed' = committed \o r.finals
    BY <1>2
  <2>4. r = EmitPartial(hypothesis, text)
    OBVIOUS
  <2> HIDE DEF r
  <2>5. /\ HypothesisIs(r.hyp) /\ ~r.hyp.rebase /\ Says(r.hyp.prev, Oldest) /\ Len(r.hyp.prev) = Len(window)
        /\ Finals(committed \o r.finals, first, Oldest + r.hyp.confirmed)
    BY <2>1, <2>2, <2>4, TranscribedCarries
  <2>6. HeardFrom' = Oldest
    BY <1>3, <2>3, <2>5 DEF HeardFrom
  <2>7. Len(window) \in Nat
    BY WindowFacts
  <2> QED
    BY <1>1, <1>3, <2>1, <2>3, <2>5, <2>6, <2>7 DEF Anchored
<1>5. unanchored' \in BOOLEAN
  BY <1>2
<1> QED
  BY <1>1, <1>3, <1>4, <1>5 DEF WhisperInv

LEMMA FlushNothingKept == ASSUME WhisperInv, FlushNothing PROVE WhisperInv'
<1>1. /\ window = <<>> /\ hypothesis' = NoHypothesis /\ window' = window /\ feeding' = feeding
      /\ flushing' = flushing /\ committed' = committed /\ spoken' = spoken /\ first' = first
      /\ unanchored' = unanchored
  BY DEF FlushNothing
<1>2. Oldest' = Oldest
  BY <1>1 DEF Oldest
<1>3. ASSUME ~unanchored PROVE Anchored'
  <2>1. Anchored
    BY <1>3 DEF WhisperInv
  <2>2. ~feeding.busy /\ ~flushing.busy /\ ~hypothesis.rebase /\ HeardFrom = Oldest
    BY <1>1, <2>1 DEF Anchored, HeardFrom
  <2>3. Len(window) = 0 /\ Oldest \in Nat /\ MaxBufferWords >= 1 /\ MaxBufferWords \in Nat
    BY <1>1, WindowFacts
  <2>4. hypothesis.confirmed = 0
    BY <2>1, <2>3, LenProperties DEF Anchored, HypothesisIs
  <2>5. /\ HypothesisIs(hypothesis') /\ hypothesis'.prev = <<>> /\ hypothesis'.confirmed = 0
        /\ ~hypothesis'.rebase /\ HeardFrom' = Oldest
    BY <1>1, <1>2 DEF NoHypothesis, HypothesisIs, HeardFrom
  <2>6. Says(hypothesis'.prev, HeardFrom')
    BY <2>5 DEF Says
  <2>7. Finals(committed', first', HeardFrom' + hypothesis'.confirmed)
    BY <1>1, <2>1, <2>2, <2>4, <2>5 DEF Anchored
  <2>8. Len(window') # MaxBufferWords /\ Len(hypothesis'.prev) <= Len(window')
    BY <1>1, <2>3, <2>5
  <2> QED
    BY <1>1, <2>2, <2>5, <2>6, <2>7, <2>8 DEF Anchored
<1> QED
  BY <1>1, <1>2, <1>3 DEF WhisperInv

LEMMA FlushKept == ASSUME WhisperInv, Flush PROVE WhisperInv'
<1>1. /\ ~flushing.busy /\ window # <<>> /\ flushing' = Transcribing(window)
      /\ unanchored' = (unanchored \/ feeding.busy)
      /\ window' = window /\ hypothesis' = hypothesis /\ feeding' = feeding /\ committed' = committed
      /\ spoken' = spoken /\ first' = first
  BY DEF Flush
<1>2. Oldest' = Oldest /\ HeardFrom' = HeardFrom
  BY <1>1 DEF Oldest, HeardFrom
<1>3. flushing'.busy /\ flushing'.busy \in BOOLEAN /\ flushing'.audio = window
  BY <1>1 DEF Transcribing
<1>4. ASSUME ~unanchored' PROVE Anchored'
  <2>1. Anchored /\ ~feeding.busy
    BY <1>1, <1>4 DEF WhisperInv
  <2> QED
    BY <1>1, <1>2, <1>3, <2>1 DEF Anchored
<1> QED
  BY <1>1, <1>2, <1>3, <1>4 DEF WhisperInv

LEMMA FlushTranscribedKept == ASSUME WhisperInv, FlushTranscribed PROVE WhisperInv'
<1>1. /\ flushing.busy /\ flushing' = Resting /\ window' = <<>> /\ hypothesis' = NoHypothesis
      /\ feeding' = feeding /\ spoken' = spoken /\ first' = first
  BY DEF FlushTranscribed
<1>2. PICK text \in Transcripts(flushing.audio) :
        /\ committed' = committed \o EmitPartial(hypothesis, text).finals
                          \o Drop(EmitPartial(hypothesis, text).hyp.confirmed, EmitPartial(hypothesis, text).hyp.prev)
        /\ unanchored' = (unanchored \/ LosesAnchor(text) \/ feeding.busy \/ Len(window) # Len(flushing.audio))
  BY DEF FlushTranscribed
<1>3. /\ Len(window) \in Nat /\ spoken \in Nat /\ Oldest \in Nat /\ Oldest >= 1 /\ Oldest = spoken - Len(window) + 1
      /\ MaxBufferWords \in Nat /\ MaxBufferWords >= 1
  BY WindowFacts
<1>4. window' \in Seq(Int) /\ Len(window') = 0 /\ Oldest' = spoken + 1
  BY <1>1, <1>3 DEF Oldest
<1>5. ~flushing'.busy /\ flushing'.busy \in BOOLEAN
  BY <1>1 DEF Resting
<1>6. ASSUME ~unanchored' PROVE Anchored'
  <2>1. Anchored /\ ~LosesAnchor(text) /\ ~feeding.busy /\ flushing.audio = window /\ window # <<>>
    BY <1>1, <1>2, <1>6 DEF WhisperInv, Anchored
  <2> DEFINE r == EmitPartial(hypothesis, text)
             c == r.hyp.confirmed
             n == Len(window)
             rest == Drop(c, r.hyp.prev)
  <2>2. text \in Transcripts(window)
    BY <2>1
  <2>3. committed' = (committed \o r.finals) \o rest
    BY <1>2
  <2>4. r = EmitPartial(hypothesis, text)
    OBVIOUS
  <2> HIDE DEF r
  <2>5. /\ HypothesisIs(r.hyp) /\ ~r.hyp.rebase /\ Says(r.hyp.prev, Oldest) /\ Len(r.hyp.prev) = n
        /\ Finals(committed \o r.finals, first, Oldest + c)
    BY <2>1, <2>2, <2>4, TranscribedCarries
  <2>6. c \in Nat /\ c <= n
    BY <1>3, <2>5 DEF HypothesisIs
  <2>7. Finals(rest, Oldest + c, spoken + 1)
    <3>1. n - c \in Nat /\ c + (n - c) = n /\ Oldest + c + (n - c) = spoken + 1
      <4> HIDE DEF c, n
      <4> QED
        BY <1>3, <2>6 DEF n
    <3> HIDE DEF c
    <3>2. Finals(SubSeq(r.hyp.prev, c + 1, c + (n - c)), Oldest + c, Oldest + c + (n - c))
      <4>1. c + (n - c) <= Len(r.hyp.prev)
        BY <1>3, <2>5, <3>1
      <4> QED
        BY <1>3, <2>5, <2>6, <3>1, <4>1, PieceSays
    <3>3. rest = SubSeq(r.hyp.prev, c + 1, c + (n - c))
      BY <2>5, <3>1 DEF Drop
    <3> QED
      BY <3>1, <3>2, <3>3
  <2>8. Finals(committed', first, spoken + 1)
    <3>1. first \in Nat /\ Oldest + c \in Nat /\ spoken + 1 \in Nat
      BY <1>3, <2>6, SMTT(30) DEF WhisperInv
    <3> HIDE DEF rest, c
    <3> QED
      BY <2>3, <2>5, <2>7, <3>1, FinalsJoin
  <2>9. /\ HypothesisIs(hypothesis') /\ hypothesis'.prev = <<>> /\ hypothesis'.confirmed = 0
        /\ ~hypothesis'.rebase /\ HeardFrom' = spoken + 1
    BY <1>1, <1>4 DEF NoHypothesis, HypothesisIs, HeardFrom
  <2>10. Says(hypothesis'.prev, HeardFrom')
    BY <2>9 DEF Says
  <2>11. Finals(committed', first', HeardFrom' + hypothesis'.confirmed)
    <3>1. HeardFrom' + hypothesis'.confirmed = spoken + 1
      BY <1>3, <2>9
    <3> QED
      BY <1>1, <2>8, <3>1
  <2>12. Len(window') # MaxBufferWords /\ Len(hypothesis'.prev) <= Len(window')
    BY <1>3, <1>4, <2>9
  <2> QED
    BY <1>1, <1>5, <2>1, <2>9, <2>10, <2>11, <2>12 DEF Anchored
<1>7. unanchored' \in BOOLEAN
  BY <1>2
<1> QED
  BY <1>1, <1>3, <1>4, <1>5, <1>6, <1>7 DEF WhisperInv

LEMMA NextUtteranceKept == ASSUME WhisperInv, NextUtterance PROVE WhisperInv'
<1>1. /\ window = <<>> /\ ~feeding.busy /\ ~flushing.busy /\ first' = spoken + 1 /\ committed' = <<>>
      /\ unanchored' = (hypothesis # NoHypothesis)
      /\ window' = window /\ hypothesis' = hypothesis /\ feeding' = feeding /\ flushing' = flushing
      /\ spoken' = spoken
  BY DEF NextUtterance
<1>2. spoken \in Nat /\ MaxBufferWords \in Nat /\ MaxBufferWords >= 1 /\ Len(window) = 0 /\ Oldest = spoken + 1
  BY <1>1, WindowFacts
<1>3. Oldest' = Oldest /\ HeardFrom' = HeardFrom
  BY <1>1 DEF Oldest, HeardFrom
<1>4. ASSUME ~unanchored' PROVE Anchored'
  <2>1. /\ HypothesisIs(hypothesis) /\ hypothesis.prev = <<>> /\ hypothesis.confirmed = 0
        /\ ~hypothesis.rebase /\ HeardFrom = spoken + 1
    <3>1. hypothesis = NoHypothesis
      BY <1>1, <1>4
    <3>2. hypothesis.prev = <<>> /\ hypothesis.confirmed = 0 /\ ~hypothesis.rebase /\ HypothesisIs(hypothesis)
      BY <3>1 DEF NoHypothesis, HypothesisIs
    <3>3. HeardFrom = spoken + 1
      BY <1>2, <3>2 DEF HeardFrom
    <3> QED
      BY <3>2, <3>3
  <2>2. Says(hypothesis'.prev, HeardFrom')
    BY <1>1, <2>1 DEF Says
  <2>3. Finals(committed', first', HeardFrom' + hypothesis'.confirmed)
    BY <1>1, <1>2, <1>3, <2>1 DEF Finals
  <2>4. Len(window') # MaxBufferWords /\ Len(hypothesis'.prev) <= Len(window')
    BY <1>1, <1>2, <2>1
  <2> QED
    BY <1>1, <2>1, <2>2, <2>3, <2>4 DEF Anchored
<1> QED
  BY <1>1, <1>2, <1>3, <1>4 DEF WhisperInv

\* However often a window is transcribed, whatever it loses at its old end and
\* whichever last words are misheard: each word of an utterance is final once and in
\* order, unless an anchor was lost or a flush ran beside a feed.
THEOREM WordsAreCommittedOnce == WhisperSpec => []WordsCommittedOnce
<1>1. WhisperInv /\ [WhisperNext]_whisperVars => WhisperInv'
  <2> SUFFICES ASSUME WhisperInv, [WhisperNext]_whisperVars PROVE WhisperInv'
    OBVIOUS
  <2>1. CASE \E due \in BOOLEAN : Feed(due)
    BY <2>1, FeedKept
  <2>2. CASE FeedTranscribed
    BY <2>2, FeedTranscribedKept
  <2>3. CASE FlushNothing
    BY <2>3, FlushNothingKept
  <2>4. CASE Flush
    BY <2>4, FlushKept
  <2>5. CASE FlushTranscribed
    BY <2>5, FlushTranscribedKept
  <2>6. CASE NextUtterance
    BY <2>6, NextUtteranceKept
  <2>7. CASE UNCHANGED whisperVars
    BY <2>7 DEF whisperVars, WhisperInv, Anchored, Oldest, HeardFrom
  <2> QED
    BY <2>1, <2>2, <2>3, <2>4, <2>5, <2>6, <2>7 DEF WhisperNext
<1> QED
  BY <1>1, WhisperInitInv, WhisperInvExact, PTL DEF WhisperSpec

----------------------------------------------------------------------------
(* The run loop: what the segmenter hears, what leaks through a pause, and *)
(* in which order a run ends.                                              *)

Frames == [n : Nat, speech : BOOLEAN, muted : BOOLEAN]
Marks  == {"speech", "silence", "end"}

RunTypeOK ==
  /\ engine \in {"streaming", "utterance"} /\ options \subseteq {"browser", "export", "hotkeys"}
  /\ held \subseteq {"obs", "export", "hotkeys", "backend"}
  /\ stage \in {"off", "setup", "listen", "run", "cancel", "stop_capture", "stop_backend", "stop_hotkeys",
                "stop_sink", "over", "raised"}
  /\ task \in {"none", "start", "read", "feed", "flush", "leave", "done"}
  /\ fell \in BOOLEAN /\ device \in {"none", "on", "closed"}
  /\ queue \in Seq(Frames) /\ landing \in Seq(Frames) /\ frames \in Nat
  /\ segment \in [open : BOOLEAN, silent : Nat]
  /\ paused \in BOOLEAN /\ pauses \in Nat /\ leaked \in Nat
  /\ heard \in Seq(Marks)

\* A frame captured in a pause that is over is among those the queue held at its end.
PauseLeak ==
  /\ Len(queue) <= QueueMaxsize /\ leaked <= QueueMaxsize
  /\ paused => leaked = 0
  /\ ~paused => /\ \A i \in 1 .. Len(landing) : ~landing[i].muted
                /\ \A i \in 1 .. Len(queue) : queue[i].muted => i + leaked <= QueueMaxsize

\* How far the task is when _run is this far, and what is held then.
RunPlace ==
  /\ stage \in {"off", "setup", "listen"} => task = "none"
  /\ stage = "off" => held = {}
  /\ stage = "setup" => "export" \notin held
  /\ stage \in {"run", "cancel"} => task # "none"
  /\ stage \in {"stop_capture", "stop_backend", "stop_hotkeys", "stop_sink", "over"} => task = "done"
  /\ stage \in {"stop_backend", "stop_hotkeys", "stop_sink", "over"} => device # "on"
  /\ stage \in {"stop_hotkeys", "stop_sink", "over"} => "backend" \notin held
  /\ stage \in {"stop_sink", "over"} => "hotkeys" \notin held
  /\ stage = "over" => held = {}
  /\ stage = "raised" => "export" \notin held /\ task \in {"none", "done"}

\* The mark of position i ends an utterance that MinSilenceFrames silent frames close.
EndsRight(h, i) ==
  /\ i > MinSilenceFrames + 1 /\ h[i - MinSilenceFrames - 1] = "speech"
  /\ \A j \in (i - MinSilenceFrames) .. (i - 1) : h[j] = "silence"

\* Speech at i is followed by its end when it should be, or it is too early to say.
SpeechEnds(h, i) ==
  \/ \E j \in i + 1 .. i + MinSilenceFrames : j > Len(h) \/ h[j] # "silence"
  \/ i + MinSilenceFrames + 1 <= Len(h) /\ h[i + MinSilenceFrames + 1] = "end"

\* The open utterance is the last speech and the silent frames behind it.
HeardSoFar(h, s) ==
  /\ s.open => /\ s.silent < MinSilenceFrames /\ s.silent < Len(h)
               /\ h[Len(h) - s.silent] = "speech"
               /\ \A j \in Len(h) - s.silent + 1 .. Len(h) : h[j] = "silence"
  /\ \A i \in 1 .. Len(h) :
       h[i] = "speech" /\ (\A j \in i + 1 .. Len(h) : h[j] = "silence") => s.open /\ s.silent = Len(h) - i
  /\ \A i \in 1 .. Len(h) : h[i] = "speech" => s.open \/ \E j \in i .. Len(h) : h[j] = "end"
  /\ \A i \in 1 .. Len(h) : h[i] = "end" => EndsRight(h, i)
  /\ \A i \in 1 .. Len(h) : h[i] = "speech" => SpeechEnds(h, i)

RunInv ==
  /\ RunTypeOK /\ PauseLeak /\ RunPlace
  /\ task # "done" => HeardSoFar(heard, segment)
  /\ UtterancesExact

----------------------------------------------------------------------------
(* What the segmenter hears: h has k marks, g has one or two more.         *)

LEMMA SpeechHeard ==
  ASSUME NEW h, NEW g, NEW k \in Nat, Len(h) = k, Len(g) = k + 1,
         \A i \in 1 .. k : g[i] = h[i], g[k + 1] = "speech",
         NEW s \in [open : BOOLEAN, silent : Nat], HeardSoFar(h, s)
  PROVE  HeardSoFar(g, [open |-> TRUE, silent |-> 0])
<1> DEFINE M == MinSilenceFrames
<1>m. M \in Nat \ {0}
  BY RunLoopAssumption
<1>1. \A i \in 1 .. k + 1 : g[i] = "end" => EndsRight(g, i)
  <2> SUFFICES ASSUME NEW i \in 1 .. k + 1, g[i] = "end" PROVE EndsRight(g, i)
    OBVIOUS
  <2>1. i \in 1 .. k /\ EndsRight(h, i)
    BY DEF HeardSoFar
  <2> QED
    BY <1>m, <2>1 DEF EndsRight
<1>2. \A i \in 1 .. k + 1 : g[i] = "speech" => SpeechEnds(g, i)
  <2> SUFFICES ASSUME NEW i \in 1 .. k + 1, g[i] = "speech" PROVE SpeechEnds(g, i)
    OBVIOUS
  <2>1. CASE i + M >= k + 2
    <3>1. k + 2 \in i + 1 .. i + M
      BY <1>m, <2>1
    <3> QED
      BY <3>1 DEF SpeechEnds
  <2>2. CASE i + M = k + 1
    <3>1. k + 1 \in i + 1 .. i + M
      BY <1>m, <2>2
    <3> QED
      BY <3>1 DEF SpeechEnds
  <2>3. CASE i + M <= k
    <3>1. i \in 1 .. k /\ SpeechEnds(h, i)
      BY <1>m, <2>3 DEF HeardSoFar
    <3> QED
      BY <1>m, <2>3, <3>1 DEF SpeechEnds
  <2> QED
    BY <1>m, <2>1, <2>2, <2>3
<1>3. \A i \in 1 .. k + 1 : g[i] = "speech" /\ (\A j \in i + 1 .. k + 1 : g[j] = "silence") => i = k + 1
  <2> SUFFICES ASSUME NEW i \in 1 .. k, \A j \in i + 1 .. k + 1 : g[j] = "silence" PROVE FALSE
    OBVIOUS
  <2>1. k + 1 \in i + 1 .. k + 1
    OBVIOUS
  <2> QED
    BY <2>1
<1> QED
  BY <1>1, <1>2, <1>3, <1>m DEF HeardSoFar

\* A silent frame that ends nothing: too early, or no utterance is open.
LEMMA SilenceHeard ==
  ASSUME NEW h, NEW g, NEW k \in Nat, Len(h) = k, Len(g) = k + 1,
         \A i \in 1 .. k : g[i] = h[i], g[k + 1] = "silence",
         NEW s \in [open : BOOLEAN, silent : Nat], HeardSoFar(h, s),
         NEW r \in [open : BOOLEAN, silent : Nat],
         r.open = s.open, s.open => r.silent = s.silent + 1 /\ r.silent < MinSilenceFrames
  PROVE  HeardSoFar(g, r)
<1> DEFINE M == MinSilenceFrames
<1>m. M \in Nat \ {0}
  BY RunLoopAssumption
<1>1. \A i \in 1 .. k + 1 : g[i] = "end" => EndsRight(g, i)
  <2> SUFFICES ASSUME NEW i \in 1 .. k + 1, g[i] = "end" PROVE EndsRight(g, i)
    OBVIOUS
  <2>1. i \in 1 .. k /\ EndsRight(h, i)
    BY DEF HeardSoFar
  <2> QED
    BY <1>m, <2>1 DEF EndsRight
<1>2. \A i \in 1 .. k + 1 : g[i] = "speech" => SpeechEnds(g, i)
  <2> SUFFICES ASSUME NEW i \in 1 .. k + 1, g[i] = "speech" PROVE SpeechEnds(g, i)
    OBVIOUS
  <2>0. i \in 1 .. k /\ h[i] = "speech" /\ SpeechEnds(h, i)
    BY DEF HeardSoFar
  <2>1. CASE i + M >= k + 2
    <3>1. k + 2 \in i + 1 .. i + M
      BY <1>m, <2>1
    <3> QED
      BY <3>1 DEF SpeechEnds
  <2>2. CASE i + M = k + 1
    <3>1. ~(s.open /\ s.silent = k - i)
      BY <1>m, <2>2
    <3>2. PICK j \in i + 1 .. k : h[j] # "silence"
      BY <2>0, <3>1 DEF HeardSoFar
    <3>3. j \in i + 1 .. i + M /\ g[j] # "silence"
      BY <1>m, <2>2, <3>2
    <3> QED
      BY <3>3 DEF SpeechEnds
  <2>3. CASE i + M <= k
    BY <1>m, <2>0, <2>3 DEF SpeechEnds
  <2> QED
    BY <1>m, <2>1, <2>2, <2>3
<1>3. \A i \in 1 .. k + 1 : g[i] = "speech" /\ (\A j \in i + 1 .. k + 1 : g[j] = "silence")
                              => r.open /\ r.silent = k + 1 - i
  <2> SUFFICES ASSUME NEW i \in 1 .. k + 1, g[i] = "speech", \A j \in i + 1 .. k + 1 : g[j] = "silence"
               PROVE  r.open /\ r.silent = k + 1 - i
    OBVIOUS
  <2>1. i \in 1 .. k /\ h[i] = "speech" /\ \A j \in i + 1 .. k : h[j] = "silence"
    OBVIOUS
  <2>2. s.open /\ s.silent = k - i
    BY <2>1 DEF HeardSoFar
  <2> QED
    BY <2>2
<1>4. r.open => /\ r.silent < M /\ r.silent < k + 1
                /\ g[k + 1 - r.silent] = "speech"
                /\ \A j \in k + 1 - r.silent + 1 .. k + 1 : g[j] = "silence"
  <2> SUFFICES ASSUME r.open
               PROVE  /\ r.silent < M /\ r.silent < k + 1
                      /\ g[k + 1 - r.silent] = "speech"
                      /\ \A j \in k + 1 - r.silent + 1 .. k + 1 : g[j] = "silence"
    OBVIOUS
  <2>1. /\ r.silent = s.silent + 1 /\ r.silent < M /\ s.silent < k
        /\ h[k - s.silent] = "speech" /\ \A j \in k - s.silent + 1 .. k : h[j] = "silence"
    BY DEF HeardSoFar
  <2>2. \A j \in k - s.silent + 1 .. k : g[j] = "silence"
    BY <2>1
  <2> QED
    BY <2>1, <2>2
<1>5. \A i \in 1 .. k + 1 : g[i] = "speech" => r.open \/ \E j \in i .. k + 1 : g[j] = "end"
  <2> SUFFICES ASSUME NEW i \in 1 .. k + 1, g[i] = "speech", ~r.open PROVE \E j \in i .. k + 1 : g[j] = "end"
    OBVIOUS
  <2>1. PICK j \in i .. k : h[j] = "end"
    BY DEF HeardSoFar
  <2>2. j \in i .. k + 1 /\ g[j] = "end"
    BY <2>1
  <2> QED
    BY <2>2
<1> HIDE DEF M
<1> QED
  BY <1>1, <1>2, <1>3, <1>4, <1>5 DEF HeardSoFar, M

\* The silent frame that closes the utterance, and the end it makes.
LEMMA EndHeard ==
  ASSUME NEW h, NEW g, NEW k \in Nat, Len(h) = k, Len(g) = k + 2,
         \A i \in 1 .. k : g[i] = h[i], g[k + 1] = "silence", g[k + 2] = "end",
         NEW s \in [open : BOOLEAN, silent : Nat], HeardSoFar(h, s),
         s.open, s.silent + 1 >= MinSilenceFrames
  PROVE  HeardSoFar(g, Closed)
<1> DEFINE M == MinSilenceFrames
<1>m. M \in Nat \ {0} /\ s.silent = M - 1
  BY RunLoopAssumption DEF HeardSoFar
<1>s. /\ M - 1 < k /\ h[k - M + 1] = "speech" /\ \A j \in k - M + 2 .. k : h[j] = "silence"
  BY <1>m DEF HeardSoFar
<1>1. \A i \in 1 .. k + 2 : g[i] = "end" => EndsRight(g, i)
  <2> SUFFICES ASSUME NEW i \in 1 .. k + 2, g[i] = "end" PROVE EndsRight(g, i)
    OBVIOUS
  <2>1. CASE i = k + 2
    <3>1. i > M + 1 /\ i - M - 1 = k - M + 1 /\ k - M + 1 \in 1 .. k
      BY <1>m, <1>s, <2>1
    <3>2. \A j \in i - M .. i - 1 : g[j] = "silence"
      <4> SUFFICES ASSUME NEW j \in i - M .. i - 1 PROVE g[j] = "silence"
        OBVIOUS
      <4>1. j = k + 1 \/ (j \in 1 .. k /\ j \in k - M + 2 .. k)
        BY <1>m, <1>s, <2>1
      <4> QED
        BY <1>s, <4>1
    <3> QED
      BY <1>m, <1>s, <3>1, <3>2 DEF EndsRight
  <2>2. CASE i # k + 2
    <3>1. i \in 1 .. k /\ EndsRight(h, i)
      BY <2>2 DEF HeardSoFar
    <3> QED
      BY <1>m, <3>1 DEF EndsRight
  <2> QED
    BY <2>1, <2>2
<1>2. \A i \in 1 .. k + 2 : g[i] = "speech" => SpeechEnds(g, i)
  <2> SUFFICES ASSUME NEW i \in 1 .. k + 2, g[i] = "speech" PROVE SpeechEnds(g, i)
    OBVIOUS
  <2>0. i \in 1 .. k /\ h[i] = "speech" /\ SpeechEnds(h, i)
    BY DEF HeardSoFar
  <2>1. CASE i + M >= k + 2
    <3>1. k + 2 \in i + 1 .. i + M
      BY <1>m, <2>1
    <3> QED
      BY <3>1 DEF SpeechEnds
  <2>2. CASE i + M = k + 1
    BY <1>m, <2>2 DEF SpeechEnds
  <2>3. CASE i + M <= k
    BY <1>m, <2>0, <2>3 DEF SpeechEnds
  <2> QED
    BY <1>m, <2>1, <2>2, <2>3
<1>3. \A i \in 1 .. k + 2 : ~(g[i] = "speech" /\ (\A j \in i + 1 .. k + 2 : g[j] = "silence"))
  <2> SUFFICES ASSUME NEW i \in 1 .. k + 2, g[i] = "speech", \A j \in i + 1 .. k + 2 : g[j] = "silence"
               PROVE FALSE
    OBVIOUS
  <2>1. i # k + 2 /\ k + 2 \in i + 1 .. k + 2
    OBVIOUS
  <2> QED
    BY <2>1
<1>4. \A i \in 1 .. k + 2 : k + 2 \in i .. k + 2
  OBVIOUS
<1> HIDE DEF M
<1> QED
  BY <1>1, <1>2, <1>3, <1>4 DEF HeardSoFar, Closed

\* While the task runs, what was heard is exact; and it is when the task has left.
LEMMA HeardIsExact ==
  ASSUME RunTypeOK, task # "done", HeardSoFar(heard, segment)
  PROVE  UtterancesExact
<1>1. DOMAIN heard = 1 .. Len(heard) /\ Len(heard) \in Nat
  BY DEF RunTypeOK
<1>2. \A i \in 1 .. Len(heard) : i + MinSilenceFrames + 1 - 1 = i + MinSilenceFrames
  BY <1>1, RunLoopAssumption
<1>3. \A i \in DOMAIN heard : heard[i] = "end" => EndsRight(heard, i)
  BY <1>1 DEF HeardSoFar
<1>4. \A i \in DOMAIN heard : heard[i] = "speech" => SpeechEnds(heard, i)
  BY <1>1 DEF HeardSoFar
<1> QED
  BY <1>1, <1>2, <1>3, <1>4, RunLoopAssumption DEF EndsRight, SpeechEnds, UtterancesExact

LEMMA LeavingIsExact ==
  ASSUME RunTypeOK, task # "done", HeardSoFar(heard, segment), TaskLeaves
  PROVE  heard' \in Seq(Marks) /\ UtterancesExact'
<1> DEFINE k == Len(heard)
           M == MinSilenceFrames
<1>m. M \in Nat \ {0} /\ k \in Nat /\ DOMAIN heard = 1 .. k
  BY RunLoopAssumption DEF RunTypeOK
<1>1. CASE ~segment.open
  <2>1. heard' = heard /\ DOMAIN heard' = 1 .. k /\ Len(heard') = k
    BY <1>1, <1>m DEF TaskLeaves
  <2>2. \A i \in 1 .. k : i + M + 1 - 1 = i + M
    BY <1>m
  <2>3. /\ \A i \in 1 .. k : heard[i] = "end" => EndsRight(heard, i)
        /\ \A i \in 1 .. k : heard[i] = "speech" => SpeechEnds(heard, i)
        /\ \A i \in 1 .. k : heard[i] = "speech" => \E j \in i .. k : heard[j] = "end"
    BY <1>1 DEF HeardSoFar
  <2>4. /\ \A i \in DOMAIN heard' : heard'[i] = "end" => EndsRight(heard', i)
        /\ \A i \in DOMAIN heard' : heard'[i] = "speech" => SpeechEnds(heard', i)
        /\ \A i \in DOMAIN heard' : heard'[i] = "speech" => \E j \in i .. Len(heard') : heard'[j] = "end"
    BY <2>1, <2>3
  <2>5. \A i \in DOMAIN heard' : i + M + 1 - 1 = i + M
    BY <2>1, <2>2
  <2>6. heard' \in Seq(Marks)
    BY <2>1 DEF RunTypeOK
  <2> QED
    BY <2>4, <2>5, <2>6, RunLoopAssumption DEF EndsRight, SpeechEnds, UtterancesExact
<1>2. CASE segment.open
  <2> DEFINE g == heard'
  <2>1. g = Append(heard, "end") /\ task' = "done" /\ "end" \in Marks
    BY <1>2 DEF TaskLeaves, Marks
  <2>2. /\ g \in Seq(Marks) /\ Len(g) = k + 1 /\ g[k + 1] = "end"
        /\ \A i \in 1 .. k : g[i] = heard[i]
    BY <2>1, AppendProperties DEF RunTypeOK
  <2>3. DOMAIN g = 1 .. k + 1
    BY <2>2
  <2>4. \A i \in 1 .. k : g[i] = "end" => EndsRight(g, i)
    <3> SUFFICES ASSUME NEW i \in 1 .. k, g[i] = "end" PROVE EndsRight(g, i)
      OBVIOUS
    <3>1. EndsRight(heard, i)
      BY <2>2 DEF HeardSoFar
    <3> HIDE DEF g, k
    <3> QED
      BY <1>m, <2>2, <3>1 DEF EndsRight
  <2>5. \A i \in 1 .. k + 1 : g[i] = "speech" => SpeechEnds(g, i)
    <3> SUFFICES ASSUME NEW i \in 1 .. k + 1, g[i] = "speech" PROVE SpeechEnds(g, i)
      OBVIOUS
    <3>0. i \in 1 .. k /\ heard[i] = "speech" /\ SpeechEnds(heard, i)
      BY <2>2 DEF HeardSoFar
    <3> HIDE DEF g, k
    <3>1. CASE i + M >= k + 1
      <4>1. k + 1 \in i + 1 .. i + M
        BY <1>m, <3>0, <3>1
      <4> QED
        BY <2>2, <4>1 DEF SpeechEnds
    <3>2. CASE i + M <= k
      BY <1>m, <2>2, <3>0, <3>2 DEF SpeechEnds, k
    <3> QED
      BY <1>m, <3>1, <3>2
  <2>6. \A i \in 1 .. k + 1 : g[i] = "speech" => \E j \in i .. k + 1 : g[j] = "end"
    <3>1. \A i \in 1 .. k + 1 : k + 1 \in i .. k + 1
      BY <1>m
    <3> QED
      BY <2>2, <3>1
  <2>7. Len(heard') = k + 1 /\ DOMAIN heard' = 1 .. k + 1 /\ task' = "done"
    BY <2>1, <2>2, <2>3
  <2> HIDE DEF k
  <2> QED
    BY <1>m, <2>2, <2>4, <2>5, <2>6, <2>7, SMTT(30) DEF EndsRight, SpeechEnds, UtterancesExact
<1> QED
  BY <1>1, <1>2

\* What the task does with a frame it does not drop.
LEMMA ReadingIsExact ==
  ASSUME RunTypeOK, task = "read", HeardSoFar(heard, segment), TaskReads
  PROVE  /\ heard' \in Seq(Marks) /\ segment' \in [open : BOOLEAN, silent : Nat]
         /\ HeardSoFar(heard', segment')
<1> DEFINE k == Len(heard)
           M == MinSilenceFrames
           f == Head(queue)
           dropped == f = Eof \/ paused
           s == Segmented(f.speech)
           ends == s.open /\ s.silent >= MinSilenceFrames
<1>m. M \in Nat \ {0} /\ k \in Nat /\ heard \in Seq(Marks) /\ Marks # {}
  BY RunLoopAssumption DEF RunTypeOK, Marks
<1>f. f \in Frames
  BY HeadTailProperties DEF TaskReads, RunTypeOK
<1>1. CASE dropped
  BY <1>1 DEF TaskReads, RunTypeOK
<1>2. CASE ~dropped /\ f.speech
  <2>1. s.open = TRUE /\ s.silent = 0 /\ ~ends
    BY <1>2, <1>m DEF Segmented
  <2>2. s = [open |-> TRUE, silent |-> 0]
    BY <1>2 DEF Segmented
  <2>3. segment' = s /\ heard' = heard \o <<"speech">> \o <<>>
    BY <1>2, <2>1 DEF TaskReads
  <2>4. heard' = Append(heard, "speech")
    <3>1. "speech" \in Marks
      BY DEF Marks
    <3> DEFINE g == Append(heard, "speech")
    <3>2. g \in Seq(Marks) /\ g = heard \o <<"speech">>
      BY <1>m, <3>1, AppendProperties, AppendIsConcat
    <3>3. g \o <<>> = g
      BY <3>2, ConcatEmptySeq
    <3> QED
      BY <2>3, <3>2, <3>3
  <2>5. /\ heard' \in Seq(Marks) /\ Len(heard') = k + 1 /\ heard'[k + 1] = "speech"
        /\ \A i \in 1 .. k : heard'[i] = heard[i]
    BY <1>m, <2>4, AppendProperties DEF Marks
  <2> HIDE DEF k
  <2>6. HeardSoFar(heard', [open |-> TRUE, silent |-> 0])
    <3> DEFINE g == heard'
    <3>1. segment \in [open : BOOLEAN, silent : Nat] /\ Len(heard) = k
      BY DEF RunTypeOK, k
    <3> HIDE DEF g
    <3>2. HeardSoFar(g, [open |-> TRUE, silent |-> 0])
      BY <1>m, <2>5, <3>1, SpeechHeard DEF g
    <3> QED
      BY <3>2 DEF g
  <2>7. segment' = [open |-> TRUE, silent |-> 0]
    BY <2>2, <2>3
  <2> QED
    BY <2>5, <2>6, <2>7
<1>3. CASE ~dropped /\ ~f.speech /\ ~ends
  <2>1. segment' = s /\ heard' = heard \o <<"silence">> \o <<>>
    BY <1>3 DEF TaskReads
  <2>2. heard' = Append(heard, "silence")
    <3>1. "silence" \in Marks
      BY DEF Marks
    <3> DEFINE g == Append(heard, "silence")
    <3>2. g \in Seq(Marks) /\ g = heard \o <<"silence">>
      BY <1>m, <3>1, AppendProperties, AppendIsConcat
    <3>3. g \o <<>> = g
      BY <3>2, ConcatEmptySeq
    <3> QED
      BY <2>1, <3>2, <3>3
  <2>3. /\ heard' \in Seq(Marks) /\ Len(heard') = k + 1 /\ heard'[k + 1] = "silence"
        /\ \A i \in 1 .. k : heard'[i] = heard[i]
    BY <1>m, <2>2, AppendProperties DEF Marks
  <2>4. s \in [open : BOOLEAN, silent : Nat] /\ s.open = segment.open /\ (s.open => s.silent = segment.silent + 1)
    <3>1. segment \in [open : BOOLEAN, silent : Nat]
      BY DEF RunTypeOK
    <3>2. CASE segment.open
      <4>1. s = [segment EXCEPT !.silent = @ + 1]
        BY <1>3, <3>2 DEF Segmented
      <4> HIDE DEF s
      <4>2. s = [open |-> segment.open, silent |-> segment.silent + 1]
        BY <3>1, <4>1
      <4>3. segment.silent + 1 \in Nat /\ segment.open \in BOOLEAN
        BY <3>1
      <4> QED
        BY <4>2, <4>3
    <3>3. CASE ~segment.open
      <4>1. s = Closed
        BY <1>3, <3>3 DEF Segmented
      <4> HIDE DEF s
      <4> QED
        BY <3>1, <3>3, <4>1 DEF Closed
    <3> QED
      BY <3>2, <3>3
  <2>5. s.open => s.silent < MinSilenceFrames
    BY <1>3, <1>m, <2>4
  <2> HIDE DEF s, k
  <2>6. HeardSoFar(heard', s)
    BY <1>m, <2>3, <2>4, <2>5, SilenceHeard DEF RunTypeOK, k
  <2> QED
    BY <2>1, <2>3, <2>4, <2>6
<1>4. CASE ~dropped /\ ~f.speech /\ ends
  <2>1. segment' = Closed /\ heard' = heard \o <<"silence">> \o <<"end">>
    BY <1>4 DEF TaskReads
  <2> DEFINE g == Append(heard, "silence")
             e == Append(g, "end")
  <2>2. "silence" \in Marks /\ "end" \in Marks
    BY DEF Marks
  <2>3. g \in Seq(Marks) /\ g = heard \o <<"silence">>
    BY <1>m, <2>2, AppendProperties, AppendIsConcat
  <2>4. e \in Seq(Marks) /\ e = g \o <<"end">>
    <3> HIDE DEF g
    <3> QED
      BY <2>2, <2>3, AppendProperties, AppendIsConcat
  <2>5. heard' = e
    BY <2>1, <2>3, <2>4
  <2>6. Len(g) = k + 1 /\ g[k + 1] = "silence" /\ \A i \in 1 .. k : g[i] = heard[i]
    BY <1>m, <2>2, AppendProperties
  <2>7. Len(e) = k + 2 /\ e[k + 2] = "end" /\ \A i \in 1 .. k + 1 : e[i] = g[i]
    <3> HIDE DEF g, k
    <3>1. Len(e) = Len(g) + 1 /\ e[Len(g) + 1] = "end" /\ \A i \in 1 .. Len(g) : e[i] = g[i]
      BY <2>2, <2>3, AppendProperties
    <3> HIDE DEF e
    <3> QED
      BY <1>m, <2>6, <3>1
  <2>8. segment.open /\ segment.silent + 1 >= MinSilenceFrames /\ segment \in [open : BOOLEAN, silent : Nat]
    <3>1. segment \in [open : BOOLEAN, silent : Nat]
      BY DEF RunTypeOK
    <3> QED
      BY <1>4, <3>1 DEF Segmented, Closed
  <2> HIDE DEF e, g
  <2>9. HeardSoFar(e, Closed)
    BY <1>m, <2>6, <2>7, <2>8, EndHeard, SMTT(30)
  <2> QED
    BY <2>1, <2>4, <2>5, <2>9 DEF Closed
<1> QED
  BY <1>1, <1>2, <1>3, <1>4

----------------------------------------------------------------------------
(* The queue.                                                              *)

LEMMA DropOldest ==
  ASSUME queue \in Seq(Frames), Len(queue) <= QueueMaxsize, NEW f \in Frames
  PROVE  /\ PutDropOldest(f) \in Seq(Frames) /\ Len(PutDropOldest(f)) <= QueueMaxsize
         /\ \A i \in 1 .. Len(PutDropOldest(f)) :
              \/ PutDropOldest(f)[i] = f
              \/ \E j \in i .. Len(queue) : PutDropOldest(f)[i] = queue[j]
<1> DEFINE n == Len(queue)
<1>1. n \in Nat /\ QueueMaxsize \in Nat \ {0}
  BY RunLoopAssumption
<1>2. CASE n = QueueMaxsize
  <2> DEFINE t == Tail(queue)
             g == Append(t, f)
  <2>1. t \in Seq(Frames) /\ Len(t) = n - 1 /\ \A i \in 1 .. n - 1 : t[i] = queue[i + 1]
    BY <1>1, <1>2, HeadTailProperties, EmptySeq
  <2> HIDE DEF t
  <2>2. g \in Seq(Frames) /\ Len(g) = n /\ g[n] = f /\ \A i \in 1 .. n - 1 : g[i] = t[i]
    BY <1>1, <2>1, AppendProperties
  <2> HIDE DEF g
  <2>3. PutDropOldest(f) = g
    BY <1>2 DEF PutDropOldest, g, t
  <2>4. \A i \in 1 .. n : g[i] = f \/ (i + 1 \in i .. n /\ g[i] = queue[i + 1])
    BY <1>1, <2>1, <2>2
  <2> HIDE DEF n
  <2>5. \A i \in 1 .. Len(g) : g[i] = f \/ \E j \in i .. n : g[i] = queue[j]
    BY <2>2, <2>4
  <2> QED
    BY <1>1, <1>2, <2>2, <2>3, <2>5 DEF n
<1>3. CASE n # QueueMaxsize
  <2> DEFINE g == Append(queue, f)
  <2>2. g \in Seq(Frames) /\ Len(g) = n + 1 /\ g[n + 1] = f /\ \A i \in 1 .. n : g[i] = queue[i]
    BY <1>1, AppendProperties
  <2> HIDE DEF g
  <2>3. PutDropOldest(f) = g
    BY <1>3 DEF PutDropOldest, g
  <2>4. \A i \in 1 .. n + 1 : g[i] = f \/ (i \in i .. n /\ g[i] = queue[i])
    BY <1>1, <2>2
  <2>5. n < QueueMaxsize
    BY <1>1, <1>3
  <2> HIDE DEF n
  <2>6. \A i \in 1 .. Len(g) : g[i] = f \/ \E j \in i .. n : g[i] = queue[j]
    BY <2>2, <2>4
  <2> QED
    BY <1>1, <2>2, <2>3, <2>5, <2>6 DEF n
<1> QED
  BY <1>2, <1>3

\* A queue whose frames were further back, or are not of the pause, leaks no more.
LEMMA LeakKept ==
  ASSUME RunTypeOK, PauseLeak, NEW f \in Frames, ~paused => ~f.muted,
         queue' \in Seq(Frames), Len(queue') <= QueueMaxsize,
         \A i \in 1 .. Len(queue') : queue'[i] = f \/ \E j \in i .. Len(queue) : queue'[i] = queue[j],
         ~paused => \A i \in 1 .. Len(landing') : ~landing'[i].muted,
         UNCHANGED <<paused, leaked>>
  PROVE  PauseLeak'
<1>1. Len(queue) \in Nat /\ Len(queue') \in Nat /\ leaked \in Nat
  BY DEF RunTypeOK
<1>2. ASSUME ~paused, NEW i \in 1 .. Len(queue'), queue'[i].muted
      PROVE  i + leaked <= QueueMaxsize
  <2>1. PICK j \in i .. Len(queue) : queue'[i] = queue[j]
    BY <1>2
  <2>2. j \in 1 .. Len(queue) /\ j + leaked <= QueueMaxsize /\ Len(queue) <= QueueMaxsize
    BY <1>1, <1>2, <2>1 DEF PauseLeak
  <2>3. leaked <= QueueMaxsize
    BY DEF PauseLeak
  <2> QED
    BY <1>1, <2>2, <2>1, <2>3, RunLoopAssumption
<1> QED
  BY <1>2 DEF PauseLeak

\* A step that leaves the sound alone.
LEMMA SoundKept ==
  ASSUME RunInv, UNCHANGED <<heard, segment>>, task' = "done" <=> task = "done"
  PROVE  (task' # "done" => HeardSoFar(heard', segment')) /\ UtterancesExact'
<1>1. task # "done" => HeardSoFar(heard, segment)
  BY DEF RunInv
<1>2. UtterancesExact
  BY DEF RunInv
<1>3. UtterancesExact'
  BY <1>2 DEF UtterancesExact
<1> QED
  BY <1>1, <1>3

LEMMA RunInitInv == RunLoopInit => RunInv
<1> SUFFICES ASSUME RunLoopInit PROVE RunInv
  OBVIOUS
<1>1. heard = <<>> /\ Len(heard) = 0 /\ Len(queue) = 0 /\ Len(landing) = 0 /\ task = "none"
      /\ segment.open = FALSE
  BY DEF RunLoopInit, Closed
<1>2. RunTypeOK
  <2>1. <<>> \in Seq(Frames) /\ <<>> \in Seq(Marks)
    BY EmptySeq
  <2>2. segment \in [open : BOOLEAN, silent : Nat]
    BY DEF RunLoopInit, Closed
  <2> QED
    BY <2>1, <2>2 DEF RunLoopInit, RunTypeOK
<1>3. PauseLeak /\ RunPlace
  BY <1>1, RunLoopAssumption DEF RunLoopInit, PauseLeak, RunPlace
<1>4. HeardSoFar(heard, segment)
  BY <1>1 DEF HeardSoFar
<1> QED
  BY <1>1, <1>2, <1>3, <1>4, HeardIsExact DEF RunInv

\* The steps of _run, and the calls of the task that keep the sound.
LEMMA RunTypeKept ==
  ASSUME RunInv, [RunLoopNext]_runLoopVars
  PROVE  RunTypeOK'
<1>t. RunTypeOK /\ PauseLeak /\ (task # "done" => HeardSoFar(heard, segment))
  BY DEF RunInv
<1>1. CASE SinksStart
  BY <1>1, <1>t DEF SinksStart, setupFrame, RunTypeOK
<1>2. CASE PartsBuilt
  BY <1>2, <1>t DEF PartsBuilt, setupFrame, RunTypeOK
<1>3. CASE HotkeysListen
  BY <1>3, <1>t DEF HotkeysListen, FileClosed, setupFrame, RunTypeOK
<1>4. ASSUME NEW speech \in BOOLEAN, DeviceDelivers(speech)
      PROVE  RunTypeOK'
  <2>1. [n |-> frames + 1, speech |-> speech, muted |-> paused] \in Frames
    BY <1>t DEF Frames, RunTypeOK
  <2>2. landing' \in Seq(Frames)
    BY <1>4, <1>t, <2>1, AppendProperties DEF DeviceDelivers, RunTypeOK
  <2> QED
    BY <1>4, <1>t, <2>2 DEF DeviceDelivers, RunTypeOK
<1>5. CASE FrameLands
  <2>1. Head(landing) \in Frames /\ landing' \in Seq(Frames)
    BY <1>5, <1>t, HeadTailProperties DEF FrameLands, RunTypeOK
  <2>2. queue' \in Seq(Frames)
    BY <1>5, <1>t, <2>1, DropOldest DEF FrameLands, RunTypeOK, PauseLeak
  <2> QED
    BY <1>5, <1>t, <2>1, <2>2 DEF FrameLands, RunTypeOK
<1>6. CASE PauseKey
  BY <1>6, <1>t DEF PauseKey, RunTypeOK
<1>7. CASE TaskStarts
  BY <1>7, <1>t DEF TaskStarts, RunTypeOK
<1>8. CASE TaskReads
  <2>1. heard' \in Seq(Marks) /\ segment' \in [open : BOOLEAN, silent : Nat]
    BY <1>8, <1>t, ReadingIsExact DEF TaskReads
  <2>2. queue' \in Seq(Frames)
    BY <1>8, <1>t, HeadTailProperties DEF TaskReads, RunTypeOK
  <2>3. task' \in {"leave", "feed", "flush", "read"} /\ leaked' \in Nat
    BY <1>8, <1>t DEF TaskReads, RunTypeOK
  <2> QED
    BY <1>8, <1>t, <2>1, <2>2, <2>3 DEF TaskReads, RunTypeOK
<1>9. CASE TaskReturns \/ TaskCancelled
  BY <1>9, <1>t DEF TaskReturns, TaskCancelled, RunTypeOK
<1>10. CASE TaskLeaves
  <2>1. heard' \in Seq(Marks)
    BY <1>10, <1>t, LeavingIsExact DEF TaskLeaves
  <2> QED
    BY <1>10, <1>t, <2>1 DEF TaskLeaves, Closed, RunTypeOK
<1>11. CASE RunEnds \/ TaskAwaited
  BY <1>11, <1>t DEF RunEnds, TaskAwaited, RunTypeOK
<1>12. CASE CaptureStops
  <2>1. Eof \in Frames
    BY DEF Eof, Frames
  <2>2. queue' \in Seq(Frames)
    BY <1>12, <1>t, <2>1, DropOldest DEF CaptureStops, RunTypeOK, PauseLeak
  <2> QED
    BY <1>12, <1>t, <2>2 DEF CaptureStops, FileClosed, RunTypeOK
<1>13. CASE BackendStops \/ HotkeysStop \/ SinkStops
  BY <1>13, <1>t, ZenonT(30) DEF BackendStops, HotkeysStop, SinkStops, FileClosed, setupFrame, RunTypeOK
<1>14. CASE UNCHANGED runLoopVars
  BY <1>14, <1>t DEF runLoopVars, RunTypeOK
<1> QED
  BY <1>1, <1>2, <1>3, <1>4, <1>5, <1>6, <1>7, <1>8, <1>9, <1>10, <1>11, <1>12, <1>13, <1>14 DEF RunLoopNext

LEMMA RunPlaceKept ==
  ASSUME RunInv, [RunLoopNext]_runLoopVars
  PROVE  RunPlace'
<1>t. RunTypeOK /\ RunPlace
  BY DEF RunInv
<1>1. CASE SinksStart
  BY <1>1, <1>t DEF SinksStart, setupFrame, RunPlace
<1>2. CASE PartsBuilt
  BY <1>2, <1>t DEF PartsBuilt, setupFrame, RunPlace
<1>3. CASE HotkeysListen
  BY <1>3, <1>t DEF HotkeysListen, FileClosed, setupFrame, RunPlace
<1>4. ASSUME UNCHANGED <<stage, task, held, device>>
      PROVE  RunPlace'
  BY <1>4, <1>t DEF RunPlace
<1>5. CASE (\E speech \in BOOLEAN : DeviceDelivers(speech)) \/ FrameLands \/ PauseKey
  BY <1>4, <1>5 DEF DeviceDelivers, FrameLands, PauseKey
<1>6. CASE TaskStarts
  <2>1. stage \in {"run", "cancel"}
    BY <1>6, <1>t DEF TaskStarts, RunPlace, RunTypeOK
  <2> QED
    BY <1>6, <1>t, <2>1 DEF TaskStarts, RunPlace
<1>7. CASE TaskReads
  <2>1. task' \in {"leave", "feed", "flush", "read"}
    BY <1>7 DEF TaskReads
  <2> QED
    BY <1>7, <1>t, <2>1 DEF TaskReads, RunPlace
<1>8. CASE TaskReturns \/ TaskCancelled
  BY <1>8, <1>t DEF TaskReturns, TaskCancelled, RunPlace
<1>9. CASE TaskLeaves
  <2>1. stage \in {"run", "cancel"}
    BY <1>9, <1>t DEF TaskLeaves, RunPlace, RunTypeOK
  <2> QED
    BY <1>9, <1>t, <2>1 DEF TaskLeaves, RunPlace
<1>10. CASE RunEnds \/ TaskAwaited
  BY <1>10, <1>t DEF RunEnds, TaskAwaited, RunPlace
<1>11. CASE CaptureStops
  BY <1>11, <1>t DEF CaptureStops, FileClosed, RunPlace
<1>12. CASE BackendStops
  BY <1>12, <1>t DEF BackendStops, FileClosed, setupFrame, RunPlace
<1>13. CASE HotkeysStop
  BY <1>13, <1>t DEF HotkeysStop, setupFrame, RunPlace
<1>14. CASE SinkStops
  <2>1. held' = {}
    BY <1>14, <1>t DEF SinkStops, FileClosed, RunPlace, RunTypeOK
  <2> QED
    BY <1>14, <1>t, <2>1 DEF SinkStops, setupFrame, RunPlace
<1>15. CASE UNCHANGED runLoopVars
  BY <1>4, <1>15 DEF runLoopVars
<1> QED
  BY <1>1, <1>2, <1>3, <1>5, <1>6, <1>7, <1>8, <1>9, <1>10, <1>11, <1>12, <1>13, <1>14, <1>15 DEF RunLoopNext

LEMMA PauseLeakKept ==
  ASSUME RunInv, [RunLoopNext]_runLoopVars
  PROVE  PauseLeak'
<1>t. RunTypeOK /\ PauseLeak
  BY DEF RunInv
<1>0. ASSUME UNCHANGED <<queue, landing, paused, leaked>>
      PROVE  PauseLeak'
  BY <1>0, <1>t DEF PauseLeak
<1>l. ~paused => \A i \in 1 .. Len(landing) : ~landing[i].muted
  BY <1>t DEF PauseLeak
<1>1. ASSUME NEW speech \in BOOLEAN, DeviceDelivers(speech)
      PROVE  PauseLeak'
  <2> DEFINE f == [n |-> frames + 1, speech |-> speech, muted |-> paused]
             k == Len(landing)
  <2>1. f \in Frames /\ f.muted = paused
    BY <1>t DEF Frames, RunTypeOK
  <2> HIDE DEF f
  <2>2. landing' = Append(landing, f)
    BY <1>1 DEF DeviceDelivers, f
  <2>3. /\ k \in Nat /\ Len(landing') = k + 1 /\ landing'[k + 1] = f
        /\ \A i \in 1 .. k : landing'[i] = landing[i]
    BY <1>t, <2>1, <2>2, AppendProperties DEF RunTypeOK
  <2>4. ~paused => \A i \in 1 .. k : ~landing[i].muted
    BY <1>t DEF PauseLeak
  <2>5. UNCHANGED <<queue, paused, leaked>>
    BY <1>1 DEF DeviceDelivers
  <2> HIDE DEF k
  <2>6. ~paused => \A i \in 1 .. Len(landing') : ~landing'[i].muted
    BY <2>1, <2>3, <2>4
  <2> QED
    BY <1>t, <2>5, <2>6 DEF PauseLeak
<1>2. CASE FrameLands
  <2> DEFINE k == Len(landing)
             f == Head(landing)
  <2>1. /\ k \in Nat \ {0} /\ landing' \in Seq(Frames) /\ Len(landing') = k - 1
        /\ \A i \in 1 .. k - 1 : landing'[i] = landing[i + 1]
    BY <1>2, <1>t, HeadTailProperties, EmptySeq DEF FrameLands, RunTypeOK
  <2>2. f = landing[1] /\ f \in Frames
    BY <1>2, <1>t, <2>1, ElementOfSeq DEF RunTypeOK
  <2>3. ~paused => ~f.muted
    BY <1>l, <2>1, <2>2
  <2>4. ~paused => \A i \in 1 .. Len(landing') : ~landing'[i].muted
    BY <1>l, <2>1
  <2> HIDE DEF f
  <2>5. queue' = PutDropOldest(f) /\ UNCHANGED <<paused, leaked>>
    BY <1>2 DEF FrameLands, f
  <2>6. /\ queue' \in Seq(Frames) /\ Len(queue') <= QueueMaxsize
        /\ \A i \in 1 .. Len(queue') : queue'[i] = f \/ \E j \in i .. Len(queue) : queue'[i] = queue[j]
    BY <1>t, <2>2, <2>5, DropOldest DEF RunTypeOK, PauseLeak
  <2> QED
    BY <1>t, <2>2, <2>3, <2>4, <2>5, <2>6, LeakKept
<1>3. CASE PauseKey
  <2>1. Len(landing') = 0 /\ leaked' = 0 /\ queue' = queue
    BY <1>3 DEF PauseKey
  <2> QED
    BY <1>t, <2>1, RunLoopAssumption DEF PauseLeak, RunTypeOK
<1>4. CASE TaskReads
  <2> DEFINE n == Len(queue)
  <2>1. /\ n \in Nat \ {0} /\ queue' \in Seq(Frames) /\ Len(queue') = n - 1
        /\ \A i \in 1 .. n - 1 : queue'[i] = queue[i + 1]
    BY <1>4, <1>t, HeadTailProperties, EmptySeq DEF TaskReads, RunTypeOK
  <2>2. Head(queue) = queue[1]
    BY <1>4, <1>t, <2>1 DEF RunTypeOK
  <2>3. \/ leaked' = leaked
        \/ ~paused /\ queue[1].muted /\ leaked' = leaked + 1
    BY <1>4, <2>2 DEF TaskReads
  <2>4. UNCHANGED <<landing, paused>> /\ leaked \in Nat /\ QueueMaxsize \in Nat
    BY <1>4, <1>t, RunLoopAssumption DEF TaskReads, RunTypeOK
  <2>5. /\ n <= QueueMaxsize /\ leaked <= QueueMaxsize
        /\ ~paused => \A i \in 1 .. n : queue[i].muted => i + leaked <= QueueMaxsize
    BY <1>t DEF PauseLeak
  <2> HIDE DEF n
  <2>6. leaked' <= QueueMaxsize
    BY <2>1, <2>3, <2>4, <2>5
  <2>7. ~paused => \A i \in 1 .. Len(queue') : queue'[i].muted => i + leaked' <= QueueMaxsize
    BY <2>1, <2>3, <2>4, <2>5, SMTT(30)
  <2>8. paused => leaked' = 0
    BY <1>t, <2>3 DEF PauseLeak
  <2> QED
    BY <1>l, <2>1, <2>4, <2>5, <2>6, <2>7, <2>8 DEF PauseLeak
<1>5. CASE CaptureStops
  <2>1. CASE UNCHANGED queue
    BY <1>0, <1>5, <2>1 DEF CaptureStops
  <2>2. CASE queue' = PutDropOldest(Eof)
    <3>1. Eof \in Frames /\ ~Eof.muted
      BY DEF Eof, Frames
    <3>2. /\ queue' \in Seq(Frames) /\ Len(queue') <= QueueMaxsize
          /\ \A i \in 1 .. Len(queue') : queue'[i] = Eof \/ \E j \in i .. Len(queue) : queue'[i] = queue[j]
      BY <1>t, <2>2, <3>1, DropOldest DEF RunTypeOK, PauseLeak
    <3>3. UNCHANGED <<landing, paused, leaked>>
      BY <1>5 DEF CaptureStops
    <3> QED
      BY <1>l, <1>t, <3>1, <3>2, <3>3, LeakKept
  <2> QED
    BY <1>5, <2>1, <2>2 DEF CaptureStops
<1>6. CASE SinksStart \/ PartsBuilt \/ HotkeysListen \/ BackendStops \/ HotkeysStop \/ SinkStops
  BY <1>0, <1>6 DEF SinksStart, PartsBuilt, HotkeysListen, BackendStops, HotkeysStop, SinkStops, setupFrame
<1>7. CASE TaskStarts \/ TaskReturns \/ TaskCancelled \/ TaskLeaves \/ RunEnds \/ TaskAwaited
  BY <1>0, <1>7 DEF TaskStarts, TaskReturns, TaskCancelled, TaskLeaves, RunEnds, TaskAwaited
<1>8. CASE UNCHANGED runLoopVars
  BY <1>0, <1>8 DEF runLoopVars
<1> QED
  BY <1>1, <1>2, <1>3, <1>4, <1>5, <1>6, <1>7, <1>8 DEF RunLoopNext

LEMMA RunNextInv == RunInv /\ [RunLoopNext]_runLoopVars => RunInv'
<1> SUFFICES ASSUME RunInv, [RunLoopNext]_runLoopVars PROVE RunInv'
  OBVIOUS
<1>t. RunTypeOK /\ RunPlace /\ (task # "done" => HeardSoFar(heard, segment))
  BY DEF RunInv
<1>p. RunTypeOK' /\ PauseLeak' /\ RunPlace'
  BY RunTypeKept, PauseLeakKept, RunPlaceKept
<1>1. ASSUME UNCHANGED <<heard, segment>>, task' = "done" <=> task = "done"
      PROVE  RunInv'
  BY <1>p, <1>1, SoundKept DEF RunInv
<1>2. CASE SinksStart \/ PartsBuilt \/ HotkeysListen \/ BackendStops \/ HotkeysStop \/ SinkStops
  <2>1. UNCHANGED <<heard, segment>> /\ (task' = "done" <=> task = "done")
    BY <1>2, <1>t DEF SinksStart, PartsBuilt, HotkeysListen, BackendStops, HotkeysStop, SinkStops, setupFrame,
                      RunPlace
  <2> QED
    BY <1>1, <2>1
<1>3. CASE (\E speech \in BOOLEAN : DeviceDelivers(speech)) \/ FrameLands \/ PauseKey \/ CaptureStops
  <2>1. UNCHANGED <<heard, segment>> /\ (task' = "done" <=> task = "done")
    BY <1>3 DEF DeviceDelivers, FrameLands, PauseKey, CaptureStops
  <2> QED
    BY <1>1, <2>1
<1>4. CASE TaskStarts \/ TaskReturns \/ TaskCancelled \/ RunEnds \/ TaskAwaited
  <2>1. UNCHANGED <<heard, segment>> /\ (task' = "done" <=> task = "done")
    BY <1>4 DEF TaskStarts, TaskReturns, TaskCancelled, RunEnds, TaskAwaited
  <2> QED
    BY <1>1, <2>1
<1>5. CASE TaskReads
  <2>1. task = "read" /\ task' # "done"
    BY <1>5 DEF TaskReads
  <2>2. HeardSoFar(heard', segment')
    BY <1>5, <1>t, <2>1, ReadingIsExact
  <2>3. UtterancesExact'
    <3>1. DOMAIN heard' = 1 .. Len(heard') /\ Len(heard') \in Nat
      BY <1>p DEF RunTypeOK
    <3>2. \A i \in 1 .. Len(heard') : i + MinSilenceFrames + 1 - 1 = i + MinSilenceFrames
      BY <3>1, RunLoopAssumption
    <3>3. \A i \in DOMAIN heard' : heard'[i] = "end" => EndsRight(heard', i)
      BY <2>2, <3>1 DEF HeardSoFar
    <3>4. \A i \in DOMAIN heard' : heard'[i] = "speech" => SpeechEnds(heard', i)
      BY <2>2, <3>1 DEF HeardSoFar
    <3> QED
      BY <2>1, <3>1, <3>2, <3>3, <3>4, RunLoopAssumption DEF EndsRight, SpeechEnds, UtterancesExact
  <2> QED
    BY <1>p, <2>2, <2>3 DEF RunInv
<1>6. CASE TaskLeaves
  <2>1. task # "done" /\ task' = "done"
    BY <1>6 DEF TaskLeaves
  <2> QED
    BY <1>6, <1>p, <1>t, <2>1, LeavingIsExact DEF RunInv
<1>7. CASE UNCHANGED runLoopVars
  <2>1. UNCHANGED <<heard, segment>> /\ (task' = "done" <=> task = "done")
    BY <1>7 DEF runLoopVars
  <2> QED
    BY <1>1, <2>1
<1> QED
  BY <1>2, <1>3, <1>4, <1>5, <1>6, <1>7 DEF RunLoopNext

\* For every size of the queue and every count of silent frames, however the pause key,
\* the dropped frames, the failures and the end of the run interleave: an utterance ends
\* where its silence ends it, a pause leaks no more frames than the queue holds, and the
\* teardown stops everything in an order that keeps the backend under its task.
THEOREM RunsAreExact == RunLoopSpec => []RunIsExact
<1>1. RunInv => RunIsExact
  BY DEF RunInv, PauseLeak, RunPlace, PauseLeakBounded, BackendOutlivesTask, RunIsExact
<1> QED
  BY <1>1, RunInitInv, RunNextInv, PTL DEF RunLoopSpec

----------------------------------------------------------------------------
(* The device of a capture.                                                *)

Starting == got # "off"

DevicePlace ==
  /\ devices \in Layouts
  /\ holding \in BOOLEAN /\ adapter \in BOOLEAN /\ got \in {"off", "begun", "made", "opened"}
  /\ players \in Int /\ streams \in Int /\ stranded \in Int
  /\ adapter \/ Starting => holding /\ chosen.is = "index"
  /\ ~(adapter /\ Starting)

\* The device at index n of a layout is one the configuration c names, and can be recorded.
IsNamed(c, layout, n) ==
  /\ layout[n + 1].records
  /\ c.is = "word" => c.word \in layout[n + 1].words
  /\ c.is = "index" => n = c.index

\* The index is that of the device it was found for, and the stream is open on the one
\* that has it among the devices its PyAudio object knows.
IndexHolds ==
  /\ chosen.is = "index" => IsNamed(spec, foundIn, chosen.index)
  /\ adapter \/ got = "opened" => opened = sees[chosen.index + 1]

HandlesCounted ==
  /\ adapter \/ got = "opened" => players = stranded + 1 /\ streams = stranded + 1
  /\ got = "made" => players = stranded + 1 /\ streams = stranded
  /\ ~adapter /\ got \in {"off", "begun"} => players = stranded /\ streams = stranded

DeviceInv == DevicePlace /\ IndexHolds /\ HandlesCounted

\* What is found is the index of a device that is meant.
LEMMA ResolvedIsNamed ==
  ASSUME NEW layout \in Layouts, Resolve(layout).is = "index"
  PROVE  IsNamed(spec, layout, Resolve(layout).index)
<1> DEFINE fits == {d \in Listed(layout) :
                      CASE spec.is = "index" -> d.index = spec.index
                        [] spec.is = "word"  -> spec.word \in d.words
                        [] OTHER             -> \A e \in Listed(layout) : d.index <= e.index}
           d == CHOOSE x \in fits : TRUE
           hit == Choice("index", d.index, "none")
           refused == Choice("refused", 0, "none")
<1>0. hit.is = "index" /\ hit.index = d.index /\ refused.is = "refused"
  BY DEF Choice
<1>1. layout \in Seq([words : SUBSET STRING, records : BOOLEAN])
  BY DeviceAssumption
<1>2. Resolve(layout) = IF Cardinality(fits) = 1 THEN hit ELSE refused
  BY DEF Resolve
<1> HIDE DEF hit, refused
<1>3. fits # {} /\ Resolve(layout) = hit
  <2> HIDE DEF fits, d
  <2>1. Cardinality(fits) = 1 /\ Resolve(layout) = hit
    BY <1>0, <1>2
  <2>2. Cardinality({}) = 0
    BY FS_EmptySet
  <2> QED
    BY <2>1, <2>2
<1>4. d \in fits
  <2> HIDE DEF fits
  <2> QED
    BY <1>3
<1>5. /\ d \in Listed(layout) /\ (spec.is = "word" => spec.word \in d.words)
      /\ spec.is = "index" => d.index = spec.index
  <2> HIDE DEF d
  <2> QED
    BY <1>4
<1>6. Resolve(layout).index = d.index
  <2> HIDE DEF fits, d
  <2> QED
    BY <1>0, <1>3
<1> HIDE DEF d, fits
<1>7. PICK i \in DOMAIN layout : layout[i].records /\ d = [index |-> i - 1, words |-> layout[i].words]
  BY <1>5 DEF Listed
<1>8. d.index + 1 = i /\ d.words = layout[i].words
  BY <1>1, <1>7
<1> QED
  BY <1>5, <1>6, <1>7, <1>8 DEF IsNamed

LEMMA DeviceInitInv == DeviceInit => DeviceInv
<1> SUFFICES ASSUME DeviceInit PROVE DeviceInv
  OBVIOUS
<1>1. chosen.is = "none"
  BY DEF DeviceInit, Choice
<1>2. /\ holding \in BOOLEAN /\ ~adapter /\ adapter \in BOOLEAN /\ got = "off"
      /\ players = 0 /\ streams = 0 /\ stranded = 0 /\ devices \in Layouts
  BY DEF DeviceInit
<1>3. DevicePlace /\ HandlesCounted
  BY <1>2 DEF DevicePlace, HandlesCounted, Starting
<1>4. IndexHolds
  BY <1>1, <1>2 DEF IndexHolds
<1> QED
  BY <1>3, <1>4 DEF DeviceInv

LEMMA DeviceNextInv == DeviceInv /\ [DeviceNext]_deviceVars => DeviceInv'
<1> SUFFICES ASSUME DeviceInv, [DeviceNext]_deviceVars PROVE DeviceInv'
  OBVIOUS
<1>t. DevicePlace /\ IndexHolds /\ HandlesCounted
  BY DEF DeviceInv
<1>1. CASE ResolveDevice
  <2>1. /\ chosen.is = "none" /\ chosen' = Resolve(devices) /\ foundIn' = devices
        /\ UNCHANGED <<devices, spec, deviceStart, deviceHandles>>
    BY <1>1 DEF ResolveDevice
  <2>2. ~adapter /\ got = "off"
    BY <1>t, <2>1 DEF DevicePlace, Starting
  <2>3. chosen'.is = "index" => IsNamed(spec, foundIn', chosen'.index)
    BY <1>t, <2>1, ResolvedIsNamed DEF DevicePlace
  <2> QED
    BY <1>t, <2>1, <2>2, <2>3
    DEF DeviceInv, DevicePlace, IndexHolds, HandlesCounted, Starting, deviceStart, deviceHandles, IsNamed
<1>2. CASE Replug
  <2>1. devices' \in Layouts /\ UNCHANGED <<deviceChoice, deviceStart, deviceHandles>>
    BY <1>2 DEF Replug
  <2> QED
    BY <1>t, <2>1 DEF DeviceInv, DevicePlace, IndexHolds, HandlesCounted, IsNamed, Starting, deviceChoice, deviceStart,
                      deviceHandles
<1>3. ASSUME StartStep \/ CaptureCloses \/ StopStreamRaises
      PROVE  DeviceInv'
  <2> USE <1>t DEF DeviceInv, DevicePlace, Starting, deviceChoice, deviceHandles, Disposed, IndexHolds, HandlesCounted, IsNamed
  <2>1. CASE CaptureStarts
    BY <2>1 DEF CaptureStarts
  <2>2. CASE PlayerMade
    BY <2>2 DEF PlayerMade
  <2>3. CASE PlayerFails
    BY <2>3 DEF PlayerFails
  <2>4. CASE StreamOpened
    BY <2>4 DEF StreamOpened
  <2>5. CASE OpenFails
    BY <2>5 DEF OpenFails
  <2>6. CASE StreamStarts
    BY <2>6 DEF StreamStarts
  <2>7. CASE StreamFails
    BY <2>7 DEF StreamFails
  <2>8. CASE CaptureCloses
    <3>1. got = "off" /\ ~adapter' /\ adapter' \in BOOLEAN /\ streams' = stranded /\ players' = stranded
      <4>1. CASE adapter
        <5>1. players = stranded + 1 /\ streams = stranded + 1 /\ stranded \in Int
          BY <4>1
        <5>2. streams' = streams - 1 /\ players' = players - 1 /\ got = "off" /\ adapter' = FALSE
          BY <2>8, <4>1 DEF CaptureCloses
        <5>3. (stranded + 1) - 1 = stranded
          BY <5>1
        <5> QED
          BY <5>1, <5>2, <5>3, Zenon
      <4>2. CASE ~adapter
        BY <2>8, <4>2 DEF CaptureCloses
      <4> QED
        BY <4>1, <4>2
    <3> QED
      BY <2>8, <3>1 DEF CaptureCloses
  <2>9. CASE StopStreamRaises
    BY <2>9 DEF StopStreamRaises
  <2> QED
    BY <1>3, <2>1, <2>2, <2>3, <2>4, <2>5, <2>6, <2>7, <2>8, <2>9 DEF StartStep
<1>6. CASE UNCHANGED deviceVars
  BY <1>6, <1>t DEF deviceVars, deviceChoice, deviceStart, deviceHandles, DeviceInv, DevicePlace, IndexHolds,
                    HandlesCounted, IsNamed, Starting
<1> QED
  BY <1>1, <1>2, <1>3, <1>6 DEF DeviceNext, StartStep

LEMMA DeviceInvHolds == DeviceSpec => []DeviceInv
  BY DeviceInitInv, DeviceNextInv, PTL DEF DeviceSpec

\* For all devices that may be plugged in and all that may be configured: a stream whose
\* PyAudio object knows the devices the index was found among records the one the
\* configuration names.  The code has nothing against a device that is replugged between.
THEOREM NamedDeviceIsRecorded == DeviceSpec => []DeviceIsTheNamed
<1>1. DeviceInv => DeviceIsTheNamed
  BY DEF DeviceInv, DevicePlace, IndexHolds, IsNamed, DeviceIsTheNamed
<1> QED
  BY <1>1, DeviceInvHolds, PTL

\* For every number of starts, whichever step of each fails: the native handles that live
\* are those of the running stream and of the stops in which stop_stream raised.
THEOREM HandlesAreGivenBack == DeviceSpec => []HandlesGivenBack
<1>1. DeviceInv => HandlesGivenBack
  BY DEF DeviceInv, DevicePlace, HandlesCounted, Starting, HandlesGivenBack
<1> QED
  BY <1>1, DeviceInvHolds, PTL

----------------------------------------------------------------------------
(* The overlay: the hub's last message stands for the caption state when   *)
(* its broadcasts are done, and a socket's last message for the hub's.     *)

Texts     == CaptionTexts \cup {<<>>}
Snapshots == [committed : Seq(Texts), partial : Texts]
Shown(s)  == CaptionMessage(s, MaxCharsPerLine)
CaptionMessages == {Shown(s) : s \in Snapshots}
Cues      == [start : Nat, end : Nat]

OverlayTypeOK ==
  /\ snap \in Snapshots /\ broadcasts \in Seq(CaptionMessages) /\ last \in CaptionMessages
  /\ clients \subseteq Sockets
  /\ sock \in [Sockets -> {"none", "opening", "open", "cut", "ended"}]
  /\ wire \in [Sockets -> Seq(CaptionMessages)]
  /\ page \in [socket : Sockets \cup {0}, shown : CaptionMessages]
  /\ cues \in Seq(Cues) /\ emitted \in Nat

\* The newest of the messages h that follow m.
Newest(m, h) == IF h = <<>> THEN m ELSE h[Len(h)]

HubHasState == Newest(last, broadcasts) = Shown(snap)

SocketHasLast ==
  \A n \in Sockets : sock[n] = "open" =>
    /\ n \in clients
    /\ wire[n] = <<>> /\ page.socket = n => page.shown = last
    /\ wire[n] # <<>> => Newest(last, wire[n]) = last

OverlayInv == OverlayTypeOK /\ HubHasState /\ SocketHasLast /\ NoDeadClient /\ CuesInOrder

LEMMA NewestOfMore ==
  ASSUME NEW S, NEW h \in Seq(S), NEW e \in S, NEW m
  PROVE  Append(h, e) \in Seq(S) /\ Append(h, e) # <<>> /\ Newest(m, Append(h, e)) = e
<1> DEFINE g == Append(h, e)
<1>1. g \in Seq(S) /\ Len(g) = Len(h) + 1 /\ g[Len(h) + 1] = e /\ Len(h) \in Nat
  BY AppendProperties, LenProperties
<1> HIDE DEF g
<1>2. g # <<>>
  BY <1>1, EmptySeq
<1> QED
  BY <1>1, <1>2 DEF Newest, g

LEMMA NewestOfRest ==
  ASSUME NEW S, NEW h \in Seq(S), h # <<>>, NEW m
  PROVE  Head(h) \in S /\ Tail(h) \in Seq(S) /\ Newest(Head(h), Tail(h)) = Newest(m, h)
<1> DEFINE k == Len(h)
           g == Tail(h)
<1>1. /\ k \in Nat \ {0} /\ Head(h) \in S /\ g \in Seq(S) /\ Len(g) = k - 1
      /\ \A i \in 1 .. k - 1 : g[i] = h[i + 1]
  BY HeadTailProperties, EmptySeq
<1>2. Head(h) = h[1]
  OBVIOUS
<1> HIDE DEF g, k
<1>3. g = <<>> <=> k = 1
  BY <1>1, EmptySeq
<1>4. k # 1 => g[k - 1] = h[k]
  BY <1>1
<1> QED
  BY <1>1, <1>2, <1>3, <1>4 DEF Newest, g, k

\* The caption state stays one of texts that were emitted.
LEMMA CommittedTexts ==
  ASSUME NEW s \in Snapshots, NEW text \in CaptionTexts
  PROVE  /\ OnPartial(s, text, TRUE, Suppressed) \in Snapshots
         /\ OnFinal(s, text, TRUE, Suppressed, MaxLines) \in Snapshots
<1> DEFINE old == s.committed
           lines == IF old # <<>> /\ Last(old) = text THEN old ELSE Append(old, text)
           n == Len(lines)
           m == n - (IF MaxLines < n THEN MaxLines ELSE n) + 1
<1>1. text \in Texts /\ <<>> \in Texts /\ old \in Seq(Texts)
  BY DEF Texts, Snapshots
<1>2. OnPartial(s, text, TRUE, Suppressed) \in Snapshots
  BY <1>1 DEF OnPartial, Partial, Snapshots
<1>3. lines \in Seq(Texts)
  BY <1>1, AppendProperties
<1> HIDE DEF lines
<1>4. n \in Nat /\ m \in 1 .. n + 1
  <2>1. n \in Nat /\ MaxLines \in Nat
    BY <1>3, LenProperties, OverlayAssumption
  <2> HIDE DEF n
  <2> QED
    BY <2>1
<1>5. SubSeq(lines, m, n) \in Seq(Texts)
  <2>1. \A i \in m .. n : lines[i] \in Texts
    BY <1>3, <1>4, ElementOfSeq
  <2> HIDE DEF m, n
  <2> QED
    BY <1>3, <1>4, <2>1, SubSeqProperties
<1>6. Final(s, text, MaxLines) = Snapshot(SubSeq(lines, m, n), <<>>)
  BY DEF Final, LastOf, lines
<1>7. Final(s, text, MaxLines) \in Snapshots
  <2> HIDE DEF m, n
  <2> QED
    BY <1>1, <1>5, <1>6 DEF Snapshot, Snapshots
<1>8. OnFinal(s, text, TRUE, Suppressed, MaxLines) \in Snapshots
  BY <1>7 DEF OnFinal
<1> QED
  BY <1>2, <1>8

\* A change of the caption state leaves its message with the loop.
LEMMA BecomesKnown ==
  ASSUME OverlayTypeOK, HubHasState, NEW next \in Snapshots, Become(next), UNCHANGED last
  PROVE  snap' \in Snapshots /\ broadcasts' \in Seq(CaptionMessages) /\ HubHasState'
<1>1. CASE next = snap
  BY <1>1 DEF Become, OverlayTypeOK, HubHasState
<1>2. CASE next # snap
  <2>1. snap' = next /\ broadcasts' = Append(broadcasts, Shown(next))
    BY <1>2 DEF Become, Shown
  <2>2. Shown(next) \in CaptionMessages /\ broadcasts \in Seq(CaptionMessages)
    BY DEF CaptionMessages, OverlayTypeOK
  <2>3. broadcasts' \in Seq(CaptionMessages) /\ Newest(last, broadcasts') = Shown(next)
    BY <2>1, <2>2, NewestOfMore
  <2> QED
    BY <2>1, <2>3 DEF HubHasState
<1> QED
  BY <1>1, <1>2

\* The bounds of the next cue, whatever is known of its times.
LEMMA CueFits ==
  ASSUME NEW s \in {NoTime, 1}, NEW e \in {NoTime, 2}, NEW prevEnd \in Nat, NEW elapsed \in Nat
  PROVE  LET c == Cue(s, e, prevEnd, elapsed)
         IN c \in Cues /\ prevEnd <= c.start /\ c.start <= c.end
<1> DEFINE from == IF s = NoTime THEN prevEnd ELSE s
           to   == IF e = NoTime THEN elapsed ELSE e
           start == AtLeast(from, prevEnd)
           end   == AtLeast(to, start)
<1>1. from \in Nat /\ to \in Nat
  OBVIOUS
<1> HIDE DEF from, to
<1>2. start \in Nat /\ prevEnd <= start
  BY <1>1 DEF AtLeast
<1> HIDE DEF start
<1>3. end \in Nat /\ start <= end
  BY <1>1, <1>2 DEF AtLeast
<1> HIDE DEF end
<1>4. Cue(s, e, prevEnd, elapsed) = [start |-> start, end |-> end]
  BY DEF Cue, start, end, from, to
<1> QED
  BY <1>2, <1>3, <1>4 DEF Cues

LEMMA OverlayInitInv == OverlayInit => OverlayInv
<1> SUFFICES ASSUME OverlayInit PROVE OverlayInv
  OBVIOUS
<1>1. NoCaption \in Snapshots
  BY EmptySeq DEF NoCaption, Snapshot, Snapshots, Texts
<1>2. Blank = Shown(NoCaption)
  <2>1. NoCaption.committed = <<>> /\ NoCaption.partial = <<>> /\ DOMAIN <<>> = {}
    BY DEF NoCaption, Snapshot
  <2>2. \A n : [i \in DOMAIN NoCaption.committed |-> WrapText(NoCaption.committed[i], n)] = [i \in {} |-> {}]
    BY <2>1
  <2> QED
    BY <2>1, <2>2 DEF Blank, Shown, CaptionMessage
<1>3. Blank \in CaptionMessages
  BY <1>1, <1>2 DEF CaptionMessages
<1>4. OverlayTypeOK
  <2>1. <<>> \in Seq(CaptionMessages) /\ <<>> \in Seq(Cues)
    BY EmptySeq
  <2>2. page \in [socket : Sockets \cup {0}, shown : CaptionMessages]
    BY <1>3 DEF OverlayInit
  <2> QED
    BY <1>1, <1>3, <2>1, <2>2 DEF OverlayInit, OverlayTypeOK
<1>5. HubHasState /\ SocketHasLast /\ NoDeadClient
  BY <1>2 DEF OverlayInit, HubHasState, Newest, SocketHasLast, NoDeadClient
<1>6. CuesInOrder
  <2>1. DOMAIN cues = {}
    BY DEF OverlayInit
  <2> QED
    BY <2>1 DEF CuesInOrder
<1> QED
  BY <1>4, <1>5, <1>6 DEF OverlayInv

\* A step of the caption state: nothing of the hub or the page moves.
LEMMA CaptionsMove ==
  ASSUME OverlayInv, NEW next \in Snapshots, Become(next), UNCHANGED <<last, clients, sock, wire, page>>,
         cues' \in Seq(Cues), emitted' \in Nat, CuesInOrder'
  PROVE  OverlayInv'
<1>1. snap' \in Snapshots /\ broadcasts' \in Seq(CaptionMessages) /\ HubHasState'
  BY BecomesKnown DEF OverlayInv
<1>2. OverlayTypeOK'
  BY <1>1 DEF OverlayInv, OverlayTypeOK
<1>3. SocketHasLast' /\ NoDeadClient'
  BY DEF OverlayInv, SocketHasLast, NoDeadClient
<1> QED
  BY <1>1, <1>2, <1>3 DEF OverlayInv

\* A step that concerns the sockets and the page alone.
LEMMA SocketsMove ==
  ASSUME OverlayInv, UNCHANGED <<snap, broadcasts, last, cues, emitted>>,
         OverlayTypeOK', SocketHasLast', NoDeadClient'
  PROVE  OverlayInv'
  BY DEF OverlayInv, HubHasState, CuesInOrder

LEMMA FinalMoves ==
  ASSUME OverlayInv, NEW text \in CaptionTexts, NEW s \in {NoTime, 1}, NEW e \in {NoTime, 2},
         FinalArrives(text, s, e)
  PROVE  OverlayInv'
<1>t. OverlayTypeOK /\ CuesInOrder
  BY DEF OverlayInv
<1> DEFINE k == Len(cues)
           prevEnd == IF cues = <<>> THEN 0 ELSE Last(cues).end
           c == Cue(s, e, prevEnd, emitted)
<1>1. k \in Nat /\ (cues = <<>> <=> k = 0) /\ emitted \in Nat
  BY <1>t, EmptySeq, LenProperties DEF OverlayTypeOK
<1>2. prevEnd \in Nat /\ (k > 0 => prevEnd = cues[k].end)
  <2>1. k > 0 => cues[k] \in Cues
    BY <1>1, <1>t, ElementOfSeq DEF OverlayTypeOK
  <2> QED
    BY <1>1, <2>1 DEF Cues, Last
<1> HIDE DEF prevEnd
<1>3. c \in Cues /\ prevEnd <= c.start /\ c.start <= c.end
  BY <1>1, <1>2, CueFits
<1> HIDE DEF c
<1>4. CASE UNCHANGED cues
  <2>1. cues' \in Seq(Cues) /\ CuesInOrder'
    BY <1>4, <1>t DEF OverlayTypeOK, CuesInOrder
  <2>2. emitted' \in Nat /\ Become(OnFinal(snap, text, TRUE, Suppressed, MaxLines))
        /\ UNCHANGED <<last, clients, sock, wire, page>>
    <3>1. emitted' \in Nat
      BY <1>1 DEF FinalArrives
    <3> QED
      BY <3>1, Zenon DEF FinalArrives
  <2>3. OnFinal(snap, text, TRUE, Suppressed, MaxLines) \in Snapshots
    BY <1>t, CommittedTexts DEF OverlayTypeOK
  <2> QED
    BY <2>1, <2>2, <2>3, CaptionsMove
<1>5. CASE cues' = Append(cues, c)
  <2> DEFINE g == cues'
  <2>1. /\ g \in Seq(Cues) /\ Len(g) = k + 1 /\ g[k + 1] = c
        /\ \A i \in 1 .. k : g[i] = cues[i]
    BY <1>3, <1>5, <1>t, AppendProperties DEF OverlayTypeOK
  <2>2. \A i \in 1 .. k : cues[i].start <= cues[i].end /\ (i > 1 => cues[i - 1].end <= cues[i].start)
    <3>1. DOMAIN cues = 1 .. k
      BY <1>t DEF OverlayTypeOK
    <3> HIDE DEF k
    <3> QED
      BY <1>t, <3>1 DEF CuesInOrder
  <2>3. DOMAIN g = 1 .. k + 1
    BY <2>1
  <2> HIDE DEF g, k
  <2>4. \A i \in 1 .. k + 1 : g[i].start <= g[i].end /\ (i > 1 => g[i - 1].end <= g[i].start)
    <3> SUFFICES ASSUME NEW i \in 1 .. k + 1
                 PROVE  g[i].start <= g[i].end /\ (i > 1 => g[i - 1].end <= g[i].start)
      OBVIOUS
    <3>1. CASE i = k + 1
      <4>1. i > 1 => k > 0 /\ k \in 1 .. k /\ i - 1 = k
        BY <1>1, <3>1
      <4> QED
        BY <1>1, <1>2, <1>3, <2>1, <3>1, <4>1
    <3>2. CASE i # k + 1
      BY <1>1, <2>1, <2>2, <3>2
    <3> QED
      BY <3>1, <3>2
  <2>5. CuesInOrder'
    BY <2>3, <2>4 DEF CuesInOrder, g
  <2>6. emitted' \in Nat /\ Become(OnFinal(snap, text, TRUE, Suppressed, MaxLines))
        /\ UNCHANGED <<last, clients, sock, wire, page>>
    <3>1. emitted' \in Nat
      BY <1>1 DEF FinalArrives
    <3> QED
      BY <3>1, Zenon DEF FinalArrives
  <2>7. OnFinal(snap, text, TRUE, Suppressed, MaxLines) \in Snapshots
    BY <1>t, CommittedTexts DEF OverlayTypeOK
  <2> QED
    BY <2>1, <2>5, <2>6, <2>7, CaptionsMove DEF g
<1> QED
  BY <1>4, <1>5 DEF FinalArrives, c, prevEnd

LEMMA BroadcastMoves == ASSUME OverlayInv, Broadcast PROVE OverlayInv'
<1>t. OverlayTypeOK /\ HubHasState /\ SocketHasLast /\ NoDeadClient
  BY DEF OverlayInv
<1> DEFINE m == Head(broadcasts)
<1>1. m \in CaptionMessages /\ broadcasts' \in Seq(CaptionMessages) /\ Newest(m, broadcasts') = Newest(last, broadcasts)
      /\ UNCHANGED <<snap, sock, page, cues, emitted>>
  BY <1>t, NewestOfRest DEF Broadcast, OverlayTypeOK
<1> HIDE DEF m
<1>2. CASE m = last
  <2>1. UNCHANGED <<last, wire, clients>>
    BY <1>2 DEF Broadcast, m
  <2>2. OverlayTypeOK' /\ HubHasState'
    BY <1>1, <1>2, <1>t, <2>1 DEF OverlayTypeOK, HubHasState
  <2>3. SocketHasLast' /\ NoDeadClient' /\ CuesInOrder'
    BY <1>1, <1>t, <2>1 DEF OverlayInv, SocketHasLast, NoDeadClient, CuesInOrder
  <2> QED
    BY <2>2, <2>3 DEF OverlayInv
<1>3. CASE m # last
  <2>1. /\ last' = m /\ clients' = {n \in clients : sock[n] = "open"}
        /\ wire' = [n \in Sockets |-> IF n \in clients /\ sock[n] = "open" THEN Append(wire[n], m) ELSE wire[n]]
    BY <1>3 DEF Broadcast, m
  <2>2. \A n \in Sockets : /\ Append(wire[n], m) \in Seq(CaptionMessages) /\ Append(wire[n], m) # <<>>
                           /\ \A x : Newest(x, Append(wire[n], m)) = m
    <3> SUFFICES ASSUME NEW n \in Sockets, NEW x
                 PROVE  /\ Append(wire[n], m) \in Seq(CaptionMessages) /\ Append(wire[n], m) # <<>>
                        /\ Newest(x, Append(wire[n], m)) = m
      OBVIOUS
    <3>1. wire[n] \in Seq(CaptionMessages)
      BY <1>t DEF OverlayTypeOK
    <3> QED
      BY <1>1, <3>1, NewestOfMore
  <2>3. wire' \in [Sockets -> Seq(CaptionMessages)] /\ clients' \subseteq Sockets
    BY <1>t, <2>1, <2>2 DEF OverlayTypeOK
  <2>4. OverlayTypeOK' /\ HubHasState'
    BY <1>1, <1>t, <2>1, <2>3 DEF OverlayTypeOK, HubHasState
  <2>5. SocketHasLast'
    <3> SUFFICES ASSUME NEW n \in Sockets, sock'[n] = "open"
                 PROVE  n \in clients' /\ wire'[n] # <<>> /\ Newest(last', wire'[n]) = last'
      BY DEF SocketHasLast
    <3>1. n \in clients
      BY <1>1, <1>t DEF SocketHasLast
    <3> QED
      BY <1>1, <2>1, <2>2, <3>1
  <2>6. NoDeadClient' /\ CuesInOrder'
    BY <1>1, <2>1 DEF OverlayInv, NoDeadClient, CuesInOrder
  <2> QED
    BY <2>4, <2>5, <2>6 DEF OverlayInv
<1> QED
  BY <1>2, <1>3

LEMMA OverlayNextInv == OverlayInv /\ [OverlayNext]_overlayVars => OverlayInv'
<1> SUFFICES ASSUME OverlayInv, [OverlayNext]_overlayVars PROVE OverlayInv'
  OBVIOUS
<1>t. OverlayTypeOK /\ HubHasState /\ SocketHasLast /\ NoDeadClient
  BY DEF OverlayInv
<1>1. ASSUME NEW text \in CaptionTexts, PartialArrives(text)
      PROVE  OverlayInv'
  <2>1. /\ Become(OnPartial(snap, text, TRUE, Suppressed)) /\ UNCHANGED <<last, clients, sock, wire, page, cues>>
        /\ emitted' \in Nat
    <3>1. emitted' \in Nat
      BY <1>1, <1>t DEF PartialArrives, OverlayTypeOK
    <3> QED
      BY <1>1, <3>1, Zenon DEF PartialArrives
  <2>2. OnPartial(snap, text, TRUE, Suppressed) \in Snapshots
    BY <1>t, CommittedTexts DEF OverlayTypeOK
  <2>3. cues' \in Seq(Cues) /\ CuesInOrder'
    BY <1>t, <2>1 DEF OverlayInv, OverlayTypeOK, CuesInOrder
  <2> QED
    BY <2>1, <2>2, <2>3, CaptionsMove
<1>2. CASE ClearCaptions
  <2>1. Become(Cleared) /\ UNCHANGED <<last, clients, sock, wire, page, cues, emitted>>
    BY <1>2 DEF ClearCaptions
  <2>2. Cleared \in Snapshots
    BY EmptySeq DEF Cleared, NoCaption, Snapshot, Snapshots, Texts
  <2>3. cues' \in Seq(Cues) /\ CuesInOrder' /\ emitted' \in Nat
    BY <1>t, <2>1 DEF OverlayInv, OverlayTypeOK, CuesInOrder
  <2> QED
    BY <2>1, <2>2, <2>3, CaptionsMove
<1>3. ASSUME NEW n \in Sockets, EndpointConnects(n)
      PROVE  OverlayInv'
  <2>1. UNCHANGED <<snap, broadcasts, last, cues, emitted>> /\ sock[n] = "opening" /\ clients' = clients \cup {n}
    BY <1>3 DEF EndpointConnects
  <2>2. CASE /\ sock' = [sock EXCEPT ![n] = "open"] /\ wire' = [wire EXCEPT ![n] = <<last>>] /\ UNCHANGED page
    <3> DEFINE h == <<last>>
    <3>1. h \in Seq(CaptionMessages) /\ h # <<>> /\ Newest(last, h) = last
      BY <1>t DEF OverlayTypeOK, Newest
    <3> HIDE DEF h
    <3>2. wire' = [wire EXCEPT ![n] = h]
      BY <2>2 DEF h
    <3>3. OverlayTypeOK'
      BY <1>t, <2>1, <2>2, <3>1, <3>2 DEF OverlayTypeOK
    <3>4. SocketHasLast'
      BY <1>t, <2>1, <2>2, <3>1, <3>2 DEF OverlayTypeOK, SocketHasLast
    <3>5. NoDeadClient'
      BY <1>t, <2>1, <2>2 DEF OverlayTypeOK, NoDeadClient
    <3> QED
      BY <2>1, <3>3, <3>4, <3>5, SocketsMove
  <2>3. CASE /\ sock' = [sock EXCEPT ![n] = "cut"] /\ page' = [page EXCEPT !.socket = 0] /\ UNCHANGED wire
    <3>1. OverlayTypeOK'
      BY <1>t, <2>1, <2>3 DEF OverlayTypeOK
    <3>2. SocketHasLast'
      <4>1. \A i \in Sockets : page'.socket # i
        BY <1>t, <2>3 DEF OverlayTypeOK, Sockets
      <4> QED
        BY <1>t, <2>1, <2>3, <4>1 DEF OverlayTypeOK, SocketHasLast
    <3>3. NoDeadClient'
      BY <1>t, <2>1, <2>3 DEF OverlayTypeOK, NoDeadClient
    <3> QED
      BY <2>1, <3>1, <3>2, <3>3, SocketsMove
  <2> QED
    BY <1>3, <2>2, <2>3 DEF EndpointConnects
<1>4. ASSUME NEW n \in Sockets, EndpointEnds(n)
      PROVE  OverlayInv'
  <2>1. /\ UNCHANGED <<snap, broadcasts, last, wire, page, cues, emitted>> /\ sock[n] = "cut"
        /\ sock' = [sock EXCEPT ![n] = "ended"] /\ clients' = clients \ {n}
    BY <1>4 DEF EndpointEnds
  <2>2. OverlayTypeOK'
    BY <1>t, <2>1 DEF OverlayTypeOK
  <2>3. SocketHasLast' /\ NoDeadClient'
    BY <1>t, <2>1 DEF OverlayTypeOK, SocketHasLast, NoDeadClient
  <2> QED
    BY <2>1, <2>2, <2>3, SocketsMove
<1>5. ASSUME NEW n \in Sockets, PageConnects(n)
      PROVE  OverlayInv'
  <2>1. /\ UNCHANGED <<snap, broadcasts, last, clients, wire, cues, emitted>> /\ sock[n] = "none"
        /\ sock' = [sock EXCEPT ![n] = "opening"] /\ page' = [page EXCEPT !.socket = n]
    BY <1>5 DEF PageConnects
  <2>2. OverlayTypeOK'
    BY <1>t, <2>1 DEF OverlayTypeOK
  <2>3. SocketHasLast' /\ NoDeadClient'
    BY <1>t, <2>1 DEF OverlayTypeOK, SocketHasLast, NoDeadClient
  <2> QED
    BY <2>1, <2>2, <2>3, SocketsMove
<1>6. ASSUME NEW n \in Sockets, PageRenders(n)
      PROVE  OverlayInv'
  <2>1. /\ UNCHANGED <<snap, broadcasts, last, clients, sock, cues, emitted>>
        /\ page.socket = n /\ wire[n] # <<>>
        /\ page' = [page EXCEPT !.shown = Head(wire[n])] /\ wire' = [wire EXCEPT ![n] = Tail(wire[n])]
    BY <1>6 DEF PageRenders
  <2>2. /\ Head(wire[n]) \in CaptionMessages /\ Tail(wire[n]) \in Seq(CaptionMessages)
        /\ Newest(Head(wire[n]), Tail(wire[n])) = Newest(last, wire[n])
    BY <1>t, <2>1, NewestOfRest DEF OverlayTypeOK
  <2>3. OverlayTypeOK'
    BY <1>t, <2>1, <2>2 DEF OverlayTypeOK
  <2>4. SocketHasLast'
    <3> SUFFICES ASSUME NEW i \in Sockets, sock'[i] = "open"
                 PROVE  /\ i \in clients'
                        /\ wire'[i] = <<>> /\ page'.socket = i => page'.shown = last'
                        /\ wire'[i] # <<>> => Newest(last', wire'[i]) = last'
      BY DEF SocketHasLast
    <3>1. /\ i \in clients /\ (wire[i] # <<>> => Newest(last, wire[i]) = last)
          /\ (wire[i] = <<>> /\ page.socket = i => page.shown = last)
      BY <1>t, <2>1 DEF SocketHasLast
    <3>2. CASE i # n
      BY <1>t, <2>1, <3>1, <3>2 DEF OverlayTypeOK
    <3>3. CASE i = n
      <4>1. wire'[n] = Tail(wire[n]) /\ page'.shown = Head(wire[n])
        BY <1>t, <2>1 DEF OverlayTypeOK
      <4>2. Newest(Head(wire[n]), wire'[n]) = last
        BY <2>1, <2>2, <3>1, <3>3, <4>1
      <4> QED
        BY <2>1, <3>1, <3>3, <4>1, <4>2 DEF Newest
    <3> QED
      BY <3>2, <3>3
  <2>5. NoDeadClient'
    BY <1>t, <2>1 DEF NoDeadClient
  <2> QED
    BY <2>1, <2>3, <2>4, <2>5, SocketsMove
<1>7. ASSUME NEW n \in Sockets, SocketCut(n)
      PROVE  OverlayInv'
  <2>1. /\ UNCHANGED <<snap, broadcasts, last, clients, cues, emitted>>
        /\ sock' = [sock EXCEPT ![n] = "cut"] /\ wire' = [wire EXCEPT ![n] = <<>>]
        /\ page' = [page EXCEPT !.socket = 0]
    BY <1>7 DEF SocketCut
  <2>2. <<>> \in Seq(CaptionMessages)
    BY EmptySeq
  <2>3. OverlayTypeOK'
    BY <1>t, <2>1, <2>2 DEF OverlayTypeOK
  <2>4. \A i \in Sockets : page'.socket # i
    BY <1>t, <2>1 DEF OverlayTypeOK, Sockets
  <2>5. SocketHasLast' /\ NoDeadClient'
    BY <1>t, <2>1, <2>4 DEF OverlayTypeOK, SocketHasLast, NoDeadClient
  <2> QED
    BY <2>1, <2>3, <2>5, SocketsMove
<1>8. CASE UNCHANGED overlayVars
  BY <1>8, <1>t DEF overlayVars, OverlayInv, OverlayTypeOK, HubHasState, SocketHasLast, NoDeadClient, CuesInOrder
<1> QED
  BY <1>1, <1>2, <1>3, <1>4, <1>5, <1>6, <1>7, <1>8, FinalMoves, BroadcastMoves DEF OverlayNext

----------------------------------------------------------------------------
(* What is wrapped and flattened again.                                    *)

\* The rounding up of wrap_text: the last of n pieces of length m begins inside a text
\* of length k, and ends at its end or beyond.
LEMMA PieceCount ==
  ASSUME NEW k \in Nat, NEW m \in Nat \ {0}, k > m
  PROVE  LET n == (k + m - 1) \div m IN n \in Nat \ {0} /\ (n - 1) * m < k /\ k <= n * m
<1> DEFINE n == (k + m - 1) \div m
<1>1. n \in Int /\ n * m <= k + m - 1 /\ k + m - 1 < n * m + m
  OBVIOUS
<1> QED
  BY <1>1

LEMMA PieceOf ==
  ASSUME NEW S, NEW s \in Seq(S), NEW a \in Nat, NEW b \in Nat, a <= b, b <= Len(s)
  PROVE  /\ SubSeq(s, a + 1, b) \in Seq(S) /\ SubSeq(s, 1, b) \in Seq(S)
         /\ SubSeq(s, 1, a) \o SubSeq(s, a + 1, b) = SubSeq(s, 1, b)
<1>1. Len(s) \in Nat
  BY LenProperties
<1>2. \A i \in 1 .. b : s[i] \in S
  BY <1>1, ElementOfSeq
<1>3. SubSeq(s, a + 1, b) \in Seq(S)
  BY <1>2, SubSeqProperties
<1>4. SubSeq(s, 1, b) \in Seq(S)
  BY <1>2, SubSeqProperties
<1>5. a \in 1 - 1 .. Len(s) /\ b \in a .. Len(s) /\ 1 \in 1 .. Len(s) + 1
  BY <1>1
<1> QED
  BY <1>3, <1>4, <1>5, ConcatAdjacentSubSeq

LEMMA WrapIsFlattened ==
  ASSUME NEW S, NEW text \in Seq(S), NEW m \in Nat
  PROVE  WrapText(text, m) \in Seq(Seq(S)) /\ FlattenSeq(WrapText(text, m)) = text
<1> DEFINE k == Len(text)
<1>0. k \in Nat
  BY LenProperties
<1>1. CASE m = 0 \/ k <= m
  <2>1. WrapText(text, m) = <<text>>
    BY <1>1 DEF WrapText
  <2> DEFINE ss == <<text>>
             f == <<text>>
  <2>2. ss \in Seq(Seq(S)) /\ ss # <<>> /\ Len(ss) = 1 /\ ss[1] = text
    OBVIOUS
  <2>3. f = [i \in 1 .. 1 |-> f[i]] /\ f[1] = text
    OBVIOUS
  <2> HIDE DEF ss, f
  <2>4. FlatTo(ss, f)
    BY <2>2, <2>3 DEF FlatTo
  <2>5. FlattenSeq(ss) = f[1]
    BY <2>2, <2>3, <2>4, FlattenIs
  <2> QED
    BY <2>1, <2>2, <2>3, <2>5 DEF ss
<1>2. CASE m # 0 /\ k > m
  <2> DEFINE n == (k + m - 1) \div m
             to(i) == IF i * m < k THEN i * m ELSE k
             ss == [i \in 1 .. n |-> SubSeq(text, (i - 1) * m + 1, to(i))]
             f == [i \in 1 .. n |-> SubSeq(text, 1, to(i))]
  <2>1. n \in Nat \ {0} /\ (n - 1) * m < k /\ k <= n * m
    BY <1>0, <1>2, PieceCount
  <2>2. WrapText(text, m) = ss
    BY <1>2 DEF WrapText
  <2> HIDE DEF n
  <2>3. ASSUME NEW i \in 1 .. n
        PROVE  to(i) \in Nat /\ (i - 1) * m \in Nat /\ (i - 1) * m <= to(i) /\ to(i) <= k
    <3>1. i - 1 \in Nat /\ i \in Nat /\ (i - 1) * m \in Nat /\ i * m \in Nat /\ i * m = (i - 1) * m + m
      BY <2>1
    <3>2. (i - 1) * m <= (n - 1) * m
      BY <2>1, <3>1
    <3> QED
      BY <1>0, <1>2, <2>1, <3>1, <3>2
  <2>4. ASSUME NEW i \in 1 .. n PROVE ss[i] \in Seq(S) /\ f[i] \in Seq(S)
    <3> DEFINE a == (i - 1) * m
               b == to(i)
    <3>1. a \in Nat /\ b \in Nat /\ a <= b /\ b <= k
      BY <2>3
    <3> HIDE DEF a, b
    <3>2. SubSeq(text, a + 1, b) \in Seq(S) /\ SubSeq(text, 1, b) \in Seq(S)
      BY <3>1, PieceOf
    <3> QED
      BY <3>2 DEF a, b
  <2>5. ss \in Seq(Seq(S)) /\ Len(ss) = n /\ ss # <<>>
    <3>1. ss \in [1 .. n -> Seq(S)]
      BY <2>4
    <3> HIDE DEF ss
    <3>2. ss \in Seq(Seq(S)) /\ Len(ss) = n
      BY <2>1, <3>1
    <3> QED
      BY <2>1, <3>2, EmptySeq
  <2>6. ASSUME NEW i \in 1 .. n PROVE f[i] = IF i = 1 THEN ss[i] ELSE f[i - 1] \o ss[i]
    <3>1. CASE i = 1
      <4>1. (i - 1) * m + 1 = 1
        BY <1>0, <1>2, <3>1
      <4>2. ss[i] = SubSeq(text, 1, to(i)) /\ f[i] = SubSeq(text, 1, to(i))
        BY <4>1
      <4> HIDE DEF ss, f
      <4> QED
        BY <3>1, <4>2
    <3>2. CASE i # 1
      <4>1. i - 1 \in 1 .. n /\ to(i - 1) = (i - 1) * m
        BY <1>0, <1>2, <2>1, <2>3, <3>2
      <4>2. SubSeq(text, 1, (i - 1) * m) \o SubSeq(text, (i - 1) * m + 1, to(i)) = SubSeq(text, 1, to(i))
        <5> DEFINE a == (i - 1) * m
                   b == to(i)
        <5>1. a \in Nat /\ b \in Nat /\ a <= b /\ b <= k
          BY <2>3
        <5> HIDE DEF a, b
        <5>2. SubSeq(text, 1, a) \o SubSeq(text, a + 1, b) = SubSeq(text, 1, b)
          BY <5>1, PieceOf
        <5> QED
          BY <5>2 DEF a, b
      <4> QED
        BY <3>2, <4>1, <4>2
    <3> QED
      BY <3>1, <3>2
  <2>7. FlatTo(ss, f)
    BY <2>5, <2>6 DEF FlatTo
  <2>8. f = [i \in 1 .. Len(ss) |-> f[i]]
    BY <2>5
  <2>9. FlattenSeq(ss) = f[n]
    <3> HIDE DEF f, ss
    <3> QED
      BY <2>5, <2>7, <2>8, FlattenIs
  <2>10. f[n] = text
    <3>1. to(n) = k
      BY <1>0, <2>1
    <3>2. f[n] = SubSeq(text, 1, k)
      BY <2>1, <3>1
    <3> QED
      BY <3>2, SubSeqFull
  <2> HIDE DEF ss, f
  <2> QED
    BY <2>2, <2>5, <2>9, <2>10
<1> QED
  BY <1>0, <1>1, <1>2

\* Wrapping loses and invents nothing: the pieces of all lines are the lines.
LEMMA LinesAreFlattened ==
  ASSUME NEW S, NEW lines \in Seq(Seq(S)), NEW m \in Nat
  PROVE  LET pieces == [i \in DOMAIN lines |-> WrapText(lines[i], m)]
         IN /\ FlattenSeq(pieces) \in Seq(Seq(S))
            /\ FlattenSeq(FlattenSeq(pieces)) = FlattenSeq(lines)
<1> DEFINE P(s) == [i \in DOMAIN s |-> WrapText(s[i], m)]
           G == {s \in Seq(Seq(S)) : /\ P(s) \in Seq(Seq(Seq(S))) /\ FlattenSeq(P(s)) \in Seq(Seq(S))
                                     /\ FlattenSeq(FlattenSeq(P(s))) = FlattenSeq(s)}
<1>1. <<>> \in G
  <2>1. P(<<>>) = <<>>
    OBVIOUS
  <2>2. <<>> \in Seq(Seq(Seq(S))) /\ <<>> \in Seq(Seq(S)) /\ FlattenSeq(<<>>) = <<>>
    BY EmptySeq, FlattenAppend
  <2> HIDE DEF P
  <2> QED
    BY <2>1, <2>2
<1>2. ASSUME NEW s \in Seq(Seq(S)), NEW e \in Seq(S), s \in G PROVE Append(s, e) \in G
  <2> DEFINE w == WrapText(e, m)
             a == FlattenSeq(P(s))
  <2>1. w \in Seq(Seq(S)) /\ FlattenSeq(w) = e
    BY WrapIsFlattened
  <2>2. P(s) \in Seq(Seq(Seq(S))) /\ a \in Seq(Seq(S)) /\ FlattenSeq(a) = FlattenSeq(s)
    BY <1>2
  <2>3. P(Append(s, e)) = Append(P(s), w)
    OBVIOUS
  <2>4. Append(s, e) \in Seq(Seq(S)) /\ FlattenSeq(Append(s, e)) = FlattenSeq(s) \o e
    BY AppendProperties, FlattenAppend
  <2> HIDE DEF w, P
  <2>5. Append(P(s), w) \in Seq(Seq(Seq(S))) /\ FlattenSeq(Append(P(s), w)) = a \o w
    BY <2>1, <2>2, AppendProperties, FlattenAppend
  <2> HIDE DEF a
  <2>6. a \o w \in Seq(Seq(S)) /\ FlattenSeq(a \o w) = FlattenSeq(a) \o FlattenSeq(w)
    BY <2>1, <2>2, ConcatProperties, FlattenConcat
  <2> QED
    BY <2>1, <2>2, <2>3, <2>4, <2>5, <2>6
<1>3. lines \in G
  <2> HIDE DEF G
  <2> QED
    BY <1>1, <1>2, SeqInduction
<1> QED
  BY <1>3

LEMMA WrapKept ==
  ASSUME snap \in Snapshots PROVE WrapKeepsText
<1> DEFINE lines == snap.committed
           part == snap.partial
           m == MaxCharsPerLine
           S == STRING
<1>1. lines \in Seq(Seq(S)) /\ part \in Seq(S) /\ m \in Nat
  <2>1. Texts \subseteq Seq(S)
    BY OverlayAssumption, EmptySeq DEF Texts
  <2>2. lines \in Seq(Texts) /\ part \in Texts
    BY DEF Snapshots
  <2> HIDE DEF lines, part, m, S
  <2> QED
    BY <2>1, <2>2, SeqMonotonic, OverlayAssumption DEF m
<1> HIDE DEF S
<1>2. FlattenSeq(FlattenSeq([i \in DOMAIN lines |-> WrapText(lines[i], m)])) = FlattenSeq(lines)
  <2> HIDE DEF lines, m
  <2> QED
    BY <1>1, LinesAreFlattened
<1>3. FlattenSeq(IF part = <<>> THEN <<>> ELSE WrapText(part, m)) = part
  <2> HIDE DEF part, m
  <2>1. FlattenSeq(<<>>) = <<>>
    BY <1>1, EmptySeq, FlattenAppend
  <2>2. FlattenSeq(WrapText(part, m)) = part
    BY <1>1, WrapIsFlattened
  <2> QED
    BY <2>1, <2>2
<1> QED
  BY <1>2, <1>3 DEF WrapKeepsText, Display, CaptionMessage

\* For all texts and lengths of a line, and however many sockets break and are opened
\* again: a page with nothing on its way shows the caption state, wrapping loses and
\* invents nothing, the hub keeps no client that is gone, and the cues of the
\* transcript file are in order.
THEOREM PagesShowTheState == OverlaySpec => []OverlayIsExact
<1>1. OverlayInv => PageShowsState
  <2> SUFFICES ASSUME OverlayInv, page.socket # 0, sock[page.socket] = "open",
                      wire[page.socket] = <<>>, broadcasts = <<>>
               PROVE  page.shown = CaptionMessage(snap, MaxCharsPerLine)
    BY DEF PageShowsState
  <2>1. page.socket \in Sockets
    BY DEF OverlayInv, OverlayTypeOK
  <2>2. page.shown = last
    BY <2>1 DEF OverlayInv, SocketHasLast
  <2>3. last = Shown(snap)
    BY DEF OverlayInv, HubHasState, Newest
  <2> QED
    BY <2>2, <2>3 DEF Shown
<1>2. OverlayInv => OverlayIsExact
  BY <1>1, WrapKept DEF OverlayInv, OverlayTypeOK, OverlayIsExact
<1> QED
  BY <1>2, OverlayInitInv, OverlayNextInv, PTL DEF OverlaySpec
=============================================================================
