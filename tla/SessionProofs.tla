--------------------------- MODULE SessionProofs ---------------------------
(***************************************************************************)
(* A session of the bridge as its host sees it, for all settings: when it  *)
(* is given up (SessionTiming), which captions it shows (EpochGate), and   *)
(* what becomes of the requests and the audio it sends (OutQueue).         *)
(***************************************************************************)
EXTENDS OutQueue, EpochGate, SessionTiming, SequenceTheorems, TLAPS

----------------------------------------------------------------------------
(* The clocks.  A silent child is noticed in time because the heartbeat    *)
(* thread looks once per interval.                                         *)

\* At the end of the sleep the child has been mute for no longer than it may be.
BeatIsNear ==
  phase = "up" =>
    /\ mute <= silence
    /\ mute + nap <= HeartbeatTimeout + HeartbeatInterval

LEMMA DelayType ==
  ASSUME NEW n \in Nat PROVE Delay(n) \in Nat
<1>1. BaseBackoff * n \in Nat
  BY TimesAssumption
<1> QED BY <1>1, TimesAssumption DEF Delay

LEMMA ClocksTypeInit == ClocksInit => ClocksTypeOK
<1> SUFFICES ASSUME ClocksInit PROVE ClocksTypeOK
  OBVIOUS
<1>1. asking \in BOOLEAN /\ unread \in BOOLEAN
  BY Zenon DEF ClocksInit
<1>2. scale \in {1, 2, 4, 8, 16, 32, MaxScale}
  BY DEF ClocksInit
<1>3. phase \in {"off", "starting", "up", "teardown", "backoff"}
      /\ child \in {"none", "loading", "running", "hung"}
  BY DEF ClocksInit
<1>4. /\ patience \in Nat /\ hello \in Nat /\ rest \in Nat
      /\ nap \in Nat /\ silence \in Nat /\ mute \in Nat /\ age \in Nat
  BY DEF ClocksInit
<1> QED BY <1>1, <1>2, <1>3, <1>4 DEF ClocksTypeOK

LEMMA ClocksTypeNext == ClocksTypeOK /\ [ClocksNext]_clocksVars => ClocksTypeOK'
<1> SUFFICES ASSUME ClocksTypeOK, [ClocksNext]_clocksVars PROVE ClocksTypeOK'
  OBVIOUS
<1> USE TimesAssumption DEF ClocksTypeOK
<1>1. CASE Start
  BY <1>1 DEF Start, Spawn, MaxScale
<1>2. CASE Ready
  BY <1>2 DEF Ready, MaxScale
<1>3. CASE HelloExpires \/ ChildFails
  BY <1>3 DEF HelloExpires, ChildFails, waiting, beat, mail, recovery
<1>4. CASE Teardown
  <2>1. scale' \in {1, 2, 4, 8, 16, 32, MaxScale}
    BY <1>4 DEF Teardown, MaxScale
  <2>2. rest' \in Nat
    BY <1>4, <2>1, DelayType DEF Teardown, MaxScale
  <2> QED BY <1>4, <2>1, <2>2 DEF Teardown, waiting, beat
<1>5. CASE Respawn
  BY <1>5 DEF Respawn, Spawn, waiting, recovery
<1>6. CASE GiveUp \/ Stop
  BY <1>6 DEF GiveUp, Stop, Off, beat, recovery
<1>7. CASE Beat
  BY <1>7 DEF Beat, waiting, mail, recovery
<1>8. CASE ChildReads
  <2>1. silence' \in Nat /\ mute' \in Nat
    BY <1>8, RepliesAssumption DEF ChildReads
  <2>2. unread' \in BOOLEAN
    BY <1>8 DEF ChildReads
  <2> QED BY <1>8, <2>1, <2>2 DEF ChildReads, waiting, recovery
<1>9. CASE ChildHangs
  BY <1>9 DEF ChildHangs, waiting, beat, mail, recovery
<1>10. CASE Tick
  BY <1>10 DEF Tick, NobodyDue
<1>11. CASE UNCHANGED clocksVars
  BY <1>11 DEF clocksVars, waiting, beat, mail, recovery
<1> QED BY <1>1, <1>2, <1>3, <1>4, <1>5, <1>6, <1>7, <1>8, <1>9, <1>10, <1>11 DEF ClocksNext

LEMMA BeatNext == ClocksTypeOK /\ BeatIsNear /\ [ClocksNext]_clocksVars => BeatIsNear'
<1> SUFFICES ASSUME ClocksTypeOK, BeatIsNear, [ClocksNext]_clocksVars, phase' = "up"
             PROVE  mute' <= silence' /\ mute' + nap' <= HeartbeatTimeout + HeartbeatInterval
  BY DEF BeatIsNear
<1> USE TimesAssumption DEF ClocksTypeOK, BeatIsNear
<1>1. CASE Ready
  BY <1>1 DEF Ready
<1>2. CASE Beat
  BY <1>2 DEF Beat
<1>3. CASE ChildReads
  BY <1>3 DEF ChildReads
<1>4. CASE ChildHangs
  BY <1>4 DEF ChildHangs, beat
<1>5. CASE Tick
  BY <1>5 DEF Tick, NobodyDue
<1>6. CASE UNCHANGED clocksVars
  BY <1>6 DEF clocksVars, beat
<1>7. CASE Start \/ HelloExpires \/ ChildFails \/ Teardown \/ Respawn \/ GiveUp \/ Stop
  BY <1>7 DEF Start, Spawn, HelloExpires, ChildFails, Teardown, Respawn, GiveUp, Stop, Off
<1> QED BY <1>1, <1>2, <1>3, <1>4, <1>5, <1>6, <1>7 DEF ClocksNext

\* Whatever the settings, a child that has fallen silent is given up no later than one
\* timeout and one interval after it was last heard.
THEOREM SilenceIsNoticed == ClocksSpec => []NoticedInTime
<1>1. ClocksInit => ClocksTypeOK /\ BeatIsNear
  BY ClocksTypeInit DEF ClocksInit, BeatIsNear
<1>2. ClocksTypeOK /\ BeatIsNear /\ [ClocksNext]_clocksVars => (ClocksTypeOK /\ BeatIsNear)'
  BY ClocksTypeNext, BeatNext
<1>3. ClocksTypeOK /\ BeatIsNear => NoticedInTime
  BY TimesAssumption DEF ClocksTypeOK, BeatIsNear, NoticedInTime
<1> QED BY <1>1, <1>2, <1>3, PTL DEF ClocksSpec

----------------------------------------------------------------------------
(* The caption gate compares a caption with the last one only.  That this  *)
(* is enough rests on three facts the properties do not say: the reader    *)
(* holds a number that was not shown in its epoch, nothing was shown in    *)
(* an epoch its reader has not reached, and a gate that remembers nothing  *)
(* has shown nothing in the active epoch.                                  *)

\* The caption the reader holds is of the reader's epoch, and its number was
\* taken and not shown in it.
HandIsNew ==
  pc = "evaluate" =>
    /\ hand \in Captions /\ hand.epoch = stampedEpoch /\ hand.seq \notin numbers
    /\ \A i \in 1 .. Len(accepted) :
         accepted[i].epoch = stampedEpoch => accepted[i].seq # hand.seq

\* What was shown is of the reader's epoch or an earlier one, and the numbers
\* to come were not shown in the reader's.
ShownBefore ==
  \A i \in 1 .. Len(accepted) :
    /\ accepted[i].epoch <= stampedEpoch
    /\ accepted[i].epoch = stampedEpoch => accepted[i].seq \notin numbers

\* Without a memory nothing was shown in the active epoch.
MemoryOfAll ==
  last = Nothing => \A i \in 1 .. Len(accepted) : accepted[i].epoch # activeEpoch

\* A caption that waits to be shown is of the reader's epoch.
HoldsCaption == pc = "apply" => hand \in Captions /\ hand.epoch = stampedEpoch

\* No caption was shown before its epoch, nor is one of an epoch to come; and while
\* the reader holds a caption, none of its epoch has been shown late.
OnTime ==
  /\ \A i \in 1 .. Len(applied) :
       /\ applied[i].epoch <= stampedEpoch
       /\ applied[i].epoch <= shownAt[i] /\ shownAt[i] <= activeEpoch
       /\ pc # "idle" /\ applied[i].epoch = stampedEpoch => shownAt[i] = stampedEpoch
  /\ OneLateAtMost

GateInv ==
  /\ GateTypeOK /\ HandIsNew /\ ShownBefore /\ MemoryOfAll /\ HoldsCaption /\ OnTime
  /\ ShownInOrder /\ NoEcho /\ MemoryIsOfThisEpoch

\* The epochs of what was shown, as the arithmetic needs them.
LEMMA ShownEpochs ==
  ASSUME GateTypeOK, ShownBefore
  PROVE  \A i \in 1 .. Len(accepted) :
           accepted[i].epoch \in Nat /\ accepted[i].epoch <= stampedEpoch
<1> TAKE i \in 1 .. Len(accepted)
<1>1. accepted[i] \in Captions
  BY DEF GateTypeOK
<1>2. accepted[i].epoch \in 1 .. LastEpoch
  BY <1>1 DEF Captions, Epochs
<1> QED
  BY <1>2, LastEpochAssumption DEF ShownBefore

\* The epochs of what the callback was given.
LEMMA AppliedEpochs ==
  ASSUME GateTypeOK
  PROVE  \A i \in 1 .. Len(applied) : applied[i].epoch \in Nat /\ shownAt[i] \in Nat
<1> TAKE i \in 1 .. Len(applied)
<1>1. applied[i] \in Captions /\ shownAt[i] \in Epochs
  BY DEF GateTypeOK
<1> QED
  BY <1>1, LastEpochAssumption DEF Captions, Epochs

\* A memory is never Nothing: its number is at least 1.
LEMMA MemoryIsSomething ==
  ASSUME NEW c \in Captions
  PROVE  /\ Remembered(c) \in Memories /\ Remembered(c) # Nothing
         /\ Remembered(c).seq = c.seq /\ Remembered(c).time = c.time /\ Remembered(c).text = c.text
  BY MaxSeqAssumption DEF Captions, Remembered, Memories, Nothing, Seqs

LEMMA GateInitInv == GateInit => GateInv
  BY MaxSeqAssumption, LastEpochAssumption
  DEF GateInit, GateInv, GateTypeOK, HandIsNew, ShownBefore, MemoryOfAll, HoldsCaption, ShownInOrder, NoEcho,
      MemoryIsOfThisEpoch, OnTime, OneLateAtMost, Epochs, Seqs

\* A caption the gate lets through is newer than all that was shown in the
\* active epoch.
LEMMA PassedIsNewer ==
  ASSUME GateInv, pc = "evaluate", ~StaleEpoch, ~OutOfOrder
  PROVE  \A i \in 1 .. Len(accepted) : accepted[i].epoch = activeEpoch => accepted[i].seq < hand.seq
<1>1. CASE last = Nothing
  BY <1>1 DEF GateInv, MemoryOfAll
<1>2. CASE last # Nothing
  <2> DEFINE n == Len(accepted)
  <2>1. n \in Nat \ {0} /\ \A i \in 1 .. n : accepted[i] \in Captions
    BY <1>2 DEF GateInv, GateTypeOK, MemoryIsOfThisEpoch
  <2>2. accepted[n].epoch = activeEpoch /\ Remembered(accepted[n]) = last
    BY <1>2 DEF GateInv, MemoryIsOfThisEpoch
  <2>3. last.seq = accepted[n].seq
    BY <2>1, <2>2, MemoryIsSomething
  <2>4. hand \in Captions /\ hand.epoch = activeEpoch /\ accepted[n].seq # hand.seq
    BY <2>1, <2>2 DEF GateInv, HandIsNew, StaleEpoch, ShouldApply
  <2>5. accepted[n].seq \in Nat /\ hand.seq \in Nat
    BY <2>1, <2>4 DEF Captions, Seqs
  <2>6. accepted[n].seq < hand.seq
    BY <1>2, <2>3, <2>4, <2>5 DEF OutOfOrder
  <2>7. ASSUME NEW i \in 1 .. n, accepted[i].epoch = activeEpoch
        PROVE  accepted[i].seq < hand.seq
    <3>1. CASE i = n
      BY <3>1, <2>6
    <3>2. CASE i # n
      <4>1. i < n
        BY <3>2, <2>1
      <4>2. accepted[i].seq < accepted[n].seq
        BY <4>1, <2>1, <2>2, <2>7 DEF GateInv, ShownInOrder
      <4>3. accepted[i].seq \in Nat
        BY <2>1 DEF Captions, Seqs
      <4> QED
        BY <4>2, <4>3, <2>5, <2>6
    <3> QED
      BY <3>1, <3>2
  <2> QED
    BY <2>7
<1> QED
  BY <1>1, <1>2

LEMMA AcceptKeepsIInv ==
  ASSUME GateInv, pc = "evaluate", ~StaleEpoch, ~OutOfOrder, ~Duplicate, Accept,
         UNCHANGED <<activeEpoch, stampedEpoch, numbers, hand, shown>>, OnTime'
  PROVE  GateInv'
<1> DEFINE n == Len(accepted)
<1>1. hand \in Captions /\ hand.epoch = activeEpoch /\ hand.epoch = stampedEpoch
  BY DEF GateInv, HandIsNew, StaleEpoch, ShouldApply
<1>2. n \in Nat /\ accepted \in Seq(Captions) /\ \A i \in 1 .. n : accepted[i] \in Captions
  BY DEF GateInv, GateTypeOK
<1>3. /\ accepted' \in Seq(Captions) /\ Len(accepted') = n + 1 /\ accepted'[n + 1] = hand
      /\ \A i \in 1 .. n : accepted'[i] = accepted[i]
  BY <1>1, <1>2 DEF Accept
<1>4. \A i \in 1 .. n : accepted[i].epoch = activeEpoch => accepted[i].seq < hand.seq
  BY PassedIsNewer
<1>5. last' = Remembered(hand)
  <2>1. CASE last = Nothing
    BY <2>1 DEF Accept
  <2>2. CASE last # Nothing
    <3>1. n \in 1 .. n /\ accepted[n].epoch = activeEpoch /\ last.seq = accepted[n].seq
      BY <2>2, <1>2, MemoryIsSomething DEF GateInv, MemoryIsOfThisEpoch
    <3>2. hand.seq > last.seq
      BY <3>1, <1>4
    <3> QED
      BY <3>2 DEF Accept
  <2> QED
    BY <2>1, <2>2
<1>6. GateTypeOK'
  BY <1>1, <1>3, <1>5, MemoryIsSomething DEF GateInv, GateTypeOK, Accept, shown
<1>7. HandIsNew' /\ HoldsCaption'
  BY <1>1 DEF HandIsNew, HoldsCaption, Accept
<1>8. ShownBefore'
  BY <1>1, <1>2, <1>3 DEF GateInv, ShownBefore, HandIsNew, GateTypeOK, Epochs
<1>9. MemoryOfAll'
  BY <1>1, <1>5, MemoryIsSomething DEF MemoryOfAll
<1>10. ShownInOrder'
  <2> SUFFICES ASSUME NEW i \in 1 .. n + 1, NEW j \in 1 .. n + 1, i < j,
                      accepted'[i].epoch = accepted'[j].epoch
               PROVE  accepted'[i].seq < accepted'[j].seq
    BY <1>3 DEF ShownInOrder
  <2>1. CASE j = n + 1
    BY <2>1, <1>1, <1>2, <1>3, <1>4
  <2>2. CASE j # n + 1
    BY <2>2, <1>2, <1>3 DEF GateInv, ShownInOrder
  <2> QED
    BY <2>1, <2>2
<1>11. NoEcho'
  <2> SUFFICES ASSUME NEW i \in 1 .. n,
                      accepted'[i + 1].final, accepted'[i].epoch = accepted'[i + 1].epoch,
                      accepted'[i].time = accepted'[i + 1].time,
                      accepted'[i].text = accepted'[i + 1].text
               PROVE  FALSE
    BY <1>2, <1>3 DEF NoEcho
  <2>1. CASE i = n
    <3>1. accepted[n].epoch = activeEpoch /\ accepted'[i] = accepted[n] /\ accepted'[i + 1] = hand
      BY <2>1, <1>1, <1>2, <1>3
    <3>2. last # Nothing
      BY <3>1, <1>2 DEF GateInv, MemoryOfAll
    <3>3. last.time = accepted[n].time /\ last.text = accepted[n].text
      BY <3>2, <2>1, <1>2, MemoryIsSomething DEF GateInv, MemoryIsOfThisEpoch
    <3> QED
      BY <3>1, <3>2, <3>3 DEF Duplicate
  <2>2. CASE i # n
    <3>1. i \in 1 .. n - 1 /\ accepted'[i] = accepted[i] /\ accepted'[i + 1] = accepted[i + 1]
      BY <2>2, <1>2, <1>3
    <3> QED
      BY <3>1 DEF GateInv, NoEcho
  <2> QED
    BY <2>1, <2>2
<1>12. MemoryIsOfThisEpoch'
  BY <1>1, <1>2, <1>3, <1>5 DEF MemoryIsOfThisEpoch
<1> QED
  BY <1>6, <1>7, <1>8, <1>9, <1>10, <1>11, <1>12 DEF GateInv

\* Only the callback's step shows a caption, and the reader comes to it with one it
\* read when its epoch was active.
LEMMA OnTimeNext == GateInv /\ [GateNext]_gateVars => OnTime'
<1> SUFFICES ASSUME GateInv, [GateNext]_gateVars PROVE OnTime'
  OBVIOUS
<1> USE DEF GateInv
<1>1. /\ activeEpoch \in Nat /\ stampedEpoch \in Nat /\ stampedEpoch <= activeEpoch
      /\ applied \in Seq(Captions) /\ shownAt \in Seq(Epochs) /\ Len(shownAt) = Len(applied)
  BY DEF GateTypeOK, Epochs
<1>2. \A i \in 1 .. Len(applied) : applied[i].epoch \in Nat /\ shownAt[i] \in Nat
  BY AppliedEpochs
<1>3. CASE Read
  <2>1. UNCHANGED <<activeEpoch, stampedEpoch, applied, shownAt>>
    BY <1>3 DEF Read, gate, shown
  <2>2. pc' # "idle" => stampedEpoch = activeEpoch
    BY <1>3 DEF Read, ShouldApply
  <2>3. ASSUME NEW i \in 1 .. Len(applied), pc' # "idle", applied[i].epoch = stampedEpoch
        PROVE  shownAt[i] = stampedEpoch
    <3>1. applied[i].epoch <= shownAt[i] /\ shownAt[i] <= activeEpoch
      BY DEF OnTime
    <3> QED
      BY <1>1, <1>2, <2>2, <2>3, <3>1
  <2> QED
    BY <2>1, <2>3 DEF OnTime, OneLateAtMost
<1>4. CASE Evaluate
  <2>1. pc # "idle" /\ UNCHANGED <<activeEpoch, stampedEpoch, applied, shownAt>>
    BY <1>4 DEF Evaluate, shown
  <2> QED
    BY <2>1 DEF OnTime, OneLateAtMost
<1>5. CASE Apply
  <2> DEFINE n == Len(applied)
  <2>1. hand \in Captions /\ hand.epoch = stampedEpoch /\ pc = "apply" /\ pc' = "idle"
    BY <1>5 DEF Apply, HoldsCaption
  <2>2. /\ Len(applied') = n + 1 /\ applied'[n + 1] = hand /\ shownAt'[n + 1] = activeEpoch
        /\ \A i \in 1 .. n : applied'[i] = applied[i] /\ shownAt'[i] = shownAt[i]
        /\ n \in Nat /\ UNCHANGED <<activeEpoch, stampedEpoch>>
    BY <1>1, <1>5, <2>1 DEF Apply, gate, GateTypeOK
  <2>3. \A i \in 1 .. n + 1 :
           /\ applied'[i].epoch <= stampedEpoch
           /\ applied'[i].epoch <= shownAt'[i] /\ shownAt'[i] <= activeEpoch
    BY <1>1, <2>1, <2>2 DEF OnTime
  <2>4. ASSUME NEW i \in 1 .. n + 1, NEW j \in 1 .. n + 1, i < j
        PROVE  /\ applied'[i].epoch <= applied'[j].epoch
               /\ applied'[i].epoch = applied'[j].epoch => shownAt'[i] = applied'[i].epoch
    <3>1. CASE j = n + 1
      BY <3>1, <2>1, <2>2, <2>4 DEF OnTime
    <3>2. CASE j # n + 1
      <4>1. i \in 1 .. n /\ j \in 1 .. n /\ applied'[i] = applied[i] /\ applied'[j] = applied[j]
            /\ shownAt'[i] = shownAt[i]
        BY <3>2, <2>2, <2>4
      <4> QED
        BY <4>1, <2>4 DEF OnTime, OneLateAtMost
    <3> QED
      BY <3>1, <3>2
  <2>5. OneLateAtMost'
    BY <2>2, <2>4 DEF OneLateAtMost
  <2> QED
    BY <2>1, <2>2, <2>3, <2>5 DEF OnTime
<1>6. CASE Advance
  <2>1. activeEpoch' = activeEpoch + 1 /\ UNCHANGED <<stampedEpoch, pc, applied, shownAt>>
    BY <1>6 DEF Advance, reader, shown
  <2> QED
    BY <1>1, <1>2, <2>1 DEF OnTime, OneLateAtMost
<1>7. CASE NewReader
  <2>1. pc' = "idle" /\ stampedEpoch' = activeEpoch /\ UNCHANGED <<activeEpoch, applied, shownAt>>
    BY <1>7 DEF NewReader, gate, shown
  <2> QED
    BY <1>1, <1>2, <2>1 DEF OnTime, OneLateAtMost
<1>8. CASE UNCHANGED gateVars
  BY <1>8 DEF gateVars, gate, reader, shown, OnTime, OneLateAtMost
<1> QED
  BY <1>3, <1>4, <1>5, <1>6, <1>7, <1>8 DEF GateNext

LEMMA GateNextInv == GateInv /\ [GateNext]_gateVars => GateInv'
<1> SUFFICES ASSUME GateInv, [GateNext]_gateVars PROVE GateInv'
  OBVIOUS
<1> USE DEF GateInv
<1>0. OnTime'
  BY OnTimeNext
<1>1. CASE Read
  <2>1. UNCHANGED <<activeEpoch, last, stampedEpoch, accepted, applied, shownAt>>
    BY <1>1 DEF Read, gate, shown
  <2>2. numbers' \subseteq numbers
    BY <1>1 DEF Read
  <2>3. pc' = "evaluate" => HandIsNew'
    <3> SUFFICES ASSUME pc' = "evaluate" PROVE HandIsNew'
      OBVIOUS
    <3>1. PICK n \in numbers : /\ numbers' = numbers \ {n}
                               /\ \E c \in {d \in Captions : d.seq = n} :
                                    IF ShouldApply(stampedEpoch) /\ c.epoch = stampedEpoch
                                      THEN pc' = "evaluate" /\ hand' = c
                                      ELSE UNCHANGED <<pc, hand>>
      BY <1>1 DEF Read
    <3>2. hand' \in Captions /\ hand'.seq = n /\ hand'.epoch = stampedEpoch
      BY <3>1, <1>1 DEF Read
    <3> QED
      BY <3>1, <3>2, <2>1 DEF HandIsNew, ShownBefore
  <2>4. pc' \in {"idle", "evaluate"} /\ hand' \in Captions \cup {Nothing}
    BY <1>1 DEF Read, GateTypeOK
  <2>5. GateTypeOK'
    BY <2>1, <2>2, <2>4 DEF GateTypeOK
  <2>6. HandIsNew' /\ HoldsCaption'
    BY <2>3, <2>4 DEF HandIsNew, HoldsCaption
  <2> QED
    BY <1>0, <2>1, <2>2, <2>5, <2>6
    DEF ShownBefore, MemoryOfAll, ShownInOrder, NoEcho, MemoryIsOfThisEpoch
<1>2. CASE Evaluate
  <2>1. CASE StaleEpoch \/ OutOfOrder \/ Duplicate
    BY <1>0, <1>2, <2>1 DEF Evaluate, shown, GateTypeOK, HandIsNew, HoldsCaption, ShownBefore, MemoryOfAll, ShownInOrder,
                      NoEcho, MemoryIsOfThisEpoch
  <2>2. CASE ~(StaleEpoch \/ OutOfOrder \/ Duplicate)
    BY <1>0, <1>2, <2>2, AcceptKeepsIInv DEF Evaluate
  <2> QED
    BY <2>1, <2>2
<1>3. CASE Apply
  <2>1. hand \in Captions
    BY <1>3 DEF Apply, HoldsCaption
  <2> QED
    BY <1>0, <1>3, <2>1 DEF Apply, gate, GateTypeOK, Epochs, HandIsNew, HoldsCaption, ShownBefore, MemoryOfAll, ShownInOrder,
                      NoEcho, MemoryIsOfThisEpoch
<1>4. CASE Advance
  <2>1. activeEpoch \in Nat /\ activeEpoch' = activeEpoch + 1 /\ activeEpoch' \in Epochs /\ stampedEpoch \in 1 .. activeEpoch
    BY <1>4, LastEpochAssumption DEF Advance, GateTypeOK, Epochs
  <2>2. last' = Nothing /\ UNCHANGED <<stampedEpoch, numbers, pc, hand, accepted, applied, shownAt>>
    BY <1>4 DEF Advance, reader, shown
  <2>3. GateTypeOK'
    BY <2>1, <2>2 DEF GateTypeOK
  <2>4. MemoryOfAll'
    <3>1. \A i \in 1 .. Len(accepted) : accepted[i].epoch \in Nat /\ accepted[i].epoch <= stampedEpoch
      BY ShownEpochs
    <3> QED
      BY <2>1, <2>2, <3>1 DEF MemoryOfAll
  <2> QED
    BY <1>0, <2>2, <2>3, <2>4 DEF HandIsNew, HoldsCaption, ShownBefore, ShownInOrder, NoEcho, MemoryIsOfThisEpoch
<1>5. CASE NewReader
  <2>1. /\ stampedEpoch' = activeEpoch /\ stampedEpoch < activeEpoch /\ numbers' = Seqs /\ pc = "idle"
        /\ UNCHANGED <<activeEpoch, last, pc, hand, accepted, applied, shownAt>>
    BY <1>5 DEF NewReader, gate, shown
  <2>2. activeEpoch \in Nat /\ stampedEpoch \in Nat /\ accepted \in Seq(Captions)
    BY DEF GateTypeOK, Epochs
  <2>3. GateTypeOK'
    BY <2>1, <2>2 DEF GateTypeOK, Epochs
  <2>4. ShownBefore'
    <3>1. \A i \in 1 .. Len(accepted) : accepted[i].epoch \in Nat /\ accepted[i].epoch < activeEpoch
      BY <2>1, <2>2, ShownEpochs
    <3> QED
      BY <2>1, <2>2, <3>1 DEF ShownBefore
  <2> QED
    BY <1>0, <2>1, <2>3, <2>4 DEF HandIsNew, HoldsCaption, MemoryOfAll, ShownInOrder, NoEcho, MemoryIsOfThisEpoch
<1>6. CASE UNCHANGED gateVars
  BY <1>0, <1>6 DEF gateVars, gate, reader, shown, GateTypeOK, HandIsNew, HoldsCaption, ShownBefore, MemoryOfAll, ShownInOrder,
              NoEcho, MemoryIsOfThisEpoch
<1> QED
  BY <1>1, <1>2, <1>3, <1>4, <1>5, <1>6 DEF GateNext

LEMMA GateInvHolds == GateSpec => []GateInv
<1>1. GateInit => GateInv
  BY GateInitInv
<1>2. GateInv /\ [GateNext]_gateVars => GateInv'
  BY GateNextInv
<1> QED
  BY <1>1, <1>2, PTL DEF GateSpec

\* Whatever captions arrive and whenever a teardown comes between two steps,
\* what is shown in an epoch is in order, no final follows its equal, and the
\* gate judges by nothing but what was shown in the active epoch.
THEOREM CaptionsShownOnce == GateSpec => []ShowsEachOnce
<1>1. GateInv => ShowsEachOnce
  BY DEF GateInv, ShowsEachOnce
<1> QED
  BY <1>1, GateInvHolds, PTL

\* Wherever a teardown comes between the two gates and the callback: captions are
\* shown epoch by epoch, and of each epoch only the last may be shown late.
THEOREM LateIsTheLast == GateSpec => []OneLateAtMost
<1>1. GateInv => OneLateAtMost
  BY DEF GateInv, OnTime
<1> QED
  BY <1>1, GateInvHolds, PTL

----------------------------------------------------------------------------
(* The outbound queue is a mailbox per command and keeps its books, for    *)
(* any number of commands, requests and audio frames.                      *)
(*                                                                         *)
(* The open requests of a command are not a variable of the queue: they    *)
(* are all the waiters without a result, wherever they are.  The inductive *)
(* invariant says that each of them is in one of its command's two slots   *)
(* (Held) and that the slots hold nothing else (Slots); with it and        *)
(* ScheduleExact every operation is a step of the mailbox.                 *)
(* The audio queue shares no state with the controls; its invariant is its *)
(* own.                                                                    *)

Pending(r, c) == r \in 1 .. issued /\ command[r] = c /\ result[r] = "none"

SlotsHoldPending ==
  \A c \in Commands :
    /\ queued[c] # NoRequest => Pending(queued[c], c)
    /\ inflight[c] # NoRequest => Pending(inflight[c], c) /\ inflight[c] # queued[c] /\ c # Heartbeat

PendingIsHeld ==
  \A c \in Replied : \A r \in Requests :
    Pending(r, c) => queued[c] = r \/ inflight[c] = r

ClosedIsEmpty ==
  ~accepting => \A c \in Commands : queued[c] = NoRequest /\ inflight[c] = NoRequest

UnissuedIsOpen == \A r \in Requests : r > issued => result[r] = "none"

\* The part of TypeOK that the argument needs: the audio queue is independent.
ControlTypes ==
  /\ issued \in 0 .. MaxRequests
  /\ command \in [Requests -> Commands]
  /\ result \in [Requests -> Reasons \cup {"none"}]
  /\ queued \in [Commands -> 0 .. MaxRequests]
  /\ inflight \in [Commands -> 0 .. MaxRequests]
  /\ inSchedule \in [Commands -> BOOLEAN]
  /\ schedule \in Seq(Commands)
  /\ accepting \in BOOLEAN

IInv ==
  /\ ControlTypes
  /\ ScheduleExact
  /\ SlotsHoldPending
  /\ PendingIsHeld
  /\ ClosedIsEmpty
  /\ UnissuedIsOpen

-----------------------------------------------------------------------------
LEMMA InitIInv == QueueInit => IInv
BY HeartbeatAssumption, RequestsAssumption
   DEF QueueInit, IInv, ControlTypes, ScheduleExact, SlotsHoldPending, PendingIsHeld,
       ClosedIsEmpty, UnissuedIsOpen, Pending, Requests, NoRequest, Reasons

\* Nothing in the schedule is stale, so remove_stale_controls removes nothing.
LEMMA NothingStale ==
  ASSUME IInv
  PROVE  StaleTo = 0 /\ Fresh = schedule /\ Removed = {}
<1>1. \A i \in 1 .. Len(schedule) : Live(i)
  BY DEF IInv, ControlTypes, ScheduleExact, Live
<1>2. Len(schedule) \in Nat
  BY DEF IInv, ControlTypes
<1>3. \A n \in 0 .. Len(schedule) :
        (\A i \in 1 .. n : ~Live(i)) /\ (n < Len(schedule) => Live(n + 1)) <=> n = 0
  BY <1>1, <1>2
<1>4. StaleTo = 0
  BY <1>2, <1>3 DEF StaleTo
<1>5. Removed = {}
  BY <1>4 DEF Removed
<1>6. SubSeq(schedule, 1, Len(schedule)) = schedule
  BY DEF IInv, ControlTypes
<1> QED BY <1>4, <1>5, <1>6 DEF Fresh

-----------------------------------------------------------------------------
USE HeartbeatAssumption, RequestsAssumption

LEMMA EnqueueRefusedKeeps ==
  ASSUME IInv, NEW c \in Commands, EnqueueRefused(c)
  PROVE  IInv'
<1> USE DEF NoRequest, Requests
<1>1. issued + 1 \in Requests /\ issued' = issued + 1
  BY DEF EnqueueRefused, Issue, IInv, ControlTypes
<1>2. UNCHANGED controls
  BY DEF EnqueueRefused
<1>3. \A r \in Requests : r # issued + 1 => result'[r] = result[r] /\ command'[r] = command[r]
  BY DEF EnqueueRefused, Issue, Complete, IInv, ControlTypes
<1>4. result'[issued + 1] = "no_session"
  BY <1>1 DEF EnqueueRefused, Complete, IInv, UnissuedIsOpen, ControlTypes
<1>5. ControlTypes'
  BY <1>1, <1>2 DEF EnqueueRefused, Issue, Complete, IInv, ControlTypes, Reasons, controls
<1>6. \A c1 \in Commands : queued[c1] = NoRequest /\ inflight[c1] = NoRequest
  BY DEF EnqueueRefused, IInv, ClosedIsEmpty
<1>7. ScheduleExact'
  BY <1>2 DEF IInv, ScheduleExact, controls
<1>8. SlotsHoldPending' /\ ClosedIsEmpty'
  BY <1>2, <1>6 DEF SlotsHoldPending, ClosedIsEmpty, controls
<1>9. PendingIsHeld'
  <2> SUFFICES ASSUME NEW c1 \in Replied, NEW r \in Requests, Pending(r, c1)'
               PROVE  Pending(r, c1)
    BY <1>2 DEF PendingIsHeld, IInv, controls
  <2>1. r # issued + 1 /\ r \in 1 .. issued + 1
    BY <1>1, <1>4 DEF Pending
  <2>2. r \in 1 .. issued
    BY <2>1 DEF IInv, ControlTypes
  <2> QED BY <2>1, <2>2, <1>3 DEF Pending
<1>10. UnissuedIsOpen'
  BY <1>1, <1>3 DEF UnissuedIsOpen, IInv, ControlTypes
<1> QED BY <1>5, <1>7, <1>8, <1>9, <1>10 DEF IInv

\* What scheduling a command that is due, and that is not scheduled, does.
LEMMA ScheduleKeepsExact ==
  ASSUME ControlTypes, ScheduleExact, NEW c \in Commands, Schedule(c), ~inSchedule[c],
         queued' \in [Commands -> 0 .. MaxRequests], inflight' \in [Commands -> 0 .. MaxRequests],
         queued'[c] # NoRequest, inflight'[c] = NoRequest,
         \A d \in Commands : d # c => queued'[d] = queued[d] /\ inflight'[d] = inflight[d]
  PROVE  ScheduleExact' /\ schedule' \in Seq(Commands) /\ inSchedule' \in [Commands -> BOOLEAN]
<1>1. /\ schedule' = Append(schedule, c) /\ schedule' \in Seq(Commands)
      /\ Len(schedule) \in Nat /\ Len(schedule') = Len(schedule) + 1
      /\ \A i \in 1 .. Len(schedule) : schedule'[i] = schedule[i]
      /\ schedule'[Len(schedule) + 1] = c
      /\ DOMAIN schedule = 1 .. Len(schedule)
      /\ DOMAIN schedule' = 1 .. Len(schedule) + 1
  BY DEF Schedule, ControlTypes
<1>2. \A d \in Commands : inSchedule'[d] <=> inSchedule[d] \/ d = c
  BY DEF Schedule, ControlTypes
<1>3. inSchedule' \in [Commands -> BOOLEAN]
  BY DEF Schedule, ControlTypes
<1>4. \A d \in Commands : inSchedule'[d] <=> queued'[d] # NoRequest /\ inflight'[d] = NoRequest
  BY <1>2 DEF ScheduleExact
<1>5. \A d \in Commands : inSchedule'[d] <=> \E i \in DOMAIN schedule' : schedule'[i] = d
  <2> SUFFICES ASSUME NEW d \in Commands
               PROVE  inSchedule'[d] <=> \E i \in DOMAIN schedule' : schedule'[i] = d
    OBVIOUS
  <2>1. (\E i \in DOMAIN schedule' : schedule'[i] = d)
          <=> (\E i \in DOMAIN schedule : schedule[i] = d) \/ c = d
    BY <1>1
  <2> QED BY <2>1, <1>2 DEF ScheduleExact
<1>6. \A i, j \in DOMAIN schedule' : schedule'[i] = schedule'[j] => i = j
  <2>1. \A i \in 1 .. Len(schedule) : schedule[i] # c
    BY <1>1 DEF ScheduleExact
  <2> QED BY <1>1, <2>1 DEF ScheduleExact
<1> QED BY <1>1, <1>3, <1>4, <1>5, <1>6 DEF ScheduleExact

LEMMA EnqueueControlKeeps ==
  ASSUME IInv, NEW c \in Commands, EnqueueControl(c)
  PROVE  IInv'
<1> USE DEF NoRequest, Requests
<1> DEFINE r0 == issued + 1
<1>1. r0 \in Requests /\ issued' = r0 /\ issued \in Nat
  BY DEF EnqueueControl, Issue, IInv, ControlTypes
<1>2. /\ \A r \in Requests : command'[r] = IF r = r0 THEN c ELSE command[r]
      /\ command' \in [Requests -> Commands]
  BY DEF EnqueueControl, Issue, IInv, ControlTypes
<1>3. \A r \in Requests : r # queued[c] => result'[r] = result[r]
  BY DEF EnqueueControl, Complete, IInv, ControlTypes
<1>4. queued[c] \in Requests => result'[queued[c]] # "none"
  BY DEF EnqueueControl, Complete, IInv, ControlTypes
<1>5. result' \in [Requests -> Reasons \cup {"none"}]
  BY DEF EnqueueControl, Complete, IInv, ControlTypes, Reasons
<1>6. /\ inflight' = inflight /\ accepting' = accepting /\ accepting
      /\ queued' \in [Commands -> 0 .. MaxRequests]
      /\ queued'[c] = r0
      /\ \A d \in Commands : d # c => queued'[d] = queued[d]
  BY <1>1 DEF EnqueueControl, IInv, ControlTypes
<1>7. \A d \in Commands : queued[d] \in 0 .. issued /\ inflight[d] \in 0 .. issued
  BY <1>1 DEF IInv, ControlTypes, SlotsHoldPending, Pending
<1>8. ScheduleExact' /\ schedule' \in Seq(Commands) /\ inSchedule' \in [Commands -> BOOLEAN]
  <2>1. CASE ~inSchedule[c] /\ inflight[c] = NoRequest
    <3>1. Schedule(c)
      BY <2>1 DEF EnqueueControl
    <3>2. /\ queued'[c] # NoRequest /\ inflight'[c] = NoRequest
          /\ \A d \in Commands : d # c => queued'[d] = queued[d] /\ inflight'[d] = inflight[d]
      BY <2>1, <1>1, <1>6
    <3>3. inflight' \in [Commands -> 0 .. MaxRequests]
      BY <1>6 DEF IInv, ControlTypes
    <3> QED BY <2>1, <3>1, <3>2, <3>3, <1>6, ScheduleKeepsExact DEF IInv
  <2>2. CASE inSchedule[c] \/ inflight[c] # NoRequest
    <3>1. UNCHANGED <<schedule, inSchedule>>
      BY <2>2 DEF EnqueueControl
    <3>2. \A d \in Commands : inSchedule[d] <=> queued'[d] # NoRequest /\ inflight'[d] = NoRequest
      BY <2>2, <1>1, <1>6 DEF IInv, ScheduleExact
    <3> QED BY <3>1, <3>2 DEF IInv, ControlTypes, ScheduleExact
  <2> QED BY <2>1, <2>2
<1>9. ControlTypes'
  <2>1. issued' \in 0 .. MaxRequests
    BY <1>1
  <2>2. inflight' \in [Commands -> 0 .. MaxRequests] /\ accepting' \in BOOLEAN
    BY <1>6 DEF IInv, ControlTypes
  <2> QED BY <2>1, <2>2, <1>2, <1>5, <1>6, <1>8 DEF ControlTypes
<1>10. SlotsHoldPending'
  <2> SUFFICES ASSUME NEW d \in Commands
               PROVE  /\ queued'[d] # NoRequest => Pending(queued[d], d)'
                      /\ inflight'[d] # NoRequest => Pending(inflight[d], d)'
                                                    /\ inflight'[d] # queued'[d] /\ d # Heartbeat
    BY DEF SlotsHoldPending
  <2>1. queued[c] # r0 /\ result[r0] = "none"
    BY <1>1, <1>7 DEF IInv, UnissuedIsOpen
  <2>2. queued'[d] # NoRequest => Pending(queued[d], d)'
    <3>1. CASE d = c
      BY <3>1, <2>1, <1>1, <1>2, <1>3, <1>6 DEF Pending
    <3>2. CASE d # c
      <4>1. queued[d] # NoRequest => queued[d] # queued[c] /\ queued[d] \in 1 .. issued
        BY <3>2, <1>7 DEF IInv, SlotsHoldPending, Pending
      <4>2. queued[d] # NoRequest => queued[d] \in Requests /\ queued[d] # r0 /\ queued[d] \in 1 .. r0
        BY <4>1, <1>1
      <4>3. queued[d] # NoRequest => command[queued[d]] = d /\ result[queued[d]] = "none"
        BY DEF Pending, IInv, SlotsHoldPending
      <4> QED BY <3>2, <4>1, <4>2, <4>3, <1>1, <1>2, <1>3, <1>6 DEF Pending
    <3> QED BY <3>1, <3>2
  <2>3. inflight[d] # NoRequest => inflight[d] # queued[c] /\ inflight[d] \in 1 .. issued
    BY <1>7 DEF IInv, SlotsHoldPending, Pending
  <2>4. inflight'[d] # NoRequest => Pending(inflight[d], d)'
    BY <2>3, <1>1, <1>2, <1>3, <1>6, SMTT(30) DEF Pending, IInv, SlotsHoldPending
  <2>5. inflight'[d] # NoRequest => inflight'[d] # queued'[d] /\ d # Heartbeat
    BY <2>3, <1>1, <1>6 DEF IInv, SlotsHoldPending
  <2> QED BY <2>2, <2>4, <2>5
<1>11. PendingIsHeld'
  <2> SUFFICES ASSUME NEW d \in Replied, NEW r \in Requests, Pending(r, d)'
               PROVE  queued'[d] = r \/ inflight'[d] = r
    BY DEF PendingIsHeld
  <2>1. CASE r = r0
    BY <2>1, <1>2, <1>6 DEF Pending, Replied
  <2>2. CASE r # r0
    <3>1. r # queued[c] /\ Pending(r, d)
      BY <2>2, <1>1, <1>2, <1>3, <1>4 DEF Pending
    <3> QED BY <3>1, <1>6 DEF IInv, PendingIsHeld, Replied
  <2> QED BY <2>1, <2>2
<1>12. ClosedIsEmpty'
  BY <1>6 DEF ClosedIsEmpty
<1>13. UnissuedIsOpen'
  BY <1>1, <1>3, <1>7 DEF IInv, UnissuedIsOpen
<1> QED BY <1>8, <1>9, <1>10, <1>11, <1>12, <1>13 DEF IInv

\* An action that leaves the requests and the two slots of each command alone.
LEMMA StutterKeeps ==
  ASSUME IInv, UNCHANGED <<requests, result, controls>>
  PROVE  IInv'
<1> USE DEF requests, controls
<1>1. ControlTypes'
  BY DEF IInv, ControlTypes
<1>2. ScheduleExact'
  BY DEF IInv, ScheduleExact
<1>3. SlotsHoldPending' /\ PendingIsHeld'
  BY DEF IInv, SlotsHoldPending, PendingIsHeld, Pending
<1>4. ClosedIsEmpty' /\ UnissuedIsOpen'
  BY DEF IInv, ClosedIsEmpty, UnissuedIsOpen
<1> QED BY <1>1, <1>2, <1>3, <1>4 DEF IInv

LEMMA PopAudioStutters ==
  ASSUME IInv, PopAudio
  PROVE  UNCHANGED <<requests, result, controls>>
<1>1. schedule' = schedule /\ schedule = <<>>
  BY NothingStale DEF PopAudio
<1>2. inSchedule' = [d \in Commands |-> inSchedule[d] /\ d \notin {}]
  BY NothingStale DEF PopAudio
<1>3. inSchedule' = inSchedule
  BY <1>2 DEF IInv, ControlTypes
<1> QED BY <1>1, <1>3 DEF PopAudio, controls, requests

\* pop_next hands out a request that is queued, with none in flight before it.
LEMMA PopControlEffect ==
  ASSUME IInv, PopControl
  PROVE  \E c \in Commands :
           /\ schedule # <<>> /\ c = Head(schedule)
           /\ schedule' = Tail(schedule)
           /\ inSchedule' = [inSchedule EXCEPT ![c] = FALSE]
           /\ queued[c] # NoRequest /\ inflight[c] = NoRequest
           /\ inflight' = [inflight EXCEPT ![c] = IF c = Heartbeat THEN NoRequest ELSE queued[c]]
           /\ queued' = [queued EXCEPT ![c] = NoRequest]
           /\ UNCHANGED <<requests, result, accepting>>
<1>1. schedule \in Seq(Commands) /\ schedule # <<>> /\ Fresh = schedule /\ Removed = {}
  BY NothingStale DEF PopControl, IInv, ControlTypes
<1> DEFINE c == Head(schedule)
<1>2. 1 \in DOMAIN schedule /\ schedule[1] = c /\ c \in Commands
  BY <1>1
<1>3. inSchedule[c]
  BY <1>2 DEF IInv, ScheduleExact
<1>4. queued[c] # NoRequest /\ inflight[c] = NoRequest
  BY <1>2, <1>3 DEF IInv, ScheduleExact
<1>5. inSchedule' = [d \in Commands |-> inSchedule[d] /\ d \notin {c}]
  BY <1>1 DEF PopControl
<1>6. inSchedule' = [inSchedule EXCEPT ![c] = FALSE]
  BY <1>5 DEF IInv, ControlTypes
<1>7. /\ schedule' = Tail(schedule)
      /\ inflight' = [inflight EXCEPT ![c] = IF c = Heartbeat THEN NoRequest ELSE queued[c]]
      /\ queued' = [queued EXCEPT ![c] = NoRequest]
      /\ UNCHANGED <<requests, result, accepting>>
  BY <1>1 DEF PopControl
<1> QED BY <1>1, <1>2, <1>4, <1>6, <1>7

LEMMA PopControlKeeps ==
  ASSUME IInv, PopControl
  PROVE  IInv'
<1> USE DEF NoRequest, Requests
<1> PICK c \in Commands :
           /\ schedule # <<>> /\ c = Head(schedule)
           /\ schedule' = Tail(schedule)
           /\ inSchedule' = [inSchedule EXCEPT ![c] = FALSE]
           /\ queued[c] # NoRequest /\ inflight[c] = NoRequest
           /\ inflight' = [inflight EXCEPT ![c] = IF c = Heartbeat THEN NoRequest ELSE queued[c]]
           /\ queued' = [queued EXCEPT ![c] = NoRequest]
           /\ UNCHANGED <<requests, result, accepting>>
  BY PopControlEffect
<1>1. /\ \A d \in Commands : queued'[d] = IF d = c THEN NoRequest ELSE queued[d]
      /\ \A d \in Commands : inflight'[d] = IF d # c THEN inflight[d]
                                            ELSE IF c = Heartbeat THEN NoRequest ELSE queued[c]
      /\ \A d \in Commands : inSchedule'[d] <=> d # c /\ inSchedule[d]
  BY DEF IInv, ControlTypes
<1>2. ControlTypes'
  BY DEF IInv, ControlTypes, requests
<1>3. /\ Len(schedule) \in Nat \ {0} /\ schedule[1] = c
      /\ DOMAIN schedule = 1 .. Len(schedule) /\ DOMAIN schedule' = 1 .. Len(schedule) - 1
      /\ \A i \in 1 .. Len(schedule) - 1 : schedule'[i] = schedule[i + 1]
  BY DEF IInv, ControlTypes
<1>4. ScheduleExact'
  <2>1. \A d \in Commands : inSchedule'[d] <=> queued'[d] # NoRequest /\ inflight'[d] = NoRequest
    BY <1>1 DEF IInv, ScheduleExact
  <2>2. \A i \in DOMAIN schedule : i # 1 => schedule[i] # c
    BY <1>3 DEF IInv, ScheduleExact
  <2>3. ASSUME NEW d \in Commands
        PROVE  inSchedule'[d] <=> \E i \in DOMAIN schedule' : schedule'[i] = d
    <3>1. CASE d = c
      BY <3>1, <1>1, <1>3, <2>2
    <3>2. CASE d # c
      <4>1. ASSUME NEW i \in DOMAIN schedule, schedule[i] = d
            PROVE  i - 1 \in DOMAIN schedule' /\ schedule'[i - 1] = d
        BY <3>2, <4>1, <1>3
      <4>2. ASSUME NEW i \in DOMAIN schedule', schedule'[i] = d
            PROVE  i + 1 \in DOMAIN schedule /\ schedule[i + 1] = d
        BY <4>2, <1>3
      <4>3. (\E i \in DOMAIN schedule : schedule[i] = d) <=> \E i \in DOMAIN schedule' : schedule'[i] = d
        BY <4>1, <4>2
      <4> QED BY <3>2, <4>3, <1>1 DEF IInv, ScheduleExact
    <3> QED BY <3>1, <3>2
  <2>4. \A i, j \in DOMAIN schedule' : schedule'[i] = schedule'[j] => i = j
    <3> SUFFICES ASSUME NEW i \in DOMAIN schedule', NEW j \in DOMAIN schedule',
                        schedule'[i] = schedule'[j]
                 PROVE  i = j
      OBVIOUS
    <3>1. /\ i + 1 \in DOMAIN schedule /\ j + 1 \in DOMAIN schedule
          /\ schedule[i + 1] = schedule[j + 1] /\ i \in Nat /\ j \in Nat
      BY <1>3
    <3>2. i + 1 = j + 1
      BY <3>1 DEF IInv, ScheduleExact
    <3> QED BY <3>1, <3>2
  <2> QED BY <2>1, <2>3, <2>4 DEF ScheduleExact
<1>5. \A r, d : Pending(r, d)' <=> Pending(r, d)
  BY DEF Pending, requests
<1>6. SlotsHoldPending'
  BY <1>1, <1>5 DEF IInv, SlotsHoldPending
<1>7. PendingIsHeld'
  <2> SUFFICES ASSUME NEW d \in Replied, NEW r \in Requests, Pending(r, d)
               PROVE  queued'[d] = r \/ inflight'[d] = r
    BY <1>5 DEF PendingIsHeld
  <2>1. d \in Commands /\ d # Heartbeat /\ (queued[d] = r \/ inflight[d] = r)
    BY DEF Replied, IInv, PendingIsHeld
  <2>2. inflight[c] = NoRequest /\ r # NoRequest
    OBVIOUS
  <2> QED BY <2>1, <2>2, <1>1
<1>8. ClosedIsEmpty' /\ UnissuedIsOpen'
  BY <1>1 DEF IInv, ClosedIsEmpty, UnissuedIsOpen, requests
<1> QED BY <1>2, <1>4, <1>6, <1>7, <1>8 DEF IInv

LEMMA NotifyKeeps ==
  ASSUME IInv, NEW c \in Commands, NEW r0, NEW reason \in Reasons, Notify(c, r0, reason)
  PROVE  IInv'
<1> USE DEF NoRequest, Requests
<1>1. r0 = inflight[c] /\ r0 \in Requests /\ Pending(r0, c) /\ c # Heartbeat
  BY DEF Notify, IInv, ControlTypes, SlotsHoldPending
<1>2. /\ result' \in [Requests -> Reasons \cup {"none"}]
      /\ \A r \in Requests : r # r0 => result'[r] = result[r]
      /\ result'[r0] # "none"
  BY <1>1 DEF Notify, Complete, IInv, ControlTypes, Reasons, Pending
<1>3. /\ UNCHANGED <<requests, queued, accepting>>
      /\ inflight' \in [Commands -> 0 .. MaxRequests]
      /\ \A d \in Commands : inflight'[d] = IF d = c THEN NoRequest ELSE inflight[d]
  BY DEF Notify, IInv, ControlTypes
<1>4. ScheduleExact' /\ schedule' \in Seq(Commands) /\ inSchedule' \in [Commands -> BOOLEAN]
  <2>1. ~inSchedule[c]
    BY <1>1 DEF IInv, ScheduleExact
  <2>2. CASE queued[c] # NoRequest
    <3>1. Schedule(c)
      BY <2>1, <2>2 DEF Notify
    <3>2. /\ queued'[c] # NoRequest /\ inflight'[c] = NoRequest
          /\ \A d \in Commands : d # c => queued'[d] = queued[d] /\ inflight'[d] = inflight[d]
      BY <2>2, <1>3
    <3>3. queued' \in [Commands -> 0 .. MaxRequests]
      BY <1>3 DEF IInv, ControlTypes
    <3> QED BY <2>1, <3>1, <3>2, <3>3, <1>3, ScheduleKeepsExact DEF IInv
  <2>3. CASE queued[c] = NoRequest
    <3>1. UNCHANGED <<schedule, inSchedule>>
      BY <2>3 DEF Notify
    <3>2. \A d \in Commands : inSchedule[d] <=> queued'[d] # NoRequest /\ inflight'[d] = NoRequest
      BY <2>1, <2>3, <1>3 DEF IInv, ScheduleExact
    <3> QED BY <3>1, <3>2 DEF IInv, ControlTypes, ScheduleExact
  <2> QED BY <2>2, <2>3
<1>5. ControlTypes'
  BY <1>2, <1>3, <1>4 DEF IInv, ControlTypes, requests
<1>6. \A r \in Requests, d \in Commands : Pending(r, d)' <=> Pending(r, d) /\ r # r0
  BY <1>2, <1>3 DEF Pending, requests
<1>7. SlotsHoldPending'
  <2> SUFFICES ASSUME NEW d \in Commands
               PROVE  /\ queued'[d] # NoRequest => Pending(queued[d], d)'
                      /\ inflight'[d] # NoRequest => Pending(inflight[d], d)'
                                                    /\ inflight'[d] # queued'[d] /\ d # Heartbeat
    BY DEF SlotsHoldPending
  <2>1. \A r : Pending(r, d) => r # r0 \/ d = c
    BY <1>1 DEF Pending
  <2> DEFINE NowPending(r) == r \in 1 .. issued' /\ command'[r] = d /\ result'[r] = "none"
  <2>4. \A r \in Requests : Pending(r, d) /\ r # r0 => NowPending(r)
    BY <1>6 DEF Pending
  <2>2. queued[d] # NoRequest => Pending(queued[d], d) /\ queued[d] # r0 /\ queued[d] \in Requests
    <3>1. queued[d] # NoRequest => Pending(queued[d], d) /\ queued[d] \in Requests
      BY DEF IInv, SlotsHoldPending, ControlTypes
    <3>2. d = c => queued[d] # r0
      BY <1>1 DEF IInv, SlotsHoldPending
    <3> QED BY <3>1, <3>2, <2>1
  <2>3. inflight'[d] # NoRequest =>
          /\ inflight'[d] = inflight[d] /\ Pending(inflight[d], d) /\ inflight[d] # r0
          /\ inflight[d] \in Requests /\ inflight[d] # queued[d] /\ d # Heartbeat
    <3>1. inflight'[d] # NoRequest => d # c /\ inflight'[d] = inflight[d]
      BY <1>3
    <3>2. inflight[d] # NoRequest =>
            /\ Pending(inflight[d], d) /\ inflight[d] \in Requests
            /\ inflight[d] # queued[d] /\ d # Heartbeat
      BY DEF IInv, SlotsHoldPending, ControlTypes
    <3> QED BY <3>1, <3>2, <2>1
  <2>5. queued'[d] # NoRequest => NowPending(queued'[d])
    BY <2>2, <2>4, <1>3
  <2>6. inflight'[d] # NoRequest => NowPending(inflight'[d])
    BY <2>3, <2>4
  <2> QED BY <2>3, <2>5, <2>6, <1>3 DEF Pending
<1>8. PendingIsHeld'
  <2> SUFFICES ASSUME NEW d \in Replied, NEW r \in Requests, Pending(r, d)'
               PROVE  queued[d] = r \/ inflight'[d] = r
    BY <1>3 DEF PendingIsHeld
  <2>1. d \in Commands /\ Pending(r, d) /\ r # r0
    BY <1>6 DEF Replied
  <2> QED BY <2>1, <1>1, <1>3 DEF IInv, PendingIsHeld
<1>9. ClosedIsEmpty'
  BY <1>1, <1>3 DEF IInv, ClosedIsEmpty
<1>10. UnissuedIsOpen'
  <2>1. issued' = issued /\ r0 <= issued /\ issued \in Nat
    BY <1>1, <1>3 DEF Pending, requests, IInv, ControlTypes
  <2> QED BY <2>1, <1>1, <1>2 DEF IInv, UnissuedIsOpen
<1> QED BY <1>10, <1>4, <1>5, <1>7, <1>8, <1>9 DEF IInv

\* begin_teardown: every waiter in a slot gets a result, and the slots are empty.
LEMMA TeardownSettles ==
  ASSUME IInv, BeginTeardown
  PROVE  /\ result' \in [Requests -> Reasons \cup {"none"}]
         /\ \A r \in Requests : (\E c \in Commands : queued[c] = r \/ inflight[c] = r) => result'[r] # "none"
         /\ \A r \in Requests : (\A c \in Commands : queued[c] # r /\ inflight[c] # r) => result'[r] = result[r]
         /\ \A r \in Requests : result[r] # "none" => result'[r] = result[r]
BY DEF BeginTeardown, Complete, IInv, ControlTypes, Reasons

LEMMA TeardownKeeps ==
  ASSUME IInv, BeginTeardown
  PROVE  IInv'
<1> USE DEF NoRequest, Requests
<1>1. /\ queued' = [c \in Commands |-> NoRequest] /\ inflight' = [c \in Commands |-> NoRequest]
      /\ inSchedule' = [c \in Commands |-> FALSE] /\ schedule' = <<>> /\ accepting' = FALSE
      /\ UNCHANGED requests
  BY DEF BeginTeardown
<1>2. ControlTypes'
  <2>1. result' \in [Requests -> Reasons \cup {"none"}]
    BY TeardownSettles
  <2>2. schedule' \in Seq(Commands) /\ NoRequest \in 0 .. MaxRequests
    BY <1>1
  <2> QED BY <1>1, <2>1, <2>2 DEF IInv, ControlTypes, requests
<1>3. ScheduleExact' /\ SlotsHoldPending' /\ ClosedIsEmpty'
  BY <1>1 DEF ScheduleExact, SlotsHoldPending, ClosedIsEmpty
<1>4. PendingIsHeld'
  <2> SUFFICES ASSUME NEW c \in Replied, NEW r \in Requests, Pending(r, c)'
               PROVE  FALSE
    BY DEF PendingIsHeld
  <2>1. Pending(r, c) /\ c \in Commands
    BY <1>1, TeardownSettles DEF Pending, requests, Replied
  <2>2. queued[c] = r \/ inflight[c] = r
    BY <2>1 DEF IInv, PendingIsHeld
  <2> QED BY <2>1, <2>2, TeardownSettles DEF Pending
<1>5. UnissuedIsOpen'
  <2> SUFFICES ASSUME NEW r \in Requests, r > issued
               PROVE  result'[r] = "none"
    BY <1>1 DEF UnissuedIsOpen, requests
  <2>1. \A c \in Commands : queued[c] # r /\ inflight[c] # r
    <3>1. issued \in Nat /\ r \notin 1 .. issued /\ r # NoRequest
      BY DEF IInv, ControlTypes
    <3>2. \A c \in Commands :
            /\ queued[c] # NoRequest => queued[c] \in 1 .. issued
            /\ inflight[c] # NoRequest => inflight[c] \in 1 .. issued
      BY DEF IInv, SlotsHoldPending, Pending
    <3>3. \A n : n = NoRequest \/ n \in 1 .. issued => n # r
      BY <3>1
    <3> QED BY <3>2, <3>3
  <2> QED BY <2>1, TeardownSettles DEF IInv, UnissuedIsOpen
<1> QED BY <1>2, <1>3, <1>4, <1>5 DEF IInv

LEMMA NextKeepsIInv == IInv /\ [QueueNext]_queueVars => IInv'
<1> SUFFICES ASSUME IInv, [QueueNext]_queueVars PROVE IInv'
  OBVIOUS
<1>1. ASSUME NEW c \in Commands, EnqueueRefused(c) PROVE IInv'
  BY <1>1, EnqueueRefusedKeeps
<1>2. ASSUME NEW c \in Commands, EnqueueControl(c) PROVE IInv'
  BY <1>2, EnqueueControlKeeps
<1>3. CASE EnqueueAudio
  BY <1>3, StutterKeeps DEF EnqueueAudio
<1>4. CASE PopNext
  BY <1>4, PopAudioStutters, StutterKeeps, PopControlKeeps DEF PopNext
<1>5. ASSUME NEW r \in Requests, NEW reason \in AnswerReasons, Answer(r, reason) PROVE IInv'
  <2>1. CASE \E c \in Replied : Notify(c, r, reason)
    BY <2>1, NotifyKeeps, ReasonsAssumption DEF Replied
  <2>2. CASE UNCHANGED <<requests, result, controls, sound>>
    BY <2>2, StutterKeeps
  <2> QED BY <1>5, <2>1, <2>2 DEF Answer
<1>6. ASSUME NEW c \in Replied, Timeout(c) PROVE IInv'
  BY <1>6, NotifyKeeps DEF Timeout, Replied, Reasons
<1>7. CASE BeginTeardown
  BY <1>7, TeardownKeeps
<1>8. CASE UNCHANGED queueVars
  BY <1>8, StutterKeeps DEF queueVars
<1> QED BY <1>1, <1>2, <1>3, <1>4, <1>5, <1>6, <1>7, <1>8 DEF QueueNext

\* The schedule, its flags and the two slots of every command stay in step:
\* no request is forgotten in its slot, none is sent twice.
THEOREM ScheduleStaysExact == QueueSpec => []ScheduleExact
<1>1. IInv => ScheduleExact
  BY DEF IInv
<1> QED BY <1>1, InitIInv, NextKeepsIInv, PTL DEF QueueSpec

\* docs/OBS_PLUGIN_IPC.md:172: whenever pop_next hands out a frame of audio, no command
\* has a request that may go out.  (The bridge's writer asks the ring for audio, and only
\* when pop_next has nothing.)  pop_next looks at the schedule only; that
\* the schedule has every such command is what the invariant says.
THEOREM AudioGivesWay == QueueSpec => ControlFirst
<1> DEFINE Idle(c) == queued[c] = NoRequest \/ inflight[c] # NoRequest
<1>1. ASSUME IInv, [QueueNext]_queueVars, sentAudio' # sentAudio, NEW c \in Commands PROVE Idle(c)
  <2>1. PopAudio
    <3>1. \/ QueueNext \/ UNCHANGED queueVars
      BY <1>1
    <3>2. ASSUME NEW d \in Commands, EnqueueRefused(d) \/ EnqueueControl(d) PROVE FALSE
      BY <1>1, <3>2 DEF EnqueueRefused, EnqueueControl, sound
    <3>3. ASSUME NEW r \in Requests, NEW reason \in AnswerReasons, Answer(r, reason) PROVE FALSE
      BY <1>1, <3>3 DEF Answer, Notify, sound
    <3>4. ASSUME NEW d \in Replied, Timeout(d) PROVE FALSE
      BY <1>1, <3>4 DEF Timeout, Notify, sound
    <3>5. ~(BeginTeardown \/ EnqueueAudio \/ PopControl \/ UNCHANGED queueVars)
      BY <1>1 DEF BeginTeardown, EnqueueAudio, PopControl, queueVars, sound
    <3> QED
      BY <3>1, <3>2, <3>3, <3>4, <3>5 DEF QueueNext, PopNext
  <2>2. schedule = <<>>
    BY <1>1, <2>1, NothingStale DEF PopAudio
  <2>3. ~inSchedule[c]
    BY <1>1, <2>2 DEF IInv, ScheduleExact
  <2> QED
    BY <1>1, <2>3 DEF IInv, ScheduleExact
<1>2. IInv /\ [QueueNext]_queueVars => [sentAudio' # sentAudio => \A c \in Commands : Idle(c)]_queueVars
  BY <1>1
<1> QED
  BY <1>2, InitIInv, NextKeepsIInv, PTL DEF QueueSpec, ControlFirst

-----------------------------------------------------------------------------
(* Refinement.  Under IInv the open requests of a command are its slots.     *)

Held(c) == {queued[c], inflight[c]} \ {NoRequest}

LEMMA OpenIsHeld ==
  ASSUME IInv, NEW c \in Replied
  PROVE  OpenOf(c) = Held(c)
<1> USE DEF NoRequest, Requests
<1>1. c \in Commands
  BY DEF Replied
<1>2. \A r : r \in OpenOf(c) <=> Pending(r, c)
  BY DEF OpenOf, Pending
<1>3. \A r : Pending(r, c) => r \in Requests /\ r # NoRequest
  BY DEF Pending, IInv, ControlTypes
<1>4. \A r : Pending(r, c) => r \in Held(c)
  BY <1>3 DEF IInv, PendingIsHeld, Held
<1>5. \A r \in Held(c) : Pending(r, c)
  BY <1>1 DEF IInv, SlotsHoldPending, Held
<1> QED BY <1>2, <1>4, <1>5

LEMMA InitRefinesMailbox == QueueInit => Mailbox!Init
<1> SUFFICES ASSUME QueueInit PROVE Mailbox!Init
  OBVIOUS
<1>1. 1 .. issued = {}
  BY DEF QueueInit
<1>2. \A c \in Replied : OpenOf(c) = {} /\ {inflight[c]} \ {NoRequest} = {}
  BY <1>1 DEF QueueInit, OpenOf, Replied
<1>3. accepting = TRUE
  BY DEF QueueInit
<1> QED BY <1>1, <1>2, <1>3 DEF Mailbox!Init

\* The barred variables of the mailbox.
Open        == [c \in Replied |-> OpenOf(c)]
Outstanding == [c \in Replied |-> {inflight[c]} \ {NoRequest}]
Settled     == {r \in 1 .. issued : command[r] \in Replied /\ result[r] # "none"}

LEMMA StutterRefines ==
  ASSUME UNCHANGED <<requests, result, controls>>
  PROVE  UNCHANGED Mailbox!vars
BY DEF Mailbox!vars, requests, controls, OpenOf

\* Mailbox!Fresh of the next request: it has no result, so it is not settled, and
\* its number is beyond those issued, so it is not open.
LEMMA NextIsFresh ==
  ASSUME IInv, issued < MaxRequests
  PROVE  issued + 1 \in Requests /\ Mailbox!Fresh(issued + 1)
<1>1. issued \in Nat /\ issued + 1 \in Requests /\ issued + 1 \notin 1 .. issued
  BY DEF IInv, ControlTypes, Requests
<1> QED BY <1>1 DEF Mailbox!Fresh, OpenOf

LEMMA RefusedRefines ==
  ASSUME IInv, NEW c \in Commands, EnqueueRefused(c)
  PROVE  [Mailbox!Next]_(Mailbox!vars)
<1> USE DEF Requests
<1> PICK r0 \in Requests : r0 = issued + 1
  BY NextIsFresh DEF EnqueueRefused, Issue
<1>1. Mailbox!Fresh(r0) /\ issued' = r0 /\ issued \in Nat
  BY NextIsFresh, SMTT(30) DEF EnqueueRefused, Issue, IInv, ControlTypes
<1>2. \A r \in 1 .. issued : result'[r] = result[r] /\ command'[r] = command[r]
  BY DEF EnqueueRefused, Issue, Complete, IInv, ControlTypes
<1>3. result'[r0] = "no_session" /\ command'[r0] = c
  BY <1>1 DEF EnqueueRefused, Issue, Complete, IInv, ControlTypes, UnissuedIsOpen
<1>4. 1 .. issued' = (1 .. issued) \cup {r0}
  BY <1>1
<1>5. \A d : OpenOf(d)' = OpenOf(d)
  BY <1>2, <1>3, <1>4 DEF OpenOf
<1>6. Settled' = Settled \cup (IF c \in Replied THEN {r0} ELSE {})
  BY <1>2, <1>3, <1>4 DEF Settled
<1>7. Open' = Open /\ Outstanding' = Outstanding /\ accepting' = accepting /\ ~accepting
  BY <1>5 DEF Open, Outstanding, EnqueueRefused, controls
<1>8. CASE c \in Replied
  <2>1. Mailbox!Refuse(r0)
    BY <1>1, <1>6, <1>7, <1>8 DEF Mailbox!Refuse, Open, Outstanding, Settled
  <2>2. \E r \in Requests : Mailbox!Refuse(r)
    BY <1>1, <2>1
  <2> QED BY <2>2 DEF Mailbox!Next
<1>9. CASE c \notin Replied
  BY <1>6, <1>7, <1>9 DEF Mailbox!vars, Open, Outstanding, Settled
<1> QED BY <1>8, <1>9

LEMMA EnqueueRefines ==
  ASSUME IInv, NEW c \in Commands, EnqueueControl(c)
  PROVE  [Mailbox!Next]_(Mailbox!vars)
<1> USE DEF Requests, NoRequest
<1> PICK r0 \in Requests : r0 = issued + 1
  BY NextIsFresh DEF EnqueueControl, Issue
<1>1. Mailbox!Fresh(r0) /\ issued' = r0 /\ issued \in Nat /\ 1 .. issued' = (1 .. issued) \cup {r0}
  <2>1. issued' = r0 /\ issued \in Nat /\ Mailbox!Fresh(r0)
    BY NextIsFresh, SMTT(30) DEF EnqueueControl, Issue, IInv, ControlTypes
  <2> QED BY <2>1
<1>2. /\ \A r \in 1 .. issued : command'[r] = command[r]
      /\ command'[r0] = c /\ result'[r0] = "none"
      /\ inflight' = inflight /\ accepting' = accepting /\ accepting
  <2>1. result[r0] = "none" /\ queued[c] # r0
    BY <1>1 DEF IInv, UnissuedIsOpen, SlotsHoldPending, Pending
  <2> QED BY <2>1, <1>1 DEF EnqueueControl, Issue, Complete, IInv, ControlTypes
<1>3. \A r \in 1 .. issued : result'[r] = IF r = queued[c] THEN "superseded" ELSE result[r]
  <2>1. \A r \in 1 .. issued : r = queued[c] => result[r] = "none"
    BY DEF IInv, SlotsHoldPending, Pending
  <2>2. \A r \in Requests : result'[r] = IF r = queued[c] /\ result[r] = "none"
                                          THEN "superseded" ELSE result[r]
    BY DEF EnqueueControl, Complete
  <2>3. \A r \in 1 .. issued : r \in Requests
    BY <1>1
  <2> QED BY <2>1, <2>2, <2>3
<1>4. queued[c] # NoRequest => queued[c] \in 1 .. issued /\ command[queued[c]] = c
  BY DEF IInv, SlotsHoldPending, Pending
<1>5. Outstanding' = Outstanding /\ Mailbox!Fresh(r0)
  BY <1>1, <1>2 DEF Outstanding
<1>6. CASE c \in Replied
  <2>1. OpenOf(c) = Held(c)
    BY <1>6, OpenIsHeld
  <2>2. inflight[c] # NoRequest => inflight[c] # queued[c] /\ inflight[c] \in 1 .. issued
                                /\ command[inflight[c]] = c
    BY DEF IInv, SlotsHoldPending, Pending
  <2>3. OpenOf(c)' = ({inflight[c]} \ {NoRequest}) \cup {r0}
    <3>1. ASSUME NEW r \in OpenOf(c)' PROVE r \in ({inflight[c]} \ {NoRequest}) \cup {r0}
      <4>1. CASE r \in 1 .. issued
        <5>1. r \in OpenOf(c) /\ r # queued[c]
          BY <3>1, <4>1, <1>2, <1>3 DEF OpenOf
        <5> QED BY <5>1, <2>1 DEF Held
      <4> QED BY <3>1, <4>1, <1>1 DEF OpenOf
    <3>2. ASSUME NEW r \in ({inflight[c]} \ {NoRequest}) PROVE r \in OpenOf(c)'
      <4>1. r \in OpenOf(c) /\ r # queued[c]
        BY <2>1, <2>2 DEF Held
      <4> QED BY <4>1, <1>1, <1>2, <1>3 DEF OpenOf
    <3>3. r0 \in OpenOf(c)'
      BY <1>1, <1>2 DEF OpenOf
    <3> QED BY <3>1, <3>2, <3>3
  <2>4. \A d \in Replied : d # c => OpenOf(d)' = OpenOf(d)
    BY <1>1, <1>2, <1>3, <1>4 DEF OpenOf
  <2>5. Settled' = Settled \cup ({queued[c]} \ {NoRequest})
    BY <1>1, <1>2, <1>3, <1>4, <1>6 DEF Settled
  <2>6. Open[c] \ Outstanding[c] = {queued[c]} \ {NoRequest}
    BY <1>6, <2>1, <2>2 DEF Open, Outstanding, Held
  <2>7. Open' = [Open EXCEPT ![c] = Outstanding[c] \cup {r0}]
    BY <1>6, <2>3, <2>4 DEF Open, Outstanding
  <2>8. Mailbox!Ask(c, r0)
    BY <1>2, <1>5, <2>5, <2>6, <2>7 DEF Mailbox!Ask, Open, Outstanding, Settled
  <2>9. \E k \in Replied : \E r \in Requests : Mailbox!Ask(k, r)
    BY <1>6, <2>8
  <2> QED BY <2>9 DEF Mailbox!Next
<1>7. CASE c \notin Replied
  <2>1. \A d \in Replied : OpenOf(d)' = OpenOf(d)
    BY <1>1, <1>2, <1>3, <1>4, <1>7 DEF OpenOf
  <2>2. Open' = Open
    BY <2>1 DEF Open
  <2>3. Settled' = Settled
    BY <1>1, <1>2, <1>3, <1>4, <1>7 DEF Settled
  <2> QED BY <2>2, <2>3, <1>2, <1>5 DEF Mailbox!vars, Open, Outstanding, Settled
<1> QED BY <1>6, <1>7

LEMMA PopRefines ==
  ASSUME IInv, PopControl
  PROVE  [Mailbox!Next]_(Mailbox!vars)
<1> USE DEF Requests, NoRequest
<1> PICK c \in Commands :
           /\ queued[c] # NoRequest /\ inflight[c] = NoRequest
           /\ inflight' = [inflight EXCEPT ![c] = IF c = Heartbeat THEN NoRequest ELSE queued[c]]
           /\ UNCHANGED <<requests, result, accepting>>
  BY PopControlEffect
<1>1. Open' = Open /\ Settled' = Settled
  BY DEF Open, OpenOf, Settled, requests
<1>2. inflight \in [Commands -> 0 .. MaxRequests]
  BY DEF IInv, ControlTypes
<1>3. CASE c \in Replied
  <2>1. OpenOf(c) = {queued[c]}
    BY <1>3, OpenIsHeld DEF Held
  <2>2. Outstanding[c] = {} /\ Open[c] = {queued[c]}
    BY <1>3, <2>1 DEF Outstanding, Open
  <2>3. Outstanding' = [Outstanding EXCEPT ![c] = {queued[c]}]
    BY <1>2, <1>3 DEF Outstanding, Replied
  <2>4. Mailbox!Transmit(c)
    BY <1>1, <2>2, <2>3 DEF Mailbox!Transmit, Open, Outstanding, Settled
  <2>5. \E k \in Replied : Mailbox!Transmit(k)
    BY <1>3, <2>4
  <2> QED BY <2>5 DEF Mailbox!Next
<1>4. CASE c \notin Replied
  <2>1. Outstanding' = Outstanding
    BY <1>2, <1>4 DEF Outstanding, Replied
  <2> QED BY <1>1, <2>1 DEF Mailbox!vars, Open, Outstanding, Settled
<1> QED BY <1>3, <1>4

LEMMA NotifyRefines ==
  ASSUME IInv, NEW c \in Replied, NEW r0, NEW reason \in Reasons, Notify(c, r0, reason)
  PROVE  [Mailbox!Next]_(Mailbox!vars)
<1> USE DEF Requests, NoRequest
<1>1. c \in Commands /\ r0 = inflight[c] /\ r0 # NoRequest /\ Pending(r0, c)
  BY DEF Notify, IInv, SlotsHoldPending, Replied
<1>2. r0 \in Requests /\ issued \in Nat
  BY <1>1 DEF Pending, IInv, ControlTypes
<1>3. /\ result'[r0] # "none" /\ \A r \in Requests : r # r0 => result'[r] = result[r]
      /\ UNCHANGED <<requests, accepting>>
      /\ inflight' = [inflight EXCEPT ![c] = NoRequest]
  BY <1>1, <1>2 DEF Notify, Complete, Reasons, Pending
<1>4. \A r \in 1 .. issued : r \in Requests
  BY <1>2 DEF IInv, ControlTypes
<1>5. OpenOf(c)' = OpenOf(c) \ {r0}
  BY <1>3, <1>4 DEF OpenOf, requests
<1>6. \A d \in Replied : d # c => OpenOf(d)' = OpenOf(d)
  BY <1>1, <1>3, <1>4 DEF OpenOf, requests, Pending
<1>7. Outstanding[c] = {r0}
  BY <1>1 DEF Outstanding
<1>8. Open' = [Open EXCEPT ![c] = @ \ {r0}]
  BY <1>5, <1>6 DEF Open
<1>9. Outstanding' = [Outstanding EXCEPT ![c] = {}]
  BY <1>1, <1>3 DEF Outstanding, Replied, IInv, ControlTypes
<1>10. Settled' = Settled \cup {r0}
  BY <1>1, <1>3, <1>4 DEF Settled, requests, Pending
<1>11. Mailbox!Settle(c)
  BY <1>3, <1>7, <1>8, <1>9, <1>10 DEF Mailbox!Settle, Open, Outstanding, Settled
<1>12. \E k \in Replied : Mailbox!Settle(k)
  BY <1>11
<1> QED BY <1>12 DEF Mailbox!Next

LEMMA TeardownRefines ==
  ASSUME IInv, BeginTeardown
  PROVE  [Mailbox!Next]_(Mailbox!vars)
<1> USE DEF Requests, NoRequest
<1>1. /\ inflight' = [c \in Commands |-> NoRequest] /\ accepting' = FALSE
      /\ UNCHANGED requests
  BY DEF BeginTeardown
<1>2. \A r \in 1 .. issued : r \in Requests
  BY DEF IInv, ControlTypes
<1>3. ASSUME NEW c \in Replied PROVE OpenOf(c)' = {}
  <2> SUFFICES ASSUME NEW r \in 1 .. issued, command[r] = c, result'[r] = "none"
               PROVE  FALSE
    BY <1>1 DEF OpenOf, requests
  <2>1. Pending(r, c)
    BY <1>2, TeardownSettles DEF Pending
  <2>2. queued[c] = r \/ inflight[c] = r
    BY <1>2, <2>1 DEF IInv, PendingIsHeld
  <2> QED BY <1>2, <2>2, TeardownSettles DEF Replied
<1>4. Open' = [k \in Replied |-> {}]
  BY <1>3 DEF Open
<1>5. Outstanding' = [k \in Replied |-> {}]
  BY <1>1 DEF Outstanding, Replied
<1>6. Settled' = Settled \cup UNION {Open[k] : k \in Replied}
  <2>1. Settled' = {r \in 1 .. issued : command[r] \in Replied}
    <3>1. \A r \in 1 .. issued : command[r] \in Replied => result'[r] # "none"
      BY <1>1, <1>3 DEF OpenOf, requests
    <3> QED BY <1>1, <3>1 DEF Settled, requests
  <2>2. UNION {Open[k] : k \in Replied} = {r \in 1 .. issued : command[r] \in Replied /\ result[r] = "none"}
    BY DEF Open, OpenOf
  <2> QED BY <2>1, <2>2 DEF Settled
<1>7. Mailbox!Close
  BY <1>1, <1>4, <1>5, <1>6 DEF Mailbox!Close, Open, Outstanding, Settled
<1> QED BY <1>7 DEF Mailbox!Next

LEMMA StepRefinesMailbox ==
  IInv /\ [QueueNext]_queueVars => [Mailbox!Next]_(Mailbox!vars)
<1> SUFFICES ASSUME IInv, [QueueNext]_queueVars PROVE [Mailbox!Next]_(Mailbox!vars)
  OBVIOUS
<1>1. ASSUME UNCHANGED <<requests, result, controls>> PROVE [Mailbox!Next]_(Mailbox!vars)
  BY <1>1, StutterRefines
<1>2. ASSUME NEW c \in Commands, EnqueueRefused(c) PROVE [Mailbox!Next]_(Mailbox!vars)
  BY <1>2, RefusedRefines
<1>3. ASSUME NEW c \in Commands, EnqueueControl(c) PROVE [Mailbox!Next]_(Mailbox!vars)
  BY <1>3, EnqueueRefines
<1>4. CASE EnqueueAudio
  BY <1>1, <1>4 DEF EnqueueAudio
<1>5. CASE PopNext
  BY <1>1, <1>5, PopAudioStutters, PopRefines DEF PopNext
<1>6. ASSUME NEW r \in Requests, NEW reason \in AnswerReasons, Answer(r, reason)
      PROVE  [Mailbox!Next]_(Mailbox!vars)
  <2>1. CASE \E c \in Replied : Notify(c, r, reason)
    BY <2>1, NotifyRefines, ReasonsAssumption
  <2>2. CASE UNCHANGED <<requests, result, controls, sound>>
    BY <1>1, <2>2
  <2> QED BY <1>6, <2>1, <2>2 DEF Answer
<1>7. ASSUME NEW c \in Replied, Timeout(c) PROVE [Mailbox!Next]_(Mailbox!vars)
  BY <1>7, NotifyRefines DEF Timeout, Reasons
<1>8. CASE BeginTeardown
  BY <1>8, TeardownRefines
<1>9. CASE UNCHANGED queueVars
  BY <1>1, <1>9 DEF queueVars
<1> QED BY <1>2, <1>3, <1>4, <1>5, <1>6, <1>7, <1>8, <1>9 DEF QueueNext

\* docs/OBS_PLUGIN_IPC.md:176-182: the outbound queue is a mailbox per command.
\* No unsettled request is ever lost from its command's slots, at most one per
\* command is outstanding, each is settled once, and begin_teardown settles all.
THEOREM QueueImplementsMailbox == QueueSpec => IsMailbox
<1>1. Mailbox!Init /\ [][Mailbox!Next]_(Mailbox!vars) <=> Mailbox!Spec
  BY DEF Mailbox!Spec
<1> QED BY <1>1, InitIInv, InitRefinesMailbox, NextKeepsIInv, StepRefinesMailbox, PTL DEF QueueSpec, IsMailbox
-----------------------------------------------------------------------------
(* The books.  The first one is inductive as it stands.  The second one is   *)
(* not: that a dropped frame leaves the rest in order needs the two halves   *)
(* of the line apart, and that no frame number is beyond those captured.     *)

LEMMA SettledAreAnswered == CompleteMeansAnswered /\ [QueueNext]_queueVars => CompleteMeansAnswered'
<1> SUFFICES ASSUME CompleteMeansAnswered, [QueueNext]_queueVars PROVE CompleteMeansAnswered'
  OBVIOUS
<1> USE DEF CompleteMeansAnswered
<1>1. ASSUME NEW c \in Commands, EnqueueRefused(c) \/ EnqueueControl(c)
      PROVE  CompleteMeansAnswered'
  <2>1. answered' = answered
    BY <1>1 DEF EnqueueRefused, EnqueueControl, wire
  <2>2. \A r \in Requests : result'[r] = "complete" => result[r] = "complete"
    BY <1>1 DEF EnqueueRefused, EnqueueControl, Complete
  <2> QED BY <2>1, <2>2
<1>2. CASE EnqueueAudio
  BY <1>2 DEF EnqueueAudio, wire
<1>3. CASE PopNext
  BY <1>3 DEF PopNext, PopControl, PopAudio, wire
<1>4. ASSUME NEW r0 \in Requests, NEW reason \in AnswerReasons, Answer(r0, reason)
      PROVE  CompleteMeansAnswered'
  <2>1. answered' = answered \cup {r0}
    BY <1>4 DEF Answer
  <2>2. ASSUME NEW c \in Replied, Notify(c, r0, reason)
        PROVE  \A r \in Requests : r # r0 => result'[r] = result[r]
    BY <2>2 DEF Notify, Complete
  <2>3. \A r \in Requests : r # r0 => result'[r] = result[r]
    BY <1>4, <2>2 DEF Answer
  <2> QED BY <2>1, <2>3
<1>5. ASSUME NEW c \in Replied, Timeout(c) PROVE CompleteMeansAnswered'
  <2>1. answered' = answered
    BY <1>5 DEF Timeout, wire
  <2>2. \A r \in Requests : result'[r] = "complete" => result[r] = "complete"
    BY <1>5 DEF Timeout, Notify, Complete
  <2> QED BY <2>1, <2>2
<1>6. CASE BeginTeardown
  <2>1. answered' = answered
    BY <1>6 DEF BeginTeardown, wire
  <2>2. \A r \in Requests : result'[r] = "complete" => result[r] = "complete"
    BY <1>6 DEF BeginTeardown, Complete
  <2> QED BY <2>1, <2>2
<1>7. CASE UNCHANGED queueVars
  BY <1>7 DEF queueVars, wire
<1> QED BY <1>1, <1>2, <1>3, <1>4, <1>5, <1>6, <1>7 DEF QueueNext

Increasing(s) == \A i, j \in DOMAIN s : i < j => s[i] < s[j]
UpTo(s, n)    == \A i \in DOMAIN s : s[i] <= n

AudioInOrder ==
  /\ audio \in Seq(Nat) /\ sentAudio \in Seq(Nat)
  /\ captured \in Nat /\ droppedAudio \in Nat
  /\ Len(sentAudio) + Len(audio) + droppedAudio = captured
  /\ Increasing(audio) /\ Increasing(sentAudio)
  /\ UpTo(audio, captured) /\ UpTo(sentAudio, captured)
  /\ \A i \in DOMAIN sentAudio, j \in DOMAIN audio : sentAudio[i] < audio[j]

\* What the line gains at its end and loses at its front.
LEMMA Appending ==
  ASSUME NEW s \in Seq(Nat), NEW n \in Nat, NEW m \in Nat, n < m, Increasing(s), UpTo(s, n)
  PROVE  /\ Append(s, m) \in Seq(Nat) /\ Len(Append(s, m)) = Len(s) + 1
         /\ Increasing(Append(s, m)) /\ UpTo(Append(s, m), m)
         /\ \A j \in DOMAIN Append(s, m) :
              \/ j \in DOMAIN s /\ Append(s, m)[j] = s[j]
              \/ j = Len(s) + 1 /\ Append(s, m)[j] = m
<1>1. /\ DOMAIN s = 1 .. Len(s) /\ Len(s) \in Nat
      /\ DOMAIN Append(s, m) = 1 .. Len(s) + 1 /\ Len(Append(s, m)) = Len(s) + 1
      /\ \A j \in 1 .. Len(s) : Append(s, m)[j] = s[j] /\ s[j] \in Nat
      /\ Append(s, m)[Len(s) + 1] = m
      /\ Append(s, m) \in Seq(Nat)
  OBVIOUS
<1>2. Increasing(Append(s, m))
  <2> SUFFICES ASSUME NEW i \in 1 .. Len(s) + 1, NEW j \in 1 .. Len(s) + 1, i < j
               PROVE  Append(s, m)[i] < Append(s, m)[j]
    BY <1>1 DEF Increasing
  <2>1. i \in 1 .. Len(s)
    BY <1>1
  <2>2. Append(s, m)[i] = s[i] /\ s[i] \in Nat /\ s[i] <= n
    BY <2>1, <1>1 DEF UpTo
  <2>3. CASE j \in 1 .. Len(s)
    BY <2>1, <2>2, <2>3, <1>1 DEF Increasing
  <2>4. CASE j = Len(s) + 1
    BY <2>2, <2>4, <1>1
  <2> QED BY <2>3, <2>4, <1>1
<1>3. UpTo(Append(s, m), m)
  BY <1>1 DEF UpTo
<1>4. \A j \in DOMAIN Append(s, m) :
        \/ j \in DOMAIN s /\ Append(s, m)[j] = s[j]
        \/ j = Len(s) + 1 /\ Append(s, m)[j] = m
  BY <1>1
<1> QED BY <1>1, <1>2, <1>3, <1>4

LEMMA Dropping ==
  ASSUME NEW s \in Seq(Nat), NEW n \in Nat, s # <<>>, Increasing(s), UpTo(s, n)
  PROVE  /\ Tail(s) \in Seq(Nat) /\ Len(Tail(s)) = Len(s) - 1 /\ Len(s) \in Nat \ {0}
         /\ Increasing(Tail(s)) /\ UpTo(Tail(s), n)
         /\ 1 \in DOMAIN s /\ Head(s) = s[1] /\ Head(s) \in Nat
         /\ \A j \in DOMAIN Tail(s) :
              j + 1 \in DOMAIN s /\ Tail(s)[j] = s[j + 1] /\ Head(s) < Tail(s)[j]
<1>1. /\ DOMAIN s = 1 .. Len(s) /\ Len(s) \in Nat \ {0} /\ Tail(s) \in Seq(Nat)
      /\ DOMAIN Tail(s) = 1 .. Len(s) - 1 /\ Len(Tail(s)) = Len(s) - 1
      /\ \A j \in 1 .. Len(s) - 1 : Tail(s)[j] = s[j + 1] /\ j + 1 \in 1 .. Len(s)
      /\ Head(s) = s[1] /\ Head(s) \in Nat /\ 1 \in 1 .. Len(s)
  OBVIOUS
<1>2. UpTo(Tail(s), n)
  BY <1>1 DEF UpTo
<1>3. Increasing(Tail(s))
  <2> SUFFICES ASSUME NEW i \in 1 .. Len(s) - 1, NEW j \in 1 .. Len(s) - 1, i < j
               PROVE  Tail(s)[i] < Tail(s)[j]
    BY <1>1 DEF Increasing
  <2>1. i + 1 \in DOMAIN s /\ j + 1 \in DOMAIN s /\ i + 1 < j + 1
    BY <1>1
  <2>2. s[i + 1] < s[j + 1]
    BY <2>1 DEF Increasing
  <2> QED BY <1>1, <2>2
<1>4. ASSUME NEW j \in 1 .. Len(s) - 1 PROVE Head(s) < Tail(s)[j]
  <2>1. 1 \in DOMAIN s /\ j + 1 \in DOMAIN s /\ 1 < j + 1
    BY <1>1
  <2>2. s[1] < s[j + 1]
    BY <2>1 DEF Increasing
  <2> QED BY <1>1, <2>2
<1> QED BY <1>1, <1>2, <1>3, <1>4

LEMMA EnqueueAudioKeepsOrder ==
  ASSUME AudioInOrder, EnqueueAudio
  PROVE  AudioInOrder'
<1> DEFINE n == captured + 1
<1>1. /\ captured' = n /\ n \in Nat /\ captured \in Nat /\ captured < n
      /\ sentAudio' = sentAudio /\ sentAudio \in Seq(Nat) /\ audio \in Seq(Nat)
      /\ Len(audio) \in Nat /\ Len(sentAudio) \in Nat /\ droppedAudio \in Nat
  BY DEF EnqueueAudio, AudioInOrder
<1>2. UpTo(sentAudio, n) /\ \A i \in DOMAIN sentAudio : sentAudio[i] < n
  BY <1>1 DEF AudioInOrder, UpTo
<1>3. CASE Len(audio) >= AudioCapacity
  <2>1. audio' = Append(Tail(audio), n) /\ droppedAudio' = droppedAudio + 1 /\ audio # <<>>
    BY <1>1, <1>3, AudioAssumption DEF EnqueueAudio
  <2>2. Increasing(audio) /\ UpTo(audio, captured)
    BY DEF AudioInOrder
  <2>3. /\ Tail(audio) \in Seq(Nat) /\ Len(Tail(audio)) = Len(audio) - 1
        /\ Increasing(Tail(audio)) /\ UpTo(Tail(audio), captured)
        /\ \A j \in DOMAIN Tail(audio) : j + 1 \in DOMAIN audio /\ Tail(audio)[j] = audio[j + 1]
    BY <1>1, <2>1, <2>2, Dropping
  <2> HIDE DEF n
  <2>4. /\ audio' \in Seq(Nat) /\ Len(audio') = Len(Tail(audio)) + 1
        /\ Increasing(audio') /\ UpTo(audio', n)
        /\ \A j \in DOMAIN audio' :
             \/ j \in DOMAIN Tail(audio) /\ audio'[j] = Tail(audio)[j]
             \/ audio'[j] = n
    BY <1>1, <2>1, <2>3, Appending
  <2>5. \A i \in DOMAIN sentAudio, j \in DOMAIN audio' : sentAudio[i] < audio'[j]
    BY <1>2, <2>3, <2>4 DEF AudioInOrder
  <2>6. Len(sentAudio) + Len(audio') + droppedAudio' = n
    <3>1. Len(sentAudio) + Len(audio) + droppedAudio = captured
      BY DEF AudioInOrder
    <3>2. Len(audio') = (Len(audio) - 1) + 1 /\ droppedAudio' = droppedAudio + 1
      BY <2>1, <2>3, <2>4
    <3> QED BY <1>1, <3>1, <3>2 DEF n
  <2>7. droppedAudio' \in Nat
    BY <1>1, <2>1
  <2>8. Increasing(sentAudio)
    BY DEF AudioInOrder
  <2> QED BY <1>1, <1>2, <2>4, <2>5, <2>6, <2>7, <2>8 DEF AudioInOrder
<1>4. CASE ~(Len(audio) >= AudioCapacity)
  <2>1. audio' = Append(audio, n) /\ droppedAudio' = droppedAudio
    BY <1>4 DEF EnqueueAudio
  <2>2. Increasing(audio) /\ UpTo(audio, captured)
    BY DEF AudioInOrder
  <2> HIDE DEF n
  <2>3. /\ audio' \in Seq(Nat) /\ Len(audio') = Len(audio) + 1
        /\ Increasing(audio') /\ UpTo(audio', n)
        /\ \A j \in DOMAIN audio' :
             \/ j \in DOMAIN audio /\ audio'[j] = audio[j]
             \/ audio'[j] = n
    BY <1>1, <2>1, <2>2, Appending
  <2>4. \A i \in DOMAIN sentAudio, j \in DOMAIN audio' : sentAudio[i] < audio'[j]
    BY <1>2, <2>3 DEF AudioInOrder
  <2>5. Len(sentAudio) + Len(audio') + droppedAudio' = n
    BY <1>1, <2>1, <2>3 DEF AudioInOrder, n
  <2>6. Increasing(sentAudio)
    BY DEF AudioInOrder
  <2> QED BY <1>1, <1>2, <2>1, <2>3, <2>4, <2>5, <2>6 DEF AudioInOrder
<1> QED BY <1>3, <1>4

LEMMA PopAudioKeepsOrder ==
  ASSUME AudioInOrder, PopAudio
  PROVE  AudioInOrder'
<1>1. /\ audio # <<>> /\ audio' = Tail(audio) /\ sentAudio' = Append(sentAudio, Head(audio))
      /\ UNCHANGED <<captured, droppedAudio>>
  BY DEF PopAudio
<1>2. /\ audio \in Seq(Nat) /\ sentAudio \in Seq(Nat) /\ captured \in Nat /\ droppedAudio \in Nat
      /\ Increasing(audio) /\ Increasing(sentAudio)
      /\ UpTo(audio, captured) /\ UpTo(sentAudio, captured)
      /\ Len(audio) \in Nat /\ Len(sentAudio) \in Nat
  BY DEF AudioInOrder
<1>3. /\ Tail(audio) \in Seq(Nat) /\ Len(Tail(audio)) = Len(audio) - 1
      /\ Increasing(Tail(audio)) /\ UpTo(Tail(audio), captured)
      /\ 1 \in DOMAIN audio /\ Head(audio) = audio[1] /\ Head(audio) \in Nat
      /\ \A j \in DOMAIN Tail(audio) :
           j + 1 \in DOMAIN audio /\ Tail(audio)[j] = audio[j + 1] /\ Head(audio) < Tail(audio)[j]
  BY <1>1, <1>2, Dropping
<1> DEFINE h == Head(audio)
<1>4. h \in Nat /\ h <= captured /\ \A i \in DOMAIN sentAudio : sentAudio[i] < h
  BY <1>2, <1>3 DEF AudioInOrder, UpTo
<1>5. \A i \in DOMAIN sentAudio : sentAudio[i] \in Nat
  BY <1>2
<1> HIDE DEF h
<1>6. /\ sentAudio' \in Seq(Nat) /\ Len(sentAudio') = Len(sentAudio) + 1
      /\ DOMAIN sentAudio = 1 .. Len(sentAudio)
      /\ DOMAIN sentAudio' = 1 .. Len(sentAudio) + 1
      /\ \A i \in 1 .. Len(sentAudio) : sentAudio'[i] = sentAudio[i]
      /\ sentAudio'[Len(sentAudio) + 1] = h
  BY <1>1, <1>2, <1>4 DEF h
<1>7. Increasing(sentAudio') /\ UpTo(sentAudio', captured)
  <2>1. \A i \in 1 .. Len(sentAudio) : sentAudio[i] < h /\ sentAudio[i] \in Nat
    BY <1>4, <1>5, <1>6
  <2>2. UpTo(sentAudio', captured)
    <3> SUFFICES ASSUME NEW i \in 1 .. Len(sentAudio) + 1
                 PROVE  sentAudio'[i] <= captured
      BY <1>6 DEF UpTo
    <3>1. CASE i \in 1 .. Len(sentAudio)
      BY <3>1, <1>2, <1>6 DEF UpTo
    <3>2. CASE i = Len(sentAudio) + 1
      BY <3>2, <1>4, <1>6
    <3> QED BY <3>1, <3>2, <1>2
  <2>3. Increasing(sentAudio')
    <3> SUFFICES ASSUME NEW i \in 1 .. Len(sentAudio) + 1, NEW j \in 1 .. Len(sentAudio) + 1, i < j
                 PROVE  sentAudio'[i] < sentAudio'[j]
      BY <1>6 DEF Increasing
    <3>1. i \in 1 .. Len(sentAudio) /\ sentAudio'[i] = sentAudio[i]
      <4>1. i \in 1 .. Len(sentAudio)
        BY <1>2
      <4> QED BY <4>1, <1>6
    <3>2. CASE j \in 1 .. Len(sentAudio)
      BY <3>1, <3>2, <1>2, <1>6 DEF Increasing
    <3>3. CASE j = Len(sentAudio) + 1
      BY <3>1, <3>3, <2>1, <1>6
    <3>4. j \in 1 .. Len(sentAudio) \/ j = Len(sentAudio) + 1
      <4>1. Len(sentAudio) \in Nat
        BY <1>2
      <4> QED BY <4>1
    <3> QED BY <3>2, <3>3, <3>4
  <2> QED BY <2>2, <2>3
<1>8. \A i \in DOMAIN sentAudio', j \in DOMAIN audio' : sentAudio'[i] < audio'[j]
  <2> SUFFICES ASSUME NEW i \in DOMAIN sentAudio', NEW j \in DOMAIN Tail(audio)
               PROVE  sentAudio'[i] < Tail(audio)[j]
    BY <1>1
  <2>1. CASE i = Len(sentAudio) + 1
    BY <2>1, <1>3, <1>6 DEF h
  <2>2. CASE i \in DOMAIN sentAudio
    BY <2>2, <1>3, <1>6 DEF AudioInOrder
  <2> QED BY <2>1, <2>2, <1>2, <1>6
<1>9. Len(sentAudio') + Len(audio') + droppedAudio' = captured'
  <2>1. Len(sentAudio) + Len(audio) + droppedAudio = captured
    BY DEF AudioInOrder
  <2>2. /\ Len(sentAudio') = Len(sentAudio) + 1 /\ Len(audio') = Len(audio) - 1
        /\ droppedAudio' = droppedAudio /\ captured' = captured
    BY <1>1, <1>3, <1>6
  <2> QED BY <1>2, <2>1, <2>2
<1> QED BY <1>1, <1>2, <1>3, <1>6, <1>7, <1>8, <1>9 DEF AudioInOrder

LEMMA NextKeepsOrder == AudioInOrder /\ [QueueNext]_queueVars => AudioInOrder'
<1> SUFFICES ASSUME AudioInOrder, [QueueNext]_queueVars PROVE AudioInOrder'
  OBVIOUS
<1>1. ASSUME UNCHANGED sound PROVE AudioInOrder'
  BY <1>1 DEF sound, AudioInOrder, Increasing, UpTo
<1>2. CASE EnqueueAudio
  BY <1>2, EnqueueAudioKeepsOrder
<1>3. CASE PopNext
  BY <1>1, <1>3, PopAudioKeepsOrder DEF PopNext, PopControl
<1>4. CASE BeginTeardown \/ UNCHANGED queueVars
  BY <1>1, <1>4 DEF BeginTeardown, queueVars
<1>5. ASSUME NEW c \in Commands, EnqueueRefused(c) \/ EnqueueControl(c) PROVE AudioInOrder'
  BY <1>1, <1>5 DEF EnqueueRefused, EnqueueControl
<1>6. ASSUME NEW r \in Requests, NEW reason \in AnswerReasons, Answer(r, reason)
      PROVE  AudioInOrder'
  BY <1>1, <1>6 DEF Answer, Notify
<1>7. ASSUME NEW c \in Replied, Timeout(c) PROVE AudioInOrder'
  BY <1>1, <1>7 DEF Timeout, Notify
<1> QED BY <1>2, <1>3, <1>4, <1>5, <1>6, <1>7 DEF QueueNext

LEMMA OrderIsAccounted == AudioInOrder => AudioAccounted
<1> SUFFICES ASSUME AudioInOrder PROVE AudioAccounted
  OBVIOUS
<1> DEFINE m == Len(sentAudio)
           line == sentAudio \o audio
<1>1. /\ sentAudio \in Seq(Nat) /\ audio \in Seq(Nat) /\ m \in Nat /\ Len(audio) \in Nat
      /\ DOMAIN sentAudio = 1 .. m /\ DOMAIN audio = 1 .. Len(audio)
  BY DEF AudioInOrder
<1>2. /\ DOMAIN line = 1 .. m + Len(audio)
      /\ \A i \in 1 .. m : line[i] = sentAudio[i]
      /\ \A i \in m + 1 .. m + Len(audio) : line[i] = audio[i - m] /\ i - m \in 1 .. Len(audio)
  BY <1>1
<1> HIDE DEF line, m
<1>3. ASSUME NEW i \in DOMAIN line, NEW j \in DOMAIN line, i < j PROVE line[i] < line[j]
  <2>1. (i \in 1 .. m \/ i \in m + 1 .. m + Len(audio)) /\ (j \in 1 .. m \/ j \in m + 1 .. m + Len(audio))
    BY <1>1, <1>2
  <2>2. CASE j \in 1 .. m
    <3>1. i \in 1 .. m
      BY <2>1, <2>2, <1>1, <1>3
    <3> QED BY <2>2, <3>1, <1>1, <1>2, <1>3 DEF AudioInOrder, Increasing
  <2>3. CASE i \in 1 .. m /\ j \in m + 1 .. m + Len(audio)
    BY <2>3, <1>1, <1>2 DEF AudioInOrder
  <2>4. CASE i \in m + 1 .. m + Len(audio) /\ j \in m + 1 .. m + Len(audio)
    <3>1. i - m \in DOMAIN audio /\ j - m \in DOMAIN audio /\ i - m < j - m
      BY <2>4, <1>1, <1>2, <1>3
    <3>2. audio[i - m] < audio[j - m]
      BY <3>1 DEF AudioInOrder, Increasing
    <3> QED BY <2>4, <3>2, <1>2
  <2> QED BY <2>1, <2>2, <2>3, <2>4
<1> QED BY <1>3 DEF AudioAccounted, AudioInOrder, line

\* out_queue.cpp: "complete" is told only to the waiter of a request the sidecar
\* has answered, and every captured frame is sent, queued or counted as dropped,
\* those sent and queued in the order of their capture.
THEOREM BooksStayBalanced == QueueSpec => []BooksBalance
<1>1. QueueInit => CompleteMeansAnswered
  BY DEF QueueInit, CompleteMeansAnswered
<1>2. QueueInit => AudioInOrder
  BY DEF QueueInit, AudioInOrder, Increasing, UpTo
<1>3. CompleteMeansAnswered /\ AudioInOrder => BooksBalance
  BY OrderIsAccounted DEF BooksBalance
<1> QED BY <1>1, <1>2, <1>3, SettledAreAnswered, NextKeepsOrder, PTL DEF QueueSpec
=============================================================================
