------------------------- MODULE SeqlockRingProofs -------------------------
(***************************************************************************)
(* What pop returns is intact and in order, for every capacity and every   *)
(* set of words, when the loads of the copy precede the second load of the *)
(* version.  The argument is the seqlock's: a slot with an even version    *)
(* holds one frame, and while the version still equals the one loaded      *)
(* before the copy, the words copied so far are the slot's.                *)
(***************************************************************************)
EXTENDS SeqlockRing, TLAPS

\* The slot being written, and no other, has an odd version; every other slot
\* holds a whole frame that has been closed.
SlotInv ==
  \A s \in Slots :
    /\ Odd(version[s]) <=> (ppc = "write" /\ s = WSlot)
    /\ ~Odd(version[s]) => Intact(value[s]) /\ value[s]["seq"] <= Sent

\* The words push has stored belong to the frame it is pushing.
WriteInv ==
  ppc = "write" => \A w \in Words \ unwritten : value[WSlot][w] = tail + 1

\* While the version is the one loaded before the copy, the words copied so
\* far are those of the slot.
CopyInv ==
  rpc = "copy" =>
    /\ ~Odd(before)
    /\ before <= version[RSlot]
    /\ version[RSlot] = before =>
         \A w \in Words \ uncopied : copied[w] = value[RSlot][w]

\* A copy between two equal versions is a whole frame.
CheckInv ==
  rpc = "check" =>
    /\ uncopied = {}
    /\ before = after => Intact(copied) /\ copied["seq"] <= Sent

\* The cursors pop works on.
CursorInv ==
  /\ rpc \in {"aim", "copy", "check"} => head < tail
  /\ rpc = "lag" => seen <= tail /\ seen > head + Capacity

IInv ==
  /\ RingTypeOK /\ SlotInv /\ WriteInv /\ CopyInv /\ CheckInv /\ CursorInv
  /\ DeliveredIntact /\ last["seq"] <= Sent

\* The slot of a cursor exists.
LEMMA SlotOfCursor == \A n \in Nat : n % Capacity \in Slots
BY CapacityAssumption DEF Slots

LEMMA Parity == \A n \in Nat : Odd(n + 1) <=> ~Odd(n)
BY DEF Odd

LEMMA InitIInv == RingInit => IInv
<1> SUFFICES ASSUME RingInit PROVE IInv
  OBVIOUS
<1>1. RingTypeOK
  BY WordsAssumption DEF RingInit, RingTypeOK, Blank, NoFrame, Slots
<1>2. SlotInv
  BY WordsAssumption DEF RingInit, SlotInv, Odd, Intact, Blank, NoFrame, Sent
<1>3. WriteInv /\ CopyInv /\ CheckInv /\ CursorInv
  BY DEF RingInit, WriteInv, CopyInv, CheckInv, CursorInv
<1>4. DeliveredIntact /\ last["seq"] <= Sent
  BY WordsAssumption DEF RingInit, DeliveredIntact, Intact, Blank, NoFrame, Sent
<1> QED
  BY <1>1, <1>2, <1>3, <1>4 DEF IInv

\* The producer's steps.  A version that changes leaves the one pop loaded
\* behind; a word is stored only in a slot whose version is odd.
LEMMA PushKeepsIInv ==
  ASSUME IInv, Push, LoadsInOrder PROVE IInv'
<1> USE DEF IInv, RingTypeOK
<1>w. WSlot \in Slots /\ RSlot \in Slots
  BY SlotOfCursor DEF WSlot, RSlot
<1>s. "seq" \in Words
  BY WordsAssumption
<1>1. CASE PushOpen
  <2> USE <1>1 DEF PushOpen, reader
  <2>1. version'[WSlot] = version[WSlot] + 1 /\ \A s \in Slots \ {WSlot} : version'[s] = version[s]
    BY <1>w
  <2>2. RingTypeOK'
    BY <1>w
  <2>3. SlotInv' /\ WriteInv'
    BY <2>1, <1>w, Parity DEF SlotInv, WriteInv, Sent, WSlot, Intact
  <2>4. CopyInv'
    BY <2>1, <1>w, <1>s DEF CopyInv, RSlot
  <2> QED
    BY <2>2, <2>3, <2>4 DEF CheckInv, CursorInv, DeliveredIntact, Sent, Intact
<1>2. ASSUME NEW w \in Words, PushWord(w) PROVE IInv'
  <2> USE <1>2 DEF PushWord, reader
  <2>1. \A s \in Slots \ {WSlot} : value'[s] = value[s]
    BY <1>w
  <2>2. value'[WSlot] = [value[WSlot] EXCEPT ![w] = tail + 1]
    BY <1>w
  <2>3. RingTypeOK'
    BY <1>w
  <2>4. Odd(version[WSlot])
    BY <1>w DEF SlotInv
  <2>5. SlotInv'
    BY <2>1, <2>4, <1>w DEF SlotInv, Sent, WSlot, Intact
  <2>6. WriteInv'
    BY <2>2, <1>w DEF WriteInv, WSlot
  <2>7. CopyInv'
    BY <2>1, <2>4, <1>w DEF CopyInv, RSlot
  <2> QED
    BY <2>3, <2>5, <2>6, <2>7 DEF CheckInv, CursorInv, DeliveredIntact, Sent, Intact
<1>3. CASE PushClose
  <2> USE <1>3 DEF PushClose, reader
  <2>1. version'[WSlot] = version[WSlot] + 1 /\ \A s \in Slots \ {WSlot} : version'[s] = version[s]
    BY <1>w
  <2>2. RingTypeOK'
    BY <1>w
  <2>3. Odd(version[WSlot]) /\ Intact(value[WSlot]) /\ value[WSlot]["seq"] = tail + 1
    BY <1>w, <1>s DEF SlotInv, WriteInv, Intact
  <2>4. Sent' = tail + 1 /\ Sent = tail
    BY DEF Sent
  <2>5. SlotInv' /\ WriteInv'
    BY <2>1, <2>3, <2>4, <1>w, <1>s, Parity DEF SlotInv, WriteInv, WSlot, Intact
  <2>6. CopyInv'
    BY <2>1, <2>3, <1>w DEF CopyInv, RSlot
  <2>7. CheckInv'
    BY <2>4, <1>s DEF CheckInv, Intact
  <2> QED
    BY <2>2, <2>4, <2>5, <2>6, <2>7, <1>s DEF CursorInv, DeliveredIntact, Intact
<1>4. CASE PushPublish
  <2> USE <1>4 DEF PushPublish, reader
  <2>1. Sent' = Sent /\ tail' = tail + 1
    BY DEF Sent
  <2>2. SlotInv'
    BY <2>1 DEF SlotInv, Intact
  <2> QED
    BY <2>1, <2>2 DEF WriteInv, CopyInv, CheckInv, CursorInv, DeliveredIntact, Intact, RSlot
<1>5. CASE PushAccount
  BY <1>5 DEF PushAccount, reader, SlotInv, WriteInv, CopyInv, CheckInv, CursorInv,
              DeliveredIntact, Intact, RSlot, WSlot, Sent
<1> QED
  BY <1>1, <1>2, <1>3, <1>4, <1>5 DEF Push

\* The reader's steps.
LEMMA PopKeepsIInv ==
  ASSUME IInv, Pop, LoadsInOrder PROVE IInv'
<1> USE DEF IInv, RingTypeOK
<1>w. RSlot \in Slots
  BY SlotOfCursor DEF RSlot
<1>s. "seq" \in Words
  BY WordsAssumption
<1>c. Capacity \in Nat \ {0}
  BY CapacityAssumption
<1>k. \* The producer's side of the invariant, when a step of pop leaves it alone.
      UNCHANGED <<tail, version, value, writer>> => SlotInv' /\ WriteInv' /\ Sent' = Sent
  BY DEF writer, SlotInv, WriteInv, Sent, WSlot, Intact
<1>1. CASE PopLoad
  <2> USE <1>1 DEF PopLoad, ring, writer
  <2>1. RingTypeOK' /\ CursorInv'
    BY <1>c DEF CursorInv
  <2> QED
    BY <2>1, <1>k DEF CopyInv, CheckInv, DeliveredIntact, Intact
<1>2. CASE PopCatchUp
  BY <1>2, <1>k, <1>c DEF PopCatchUp, writer, CopyInv, CheckInv, CursorInv, DeliveredIntact, Intact
<1>3. CASE PopBefore
  <2> USE <1>3 DEF PopBefore
  <2>1. CASE Odd(version[RSlot])
    BY <2>1, <1>k, <1>w DEF Skip, writer, CopyInv, CheckInv, CursorInv, DeliveredIntact, Intact
  <2>2. CASE ~Odd(version[RSlot])
    BY <2>2, <1>k, <1>w DEF writer, CopyInv, CheckInv, CursorInv, DeliveredIntact, Intact, RSlot
  <2> QED
    BY <2>1, <2>2
<1>4. ASSUME NEW w \in Words, PopWord(w) PROVE IInv'
  <2> USE <1>4 DEF PopWord, ring, writer
  <2>1. rpc = "copy"
    BY DEF CheckInv
  <2>2. copied' = [copied EXCEPT ![w] = value[RSlot][w]] /\ uncopied' = uncopied \ {w} /\ RSlot' = RSlot
    BY DEF RSlot
  <2>3. CopyInv'
    BY <2>1, <2>2 DEF CopyInv
  <2>4. RingTypeOK'
    BY <2>2, <1>w
  <2>5. CheckInv' /\ CursorInv' /\ DeliveredIntact' /\ last' = last
    BY <2>1 DEF CheckInv, CursorInv, DeliveredIntact, Intact
  <2> QED
    BY <2>3, <2>4, <2>5, <1>k
<1>5. CASE PopAfter
  <2> USE <1>5 DEF PopAfter, ring, writer
  <2>1. uncopied = {}
    OBVIOUS
  <2>2. before = version[RSlot] => Intact(copied) /\ copied["seq"] <= Sent
    BY <2>1, <1>w, <1>s DEF CopyInv, SlotInv, Intact
  <2>3. CheckInv'
    BY <2>1, <2>2, <1>k DEF CheckInv, Intact
  <2>4. RingTypeOK' /\ CopyInv' /\ CursorInv'
    BY <1>w DEF CopyInv, CursorInv
  <2>5. DeliveredIntact' /\ last' = last
    BY DEF DeliveredIntact, Intact
  <2> QED
    BY <2>3, <2>4, <2>5, <1>k
<1>6. CASE PopCheck
  <2> USE <1>6 DEF PopCheck
  <2>1. CASE Acceptable(copied)
    BY <2>1, <1>k DEF Acceptable, writer, CopyInv, CheckInv, CursorInv, DeliveredIntact, Intact
  <2>2. CASE ~Acceptable(copied)
    BY <2>2, <1>k DEF Skip, writer, CopyInv, CheckInv, CursorInv, DeliveredIntact, Intact
  <2> QED
    BY <2>1, <2>2
<1> QED
  BY <1>1, <1>2, <1>3, <1>4, <1>5, <1>6 DEF Pop

LEMMA NextKeepsIInv ==
  ASSUME LoadsInOrder, IInv, [RingNext]_ringVars PROVE IInv'
<1>1. CASE Push
  BY <1>1, PushKeepsIInv
<1>2. CASE Pop
  BY <1>2, PopKeepsIInv
<1>3. CASE UNCHANGED ringVars
  BY <1>3 DEF ringVars, ring, writer, reader, IInv, RingTypeOK, SlotInv, WriteInv, CopyInv, CheckInv,
              CursorInv, DeliveredIntact, Intact, Sent, WSlot, RSlot
<1> QED
  BY <1>1, <1>2, <1>3 DEF RingNext

\* The seqlock works: nothing pop returns mixes two frames, however the threads
\* interleave, whatever the capacity and however large the value.
THEOREM DeliveryIsIntact ==
  ASSUME LoadsInOrder PROVE RingSpec => [](RingTypeOK /\ DeliveredIntact)
<1>1. IInv => RingTypeOK /\ DeliveredIntact
  BY DEF IInv
<1> QED
  BY InitIInv, NextKeepsIInv, <1>1, PTL DEF RingSpec

\* push and pop implement the lossy feed: a step of pop that returns a frame
\* receives one that was sent after the last one received; a step of push that
\* closes a slot sends a frame; every other step changes neither.
LEMMA StepRefinesFeed ==
  ASSUME LoadsInOrder, IInv, [RingNext]_ringVars
  PROVE  [Feed!Next]_<<Sent, last["seq"]>>
<1> USE DEF IInv, RingTypeOK, Feed!Next, Feed!Send, Feed!Receive
<1>s. "seq" \in Words
  BY WordsAssumption
<1>1. CASE PushClose
  BY <1>1 DEF PushClose, reader, Sent
<1>2. CASE PopCheck
  <2>1. CASE Acceptable(copied)
    BY <1>2, <2>1, <1>s DEF PopCheck, Acceptable, CheckInv, writer, Sent
  <2>2. CASE ~Acceptable(copied)
    BY <1>2, <2>2 DEF PopCheck, Skip, writer, Sent
  <2> QED
    BY <2>1, <2>2
<1>3. CASE PushOpen \/ (\E w \in Words : PushWord(w)) \/ PushPublish \/ PushAccount
  BY <1>3 DEF PushOpen, PushWord, PushPublish, PushAccount, reader, Sent
<1>4. CASE PopLoad \/ PopCatchUp \/ PopBefore \/ (\E w \in Words : PopWord(w)) \/ PopAfter
  BY <1>4 DEF PopLoad, PopCatchUp, PopBefore, PopWord, PopAfter, Skip, ring, writer, Sent
<1>5. CASE UNCHANGED ringVars
  BY <1>5 DEF ringVars, ring, writer, reader, Sent
<1> QED
  BY <1>1, <1>2, <1>3, <1>4, <1>5 DEF RingNext, Push, Pop

THEOREM RingImplementsFeed ==
  ASSUME LoadsInOrder PROVE RingSpec => DeliversInOrder
<1>1. RingInit => Feed!Init
  BY WordsAssumption DEF RingInit, Feed!Init, Sent, Blank, NoFrame
<1> QED
  BY <1>1, InitIInv, NextKeepsIInv, StepRefinesFeed, PTL DEF RingSpec, DeliversInOrder, Feed!Spec
=============================================================================
