----------------------------- MODULE EpochGate -----------------------------
(***************************************************************************)
(* The epoch gate (native-plugin/src/epoch_gate.cpp) between the reader    *)
(* thread of a session and the teardown that outdates it.  A caption goes  *)
(* through process_payload's gate, EpochGate::evaluate and the callback in *)
(* three steps, and advance_epoch may come between any two of them.        *)
(*                                                                         *)
(* The sidecar numbers the captions of a session from 1 and each number    *)
(* once; two of its threads may queue their captions in the other order,   *)
(* and it may stamp another epoch than the session's (a RECONFIGURE).      *)
(***************************************************************************)
EXTENDS Naturals, Sequences

CONSTANTS
  Times,    \* timestamps a caption may carry
  Texts,    \* texts a caption may carry
  MaxSeq,   \* bound on the captions of a session
  LastEpoch  \* bound on the epochs

ASSUME MaxSeqAssumption == MaxSeq \in Nat
ASSUME LastEpochAssumption == LastEpoch \in Nat \ {0}

VARIABLES
  activeEpoch,  \* active_epoch_
  last,         \* last_seq_, last_timestamp_, last_text_; Nothing if not has_last_
  stampedEpoch, \* the epoch the session's reader is stamped with
  numbers,      \* numbers of the session's captions not yet read
  pc,           \* where the reader is: "idle", "evaluate" or "apply"
  hand,         \* the caption the reader holds
  accepted,     \* captions accepted, each with its epoch (history)
  applied,      \* captions given to the callback (history)
  shownAt       \* the epoch that was active when each of them was (history)

gate     == <<activeEpoch, last>>
reader   == <<stampedEpoch, numbers, pc, hand>>
shown    == <<applied, shownAt>>
gateVars == <<gate, reader, accepted, shown>>

Epochs   == 1 .. LastEpoch
Seqs     == 1 .. MaxSeq
Captions == [epoch : Epochs, seq : Seqs, time : Times, text : Texts, final : BOOLEAN]
Nothing  == [seq |-> 0]
Remembered(c) == [seq |-> c.seq, time |-> c.time, text |-> c.text]
Memories == [seq : Seqs, time : Times, text : Texts]

GateInit ==
  /\ activeEpoch = 1 /\ last = Nothing
  /\ stampedEpoch = 1 /\ numbers = Seqs
  /\ pc = "idle" /\ hand = Nothing
  /\ accepted = <<>> /\ applied = <<>> /\ shownAt = <<>>

----------------------------------------------------------------------------
(* The reader: one caption frame.                                          *)

\* Mutant: an epoch that is over passes.
ShouldApplyOld(e) == e <= activeEpoch

\* should_apply, which both gates ask.
ShouldApply(e) == e = activeEpoch

\* process_payload: the reader's own epoch is current, and the payload's epoch is
\* the reader's; anything else is dropped.
Read ==
  /\ pc = "idle"
  /\ \E n \in numbers :
       /\ numbers' = numbers \ {n}
       /\ \E c \in {d \in Captions : d.seq = n} :
            IF ShouldApply(stampedEpoch) /\ c.epoch = stampedEpoch
              THEN pc' = "evaluate" /\ hand' = c
              ELSE UNCHANGED <<pc, hand>>
  /\ UNCHANGED <<gate, stampedEpoch, accepted, shown>>

StaleEpoch == ~ShouldApply(hand.epoch)
OutOfOrder == last # Nothing /\ hand.seq < last.seq
Duplicate  == last # Nothing /\ hand.final /\ hand.time = last.time /\ hand.text = last.text

\* The caption becomes what the next one is compared with, unless it repeats the
\* number and the text of the last.
Accept ==
  /\ last' = IF last = Nothing \/ hand.seq > last.seq \/ hand.text # last.text
               THEN Remembered(hand) ELSE last
  /\ accepted' = Append(accepted, hand)
  /\ pc' = "apply"

\* EpochGate::evaluate, under epoch_mutex_.
Evaluate ==
  /\ pc = "evaluate"
  /\ IF StaleEpoch \/ OutOfOrder \/ Duplicate
       THEN pc' = "idle" /\ UNCHANGED <<last, accepted>>
       ELSE Accept
  /\ UNCHANGED <<activeEpoch, stampedEpoch, numbers, hand, shown>>

\* The callback, called after epoch_mutex_ was released.
Apply ==
  /\ pc = "apply"
  /\ applied' = Append(applied, hand) /\ shownAt' = Append(shownAt, activeEpoch)
  /\ pc' = "idle"
  /\ UNCHANGED <<gate, stampedEpoch, numbers, hand, accepted>>

----------------------------------------------------------------------------
(* The supervisor.                                                         *)

\* Mutant: the memory of the order and the repetition outlives the session.
AdvanceKeepsMemory ==
  /\ activeEpoch < LastEpoch
  /\ activeEpoch' = activeEpoch + 1
  /\ UNCHANGED <<last, reader, accepted, shown>>

\* advance_epoch, at the start of a teardown.
Advance ==
  /\ activeEpoch < LastEpoch
  /\ activeEpoch' = activeEpoch + 1 /\ last' = Nothing
  /\ UNCHANGED <<reader, accepted, shown>>

\* The old reader was joined; the next session's is stamped and its sidecar counts
\* from 1 again.
NewReader ==
  /\ pc = "idle" /\ stampedEpoch < activeEpoch
  /\ stampedEpoch' = activeEpoch /\ numbers' = Seqs
  /\ UNCHANGED <<gate, pc, hand, accepted, shown>>

GateNext == Read \/ Evaluate \/ Apply \/ Advance \/ NewReader

GateSpec == GateInit /\ [][GateNext]_gateVars

----------------------------------------------------------------------------
\* Every variable stays within its type, and no reader is ahead of the epoch.
GateTypeOK ==
  /\ activeEpoch \in Epochs /\ stampedEpoch \in 1 .. activeEpoch
  /\ last \in Memories \cup {Nothing}
  /\ numbers \subseteq Seqs
  /\ pc \in {"idle", "evaluate", "apply"} /\ hand \in Captions \cup {Nothing}
  /\ accepted \in Seq(Captions) /\ applied \in Seq(Captions)
  /\ shownAt \in Seq(Epochs) /\ Len(shownAt) = Len(applied)

\* The captions shown within an epoch are in the order of their numbers, so that a
\* late partial never overwrites the newest text; a new epoch may start low again.
ShownInOrder ==
  \A i, j \in 1 .. Len(accepted) :
    i < j /\ accepted[i].epoch = accepted[j].epoch => accepted[i].seq < accepted[j].seq

\* A final caption is not shown right after one with its timestamp and text.
NoEcho ==
  \A i \in 1 .. Len(accepted) - 1 :
    LET a == accepted[i]
        b == accepted[i + 1]
    IN ~(b.final /\ a.epoch = b.epoch /\ a.time = b.time /\ a.text = b.text)

\* What a caption is compared with was shown in the active epoch: a new session that
\* starts counting from 1, or repeats the old one's words, is not muted by it.
MemoryIsOfThisEpoch ==
  last # Nothing =>
    /\ accepted # <<>>
    /\ accepted[Len(accepted)].epoch = activeEpoch
    /\ Remembered(accepted[Len(accepted)]) = last

\* What is shown never goes back to an earlier session, and of a session that is
\* torn down one caption at most is shown late, its last: the one its reader had got
\* past both gates when the epoch advanced.  A teardown joins the reader before the
\* next one is stamped, so that this caption comes before any of the next session.
OneLateAtMost ==
  \A i, j \in 1 .. Len(applied) :
    i < j =>
      /\ applied[i].epoch <= applied[j].epoch
      /\ applied[i].epoch = applied[j].epoch => shownAt[i] = applied[i].epoch

\* What is shown in an epoch: in order, no final twice in a row, and judged by
\* nothing but what was shown in the same epoch.
ShowsEachOnce == GateTypeOK /\ ShownInOrder /\ NoEcho /\ MemoryIsOfThisEpoch
=============================================================================
