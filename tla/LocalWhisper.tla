----------------------------- MODULE LocalWhisper -----------------------------
(***************************************************************************)
(* The local Whisper backend: a rolling window of audio, transcribed again *)
(* and again, whose tokens are committed once two transcriptions agree.    *)
(* feed_audio and flush transcribe in the middle of what they do; `run`    *)
(* calls them one after the other, the sidecar runs feed_audio in a thread *)
(* and flush on its loop.  One frame of audio holds one word, numbered; a  *)
(* transcription of the window is right up to its last word, which is cut  *)
(* short by the end of the audio and may be misheard, or it is empty.      *)
(***************************************************************************)
EXTENDS Integers, Sequences, FiniteSets

CONSTANTS
  Offloads,       \* whether feed_audio runs in a thread of its own: a set of Booleans
  MaxBufferWords, \* max_buffer_s
  MaxSpoken,      \* bound on the words spoken
  MaxEmpty        \* bound on the transcriptions that come back empty

ASSUME WhisperAssumption ==
  Offloads \subseteq BOOLEAN /\ MaxBufferWords \in Nat \ {0} /\ MaxSpoken \in Nat /\ MaxEmpty \in Nat

VARIABLES
  offloaded,  \* this backend is the sidecar's
  window,     \* _buffer: the words it holds
  hypothesis, \* _previous_tokens, _last_confirmed_len, _rebase_pending
  feeding, flushing, \* the transcriptions under way: "idle" or the window they were given
  committed,  \* tokens given to on_final in this utterance
  spoken,     \* words fed so far
  first,      \* the first word of this utterance
  empties,
  unanchored  \* what the commitments of this utterance do not survive (history)

whisperVars == <<offloaded, window, hypothesis, feeding, flushing, committed, spoken,
                 first, empties, unanchored>>

NoHypothesis == [prev |-> <<>>, confirmed |-> 0, rebase |-> FALSE]
Resting == [busy |-> FALSE, audio |-> <<>>]
Transcribing(audio) == [busy |-> TRUE, audio |-> audio]

WhisperInit ==
  /\ offloaded \in Offloads
  /\ window = <<>> /\ hypothesis = NoHypothesis
  /\ feeding = Resting /\ flushing = Resting
  /\ committed = <<>> /\ spoken = 0 /\ first = 1 /\ empties = 0
  /\ unanchored = FALSE

\* A misheard word is a token like no other: the negative of its number.
Transcripts(audio) ==
  {audio, [audio EXCEPT ![Len(audio)] = -@]} \cup (IF empties < MaxEmpty THEN {<<>>} ELSE {})

----------------------------------------------------------------------------
(* LocalAgreement-2 over the window.                                       *)

Drop(n, seq) == SubSeq(seq, n + 1, Len(seq))
Lesser(x, y) == IF x < y THEN x ELSE y

\* local_agreement with n = 2: the length of the common prefix.
LocalAgreement(prev, curr) ==
  LET agree(n) == SubSeq(prev, 1, n) = SubSeq(curr, 1, n)
  IN CHOOSE n \in 0..Lesser(Len(prev), Len(curr)) :
       agree(n) /\ \A m \in n + 1..Lesser(Len(prev), Len(curr)) : ~agree(m)

\* _retained_overlap: the longest suffix of prev that reappears in curr, and
\* the last place where it does.
RetainedOverlap(prev, curr) ==
  LET at(n) == {o \in 0..Len(curr) - n : SubSeq(curr, o + 1, o + n) = Drop(Len(prev) - n, prev)}
      found == {n \in 1..Lesser(Len(prev), Len(curr)) : at(n) # {}}
  IN IF found = {} THEN [length |-> 0, offset |-> 0]
     ELSE LET n == CHOOSE n \in found : \A m \in found : m <= n
          IN [length |-> n, offset |-> CHOOSE o \in at(n) : \A p \in at(n) : p <= o]

Result(hyp, finals) == [hyp |-> hyp, finals |-> finals]

\* _handle_empty_window
EmptyWindow(hyp) ==
  Result(NoHypothesis, IF hyp.rebase THEN Drop(hyp.confirmed, hyp.prev) ELSE <<>>)

\* Mutant: the trimmed window starts over, nothing of it counts as confirmed.
RebaseAfterTrimStartingOver(hyp, curr) ==
  LET o == RetainedOverlap(hyp.prev, curr)
  IN Result([prev |-> curr, confirmed |-> 0, rebase |-> FALSE],
            SubSeq(hyp.prev, hyp.confirmed + 1, Len(hyp.prev) - o.length))

\* _rebase_after_trim
RebaseAfterTrim(hyp, curr) ==
  LET o == RetainedOverlap(hyp.prev, curr)
      start == Len(hyp.prev) - o.length
      survivors == Lesser(IF hyp.confirmed > start THEN hyp.confirmed - start ELSE 0, o.length)
  IN Result([prev |-> curr, confirmed |-> o.offset + survivors, rebase |-> FALSE],
            SubSeq(hyp.prev, hyp.confirmed + 1, start))

Agree(hyp, curr) ==
  LET agreed == LocalAgreement(hyp.prev, curr)
      upTo == IF agreed > hyp.confirmed THEN agreed ELSE hyp.confirmed
  IN Result([prev |-> curr, confirmed |-> upTo, rebase |-> FALSE],
            SubSeq(curr, hyp.confirmed + 1, agreed))

\* _emit_partial_from_buffer, from the text of its transcription on.
EmitPartial(hyp, curr) ==
  IF curr = <<>> THEN EmptyWindow(hyp)
  ELSE IF hyp.rebase THEN RebaseAfterTrim(hyp, curr)
  ELSE Agree(hyp, curr)

----------------------------------------------------------------------------
(* feed_audio and flush.                                                   *)

MayFeed == ~feeding.busy /\ (offloaded \/ ~flushing.busy)

\* A word is fed; the transcription is skipped when none is due, never so
\* often that a word could leave the window unheard.
Feed(due) ==
  /\ MayFeed /\ spoken < MaxSpoken
  /\ spoken' = spoken + 1
  /\ LET grown == Append(window, spoken + 1)
         excess == Len(grown) - MaxBufferWords
     IN /\ window' = IF excess > 0 THEN Drop(excess, grown) ELSE grown
        /\ hypothesis' = [hypothesis EXCEPT !.rebase = @ \/ excess > 0]
        /\ due \/ excess < 0
  /\ feeding' = IF due THEN Transcribing(window') ELSE feeding
  /\ unanchored' = (unanchored \/ flushing.busy)
  /\ UNCHANGED <<offloaded, flushing, committed, first, empties>>

\* A commitment is lost sight of when a trimmed window is compared with a
\* misheard word, or when a transcription comes back empty.
LosesAnchor(text) ==
  \/ text = <<>>
  \/ hypothesis.rebase /\ hypothesis.prev # <<>> /\ hypothesis.prev[Len(hypothesis.prev)] < 0

FeedTranscribed ==
  /\ feeding.busy /\ feeding' = Resting
  /\ \E text \in Transcripts(feeding.audio) :
       LET r == EmitPartial(hypothesis, text) IN
       /\ hypothesis' = r.hyp
       /\ committed' = committed \o r.finals
       /\ empties' = IF text = <<>> THEN empties + 1 ELSE empties
       /\ unanchored' = (unanchored \/ LosesAnchor(text) \/ window = <<>>)
  /\ UNCHANGED <<offloaded, window, flushing, spoken, first>>

FlushNothing ==
  /\ ~flushing.busy /\ (offloaded \/ ~feeding.busy) /\ window = <<>> /\ hypothesis # NoHypothesis
  /\ hypothesis' = NoHypothesis
  /\ UNCHANGED <<offloaded, window, feeding, flushing, committed, spoken, first, empties, unanchored>>

Flush ==
  /\ ~flushing.busy /\ (offloaded \/ ~feeding.busy) /\ window # <<>>
  /\ flushing' = Transcribing(window)
  /\ unanchored' = (unanchored \/ feeding.busy)
  /\ UNCHANGED <<offloaded, window, hypothesis, feeding, committed, spoken, first, empties>>

\* What is left of the last transcription is final; the utterance is over.
FlushTranscribed ==
  /\ flushing.busy /\ flushing' = Resting
  /\ \E text \in Transcripts(flushing.audio) :
       LET r == EmitPartial(hypothesis, text) IN
       /\ committed' = committed \o r.finals \o Drop(r.hyp.confirmed, r.hyp.prev)
       /\ empties' = IF text = <<>> THEN empties + 1 ELSE empties
       /\ unanchored' = (unanchored \/ LosesAnchor(text) \/ feeding.busy \/ Len(window) # Len(flushing.audio))
  /\ window' = <<>> /\ hypothesis' = NoHypothesis
  /\ UNCHANGED <<offloaded, feeding, spoken, first>>

\* The next utterance begins where the last one was flushed.
NextUtterance ==
  /\ window = <<>> /\ first <= spoken /\ ~feeding.busy /\ ~flushing.busy
  /\ first' = spoken + 1 /\ committed' = <<>> /\ unanchored' = (hypothesis # NoHypothesis)
  /\ UNCHANGED <<offloaded, window, hypothesis, feeding, flushing, spoken, empties>>

WhisperNext ==
  \/ \E due \in BOOLEAN : Feed(due)
  \/ FeedTranscribed \/ FlushNothing \/ Flush \/ FlushTranscribed \/ NextUtterance

WhisperSpec == WhisperInit /\ [][WhisperNext]_whisperVars

----------------------------------------------------------------------------
(* Properties.                                                             *)

Word(token) == IF token < 0 THEN -token ELSE token

\* Each word of an utterance becomes final once and in order, however often
\* its window was transcribed, whatever the window lost at its old end and
\* whichever last words were misheard: unless a trimmed window could not be
\* anchored, a transcription came back empty or the sidecar's flush ran
\* beside a feed.
WordsCommittedOnce ==
  ~unanchored =>
    /\ \A i \in DOMAIN committed : Word(committed[i]) = first + i - 1
    /\ window = <<>> /\ ~flushing.busy /\ spoken >= first => Len(committed) = spoken - first + 1

\* _rebase_after_trim: "no already-committed token is re-emitted", "even for
\* an adversarial hypothesis".
NothingCommittedTwice ==
  \A i, j \in DOMAIN committed : i # j => committed[i] # committed[j]
=============================================================================
