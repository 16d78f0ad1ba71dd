------------------------------- MODULE Captions -------------------------------
(***************************************************************************)
(* What the caption state does with a transcript, what may become of its   *)
(* text on the way there and on the way to a renderer, and the cues of the *)
(* transcript file.  A text is a sequence of characters; a text of blanks  *)
(* only is the empty one.                                                  *)
(***************************************************************************)
EXTENDS Naturals, Sequences, SequencesExt

\* CaptionSnapshot
Snapshot(committed, partial) == [committed |-> committed, partial |-> partial]
NoCaption == Snapshot(<<>>, <<>>)

----------------------------------------------------------------------------
(* pipeline.py: the three calls that change the caption state.             *)

Partial(snap, text) == [snap EXCEPT !.partial = text]

\* The last n of a sequence, as the slice [-n:] of the code.
LastOf(n, seq) == SubSeq(seq, Len(seq) - (IF n < Len(seq) THEN n ELSE Len(seq)) + 1, Len(seq))

\* A final that repeats the line before it is committed once.
Final(snap, text, maxLines) ==
  LET lines == IF snap.committed # <<>> /\ Last(snap.committed) = text
                 THEN snap.committed ELSE Append(snap.committed, text)
  IN Snapshot(LastOf(maxLines, lines), <<>>)

Cleared == NoCaption

----------------------------------------------------------------------------
(* text.py                                                                 *)

\* should_suppress, its regular expressions and exact texts given as the set
\* of the texts they match.
ShouldSuppress(text, suppressBlank, suppressed) ==
  (suppressBlank /\ text = <<>>) \/ text \in suppressed

\* wrap_text
WrapText(text, maxChars) ==
  IF maxChars = 0 \/ Len(text) <= maxChars THEN <<text>>
  ELSE [i \in 1..((Len(text) + maxChars - 1) \div maxChars) |->
          SubSeq(text, (i - 1) * maxChars + 1,
                 IF i * maxChars < Len(text) THEN i * maxChars ELSE Len(text))]

\* caption_state_to_message; the lines of a partial are joined again.
CaptionMessage(snap, maxChars) ==
  [committed |-> FlattenSeq([i \in DOMAIN snap.committed |-> WrapText(snap.committed[i], maxChars)]),
   partial   |-> IF snap.partial = <<>> THEN <<>> ELSE WrapText(snap.partial, maxChars)]

----------------------------------------------------------------------------
(* The callbacks _build_caption_callbacks gives the backend: transformed   *)
(* is the text after replacements and filter.                              *)

OnPartial(snap, transformed, suppressBlank, suppressed) ==
  IF transformed = <<>> /\ suppressBlank THEN Partial(snap, <<>>)
  ELSE IF ShouldSuppress(transformed, suppressBlank, suppressed) THEN snap
  ELSE Partial(snap, transformed)

OnFinal(snap, transformed, suppressBlank, suppressed, maxLines) ==
  IF ShouldSuppress(transformed, suppressBlank, suppressed) THEN snap
  ELSE Final(snap, transformed, maxLines)

----------------------------------------------------------------------------
(* export_sink.py: the bounds of the next cue, from those of the           *)
(* transcript (NoTime when it has none), the end of the cue before it and  *)
(* the clock.                                                              *)

CONSTANT NoTime

AtLeast(x, y) == IF x < y THEN y ELSE x

Cue(startMs, endMs, prevEnd, elapsed) ==
  LET start == AtLeast(IF startMs = NoTime THEN prevEnd ELSE startMs, prevEnd)
      end   == IF endMs = NoTime THEN elapsed ELSE endMs
  IN [start |-> start, end |-> AtLeast(end, start)]
=============================================================================
