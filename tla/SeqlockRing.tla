---------------------------- MODULE SeqlockRing ----------------------------
(***************************************************************************)
(* The overwriting audio ring between the OBS audio thread (push) and the  *)
(* bridge's writer thread (pop): native-plugin/src/ring.hpp.               *)
(*                                                                         *)
(* The producer never waits: it overwrites the oldest slot.  A slot holds  *)
(* a version counter, odd while the slot is being written, and a plain     *)
(* (non-atomic) value; the reader copies the value between two loads of    *)
(* the version and discards the copy if they differ.  The two threads      *)
(* race on the value, so it is written and copied word by word, in any     *)
(* order.  Frames are named by their sequence number 1, 2, ...; a word is  *)
(* represented by the frame it belongs to.                                 *)
(***************************************************************************)
EXTENDS Naturals

CONSTANTS
  Capacity,     \* number of slots, IpcBridge::Config::ring_capacity
  Words,        \* the words of a slot value; "seq" and "marker" are two of them
  MaxPush,      \* bound on the number of frames pushed
  LoadsInOrder  \* TRUE: the words of the value are loaded before the second load
                \* of the version, as a TSO processor does.  The source only asks
                \* for acquire loads, so a weaker processor may delay them: FALSE

ASSUME CapacityAssumption == Capacity \in Nat \ {0}
ASSUME WordsAssumption == {"seq", "marker"} \subseteq Words
ASSUME MaxPushAssumption == MaxPush \in Nat
ASSUME LoadsAssumption == LoadsInOrder \in BOOLEAN

VARIABLES
  head,      \* read cursor: frames the reader has gone past
  tail,      \* write cursor: frames published
  dropped,   \* dropped_frames_
  version,   \* version counter of each slot
  value,     \* words of each slot
  ppc,       \* where the producer is in push
  unwritten, \* words push has still to store
  rpc,       \* where the reader is in pop
  seen,      \* the tail pop loaded
  before,    \* first version pop loaded
  after,     \* second version pop loaded
  copied,    \* pop's local copy of the value
  uncopied,  \* words pop has still to load
  last       \* the frame pop returned last, all its words

ring     == <<head, tail, dropped, version, value>>
writer   == <<ppc, unwritten>>
reader   == <<rpc, seen, before, after, copied, uncopied, last>>
ringVars == <<ring, writer, reader>>

Slots   == 0 .. Capacity - 1
NoFrame == 0
Blank   == [w \in Words |-> NoFrame]
WSlot   == tail % Capacity
RSlot   == head % Capacity
Odd(n)  == n % 2 = 1

\* marker == ~seq: the header words belong to one frame.
IsConsistent(v) == v["marker"] = v["seq"] /\ v["seq"] # NoFrame

\* Every word belongs to the same frame.
Intact(v) == \A w \in Words : v[w] = v["seq"]

RingInit ==
  /\ head = 0 /\ tail = 0 /\ dropped = 0
  /\ version = [s \in Slots |-> 0]
  /\ value = [s \in Slots |-> Blank]
  /\ ppc = "idle" /\ unwritten = {}
  /\ rpc = "idle" /\ seen = 0 /\ before = 0 /\ after = 0
  /\ copied = Blank /\ uncopied = {}
  /\ last = Blank

----------------------------------------------------------------------------
(* push: the audio thread, its only caller.                                *)

PushOpen ==
  /\ ppc = "idle" /\ tail < MaxPush
  /\ version' = [version EXCEPT ![WSlot] = @ + 1]
  /\ ppc' = "write" /\ unwritten' = Words
  /\ UNCHANGED <<head, tail, dropped, value, reader>>

PushWord(w) ==
  /\ ppc = "write" /\ w \in unwritten
  /\ value' = [value EXCEPT ![WSlot][w] = tail + 1]
  /\ unwritten' = unwritten \ {w}
  /\ UNCHANGED <<head, tail, dropped, version, ppc, reader>>

PushClose ==
  /\ ppc = "write" /\ unwritten = {}
  /\ version' = [version EXCEPT ![WSlot] = @ + 1]
  /\ ppc' = "publish"
  /\ UNCHANGED <<head, tail, dropped, value, unwritten, reader>>

PushPublish ==
  /\ ppc = "publish"
  /\ tail' = tail + 1
  /\ ppc' = "account"
  /\ UNCHANGED <<head, dropped, version, value, unwritten, reader>>

PushAccount ==
  /\ ppc = "account"
  /\ dropped' = IF tail > head + Capacity THEN dropped + 1 ELSE dropped
  /\ ppc' = "idle"
  /\ UNCHANGED <<head, tail, version, value, unwritten, reader>>

Push == PushOpen \/ (\E w \in Words : PushWord(w)) \/ PushClose \/ PushPublish \/ PushAccount

----------------------------------------------------------------------------
(* pop: the writer thread, its only caller.  Only pop moves head.          *)

\* Mutant: pop waits for a second frame before it takes one.
PopLoadOffByOne ==
  /\ rpc = "idle" /\ head + 1 < tail
  /\ seen' = tail
  /\ rpc' = IF tail - head > Capacity THEN "lag" ELSE "aim"
  /\ UNCHANGED <<ring, writer, before, after, copied, uncopied, last>>

\* One turn of pop's loop starts: with nothing published pop returns false, and
\* the writer thread calls it again a millisecond later.
PopLoad ==
  /\ rpc = "idle" /\ head < tail
  /\ seen' = tail
  /\ rpc' = IF tail - head > Capacity THEN "lag" ELSE "aim"
  /\ UNCHANGED <<ring, writer, before, after, copied, uncopied, last>>

\* The reader is more than a ring behind: skip what has been overwritten.
PopCatchUp ==
  /\ rpc = "lag"
  /\ head' = seen - Capacity
  /\ rpc' = "idle"
  /\ UNCHANGED <<tail, dropped, version, value, writer,
                 seen, before, after, copied, uncopied, last>>

\* head_.fetch_add(1); dropped_frames_.fetch_add(1); continue.
Skip ==
  /\ head' = head + 1 /\ dropped' = dropped + 1
  /\ rpc' = "idle"
  /\ UNCHANGED last

PopBefore ==
  /\ rpc = "aim"
  /\ before' = version[RSlot]
  /\ IF Odd(version[RSlot])
       THEN Skip /\ uncopied' = uncopied
       ELSE /\ rpc' = "copy" /\ uncopied' = Words
            /\ UNCHANGED <<head, dropped, last>>
  /\ UNCHANGED <<tail, version, value, writer, seen, after, copied>>

PopWord(w) ==
  /\ rpc \in {"copy", "check"} /\ w \in uncopied
  /\ copied' = [copied EXCEPT ![w] = value[RSlot][w]]
  /\ uncopied' = uncopied \ {w}
  /\ UNCHANGED <<ring, writer, rpc, seen, before, after, last>>

\* Mutant: the version is not loaded a second time.
PopAfterNoReload ==
  /\ rpc = "copy" /\ (LoadsInOrder => uncopied = {})
  /\ after' = before
  /\ rpc' = "check"
  /\ UNCHANGED <<ring, writer, seen, before, copied, uncopied, last>>

PopAfter ==
  /\ rpc = "copy" /\ (LoadsInOrder => uncopied = {})
  /\ after' = version[RSlot]
  /\ rpc' = "check"
  /\ UNCHANGED <<ring, writer, seen, before, copied, uncopied, last>>

\* Mutant: pop trusts head and does not look at the sequence number.
AcceptableAnyOrder(v) == before = after /\ IsConsistent(v)

Acceptable(v) ==
  /\ before = after
  /\ IsConsistent(v)
  /\ v["seq"] > last["seq"]

PopCheck ==
  /\ rpc = "check" /\ uncopied = {}
  /\ IF Acceptable(copied)
       THEN /\ last' = copied
            /\ head' = head + 1 /\ rpc' = "idle"
            /\ UNCHANGED dropped
       ELSE Skip
  /\ UNCHANGED <<tail, version, value, writer, seen, before, after, copied, uncopied>>

Pop == PopLoad \/ PopCatchUp \/ PopBefore \/ (\E w \in Words : PopWord(w)) \/ PopAfter \/ PopCheck

RingNext == Push \/ Pop

RingSpec == RingInit /\ [][RingNext]_ringVars

----------------------------------------------------------------------------
\* The cursors and versions are numbers, the reader never passes the producer, and
\* each side is at one of its places.
RingTypeOK ==
  /\ head \in Nat /\ tail \in Nat /\ head <= tail
  /\ dropped \in Nat
  /\ version \in [Slots -> Nat]
  /\ value \in [Slots -> [Words -> Nat]]
  /\ ppc \in {"idle", "write", "publish", "account"}
  /\ unwritten \subseteq Words
  /\ rpc \in {"idle", "lag", "aim", "copy", "check"}
  /\ seen \in Nat /\ before \in Nat /\ after \in Nat
  /\ copied \in [Words -> Nat] /\ last \in [Words -> Nat]
  /\ uncopied \subseteq Words

\* What pop returns was pushed as such: no word of it comes from another frame,
\* although the producer may overwrite the slot at any moment of the copy.
DeliveredIntact == Intact(last)

\* push then pop is a lossy feed: pop returns frames that were pushed, in the
\* order they were captured and none twice, although the slot at head may by
\* then hold a frame of a later lap, or one that push has closed and not yet
\* published.
Sent == IF ppc = "publish" THEN tail + 1 ELSE tail
Feed == INSTANCE LossyFeed WITH sent <- Sent, received <- last["seq"]
DeliversInOrder == Feed!Spec

\* A frame is never stale when it is chosen: at the second version load of a
\* copy that pop goes on to return, the producer has not yet published the
\* frame that overwrites it.
FreshWhenChosen ==
  [][rpc = "copy" /\ rpc' = "check" /\ after' = before
       => copied["seq"] + Capacity > tail]_ringVars

\* Whenever the producer pauses, the newest frame gets through: overwriting loses
\* old audio, never the most recent.
NewestDelivered == []<>(ppc # "idle" \/ last["seq"] = tail)

\* What the reader is handed is the newest the ring can give: no frame is already
\* overwritten when it is chosen, and the last one pushed gets through.
FreshestComesOut == FreshWhenChosen /\ NewestDelivered
=============================================================================
