---------------------------- MODULE SidecarProofs ----------------------------
(***************************************************************************)
(* A request is answered once per receipt and carried out at most once,    *)
(* audio reaches the backend of its own session, and the end of stdin      *)
(* leaves nothing undone, for every number of requests and receipts and    *)
(* all capacities, if a child is greeted once (the bridge sends one HELLO  *)
(* to each child).                                                         *)
(*                                                                         *)
(* The argument counts: at any moment before the exit, a request has been  *)
(* answered as often as it was received, less one if it waits in the slot  *)
(* of its command or is being carried out without an answer yet.  It is    *)
(* never in both places, because a slot is not filled while a request of   *)
(* its command is in flight, and when clear_pending empties inflight under *)
(* the request being carried out there is no session to receive it again.  *)
(***************************************************************************)
EXTENDS Sidecar, FiniteSetTheorems, SequenceTheorems, TLAPS

Places ==
  {"sleep", "hello", "drain", "run", "resting", "replacing", "starting", "flushing",
   "stopping", "clear", "stopped", "finish", "returned", "exited"}

Types ==
  /\ reader \in {"reading", "stamped", "eof", "failed"}
  /\ greeted \in 0 .. MaxHello /\ hellos \in Seq(1 .. MaxHello) /\ Len(hellos) <= greeted
  /\ command \in [Seqs -> Commands \cup {"none"}]
  /\ receipts \in [Seqs -> Nat] /\ answers \in [Seqs -> Nat] /\ runs \in [Seqs -> {0, 1}]
  /\ active \in BOOLEAN /\ context \in BOOLEAN
  /\ slot \in [Commands -> 0 .. MaxSeq] /\ inflight \in [Commands -> 0 .. MaxSeq]
  /\ lastSeq \in [Commands -> 0 .. MaxSeq]
  /\ at \in Places /\ turn \in 1 .. 5 /\ current \in 0 .. MaxSeq
  /\ audio \in Seq(Nat) /\ Len(audio) <= MaxAudio
  /\ out \in 0 .. MaxOut

\* Where the control coroutine is tells what it carries out.
PlaceFits ==
  /\ current # None => turn <= 4 /\ command[current] = Order[turn]
  /\ at \in {"sleep", "hello", "drain", "resting", "returned"} => current = None
  /\ at \in {"run", "flushing", "stopping", "stopped", "finish"} => current # None
  /\ at \in {"stopping", "stopped"} => command[current] = "stop"
  /\ at \in {"replacing", "starting"} /\ current # None => command[current] = "reconfigure"
  /\ at = "clear" /\ current # None => command[current] \in {"stop", "reconfigure"}
  /\ at = "clear" /\ current # None => ~context
  /\ at = "resting" => turn <= 4
  /\ at = "exited" => reader \in {"eof", "failed"}

\* A request waits under its command, is newer than the last one carried out, and
\* does not wait while one of its command is in flight.
SlotsFit ==
  \A c \in Commands :
    /\ slot[c] # None => command[slot[c]] = c /\ lastSeq[c] < slot[c] /\ inflight[c] = None
    /\ inflight[c] # None => current = inflight[c] /\ command[current] = c

\* The request being carried out is in flight, unless clear_pending came before its
\* end; then nothing waits and nothing is accepted.
CurrentHeld ==
  current # None =>
    /\ lastSeq[command[current]] < current \/ at = "exited"
    /\ \/ inflight[command[current]] = current
       \/ at \in {"stopped", "finish"} /\ ~context /\ slot = Idle /\ inflight = Idle

\* Nothing happens before the HELLO.
GreetedFirst ==
  context \/ hellos # <<>> \/ current # None \/ (\E c \in Commands : slot[c] # None) => greeted > 0

Waiting(s) == \E c \in Commands : slot[c] = s

Unanswered(s) ==
  /\ current = s
  /\ \/ at \in {"run", "replacing", "starting", "flushing", "stopping", "stopped"}
     \/ at = "clear" /\ command[s] = "stop"

Open(s) == Waiting(s) \/ Unanswered(s)

\* The count of the answers.
AnswersExact ==
  at # "exited" =>
    \A s \in Seqs : receipts[s] = IF Open(s) THEN answers[s] + 1 ELSE answers[s]

\* What was carried out is no newer than the last request of its command.
RunsExact ==
  \A s \in Seqs : runs[s] = 1 => command[s] \in Commands /\ s <= lastSeq[command[s]]

LeftClean == AnsweredOnce /\ CleanExit

\* Every session beyond the HELLOs is owed to a RECONFIGURE.
Spent ==
  {s \in Seqs : runs[s] = 1 \/ (s = current /\ command[s] = "reconfigure" /\ at # "run")}

EpochLimit == MaxHello + Cardinality(Spent)

EpochsFit ==
  /\ stamp \in Nat /\ pending \in Nat /\ epoch \in Nat /\ backend \in Nat /\ target \in Nat
  /\ stamp <= EpochLimit /\ pending <= EpochLimit /\ epoch <= EpochLimit
  /\ backend <= EpochLimit /\ target <= EpochLimit
  /\ backend # None => backend = epoch

IInv ==
  /\ Types /\ PlaceFits /\ SlotsFit /\ CurrentHeld /\ GreetedFirst
  /\ AnswersExact /\ RunsExact /\ LeftClean /\ EpochsFit /\ FedItsOwn

----------------------------------------------------------------------------
(* Facts about the constants and the operators.                             *)

LEMMA OrderIs ==
  /\ Commands = {"start", "stop", "flush", "reconfigure"} /\ Len(Order) = 4
  /\ Order[1] = "start" /\ Order[2] = "stop" /\ Order[3] = "flush" /\ Order[4] = "reconfigure"
  /\ "none" \notin Commands
<1>1. Len(Order) = 4 /\ DOMAIN Order = 1 .. 4
  BY DEF Order
<1>2. Order[1] = "start" /\ Order[2] = "stop" /\ Order[3] = "flush" /\ Order[4] = "reconfigure"
  BY DEF Order
<1>3. Commands = {"start", "stop", "flush", "reconfigure"}
  BY <1>1, <1>2 DEF Commands
<1> QED
  BY <1>1, <1>2, <1>3

\* The answers that Emit counts.
LEMMA EmitCounts ==
  ASSUME Types, NEW n \in Nat, NEW S, Emit(n, S)
  PROVE  /\ out' \in 0 .. MaxOut /\ answers' \in [Seqs -> Nat]
         /\ \A s \in Seqs : answers'[s] = IF s \in S THEN answers[s] + 1 ELSE answers[s]
  BY OutAssumption DEF Emit, Full, Types

\* Pruning leaves a queue that is no longer.
LEMMA PruneTypes ==
  ASSUME Types, NEW e \in Nat
  PROVE  LET kept == [i \in 1 .. Cardinality({j \in DOMAIN audio : audio[j] = e}) |-> e]
         IN  kept \in Seq(Nat) /\ Len(kept) <= MaxAudio
<1> DEFINE K == {j \in DOMAIN audio : audio[j] = e}
           kept == [i \in 1 .. Cardinality(K) |-> e]
<1>1. Len(audio) \in Nat /\ DOMAIN audio = 1 .. Len(audio)
  BY DEF Types
<1>2. IsFiniteSet(1 .. Len(audio)) /\ Cardinality(1 .. Len(audio)) = Len(audio)
  <2> HIDE DEF K, kept
  <2> DEFINE n == Len(audio)
  <2>1. n \in Nat /\ 1 \in Int /\ n \in Int
    BY <1>1
  <2> HIDE DEF n
  <2>2. IsFiniteSet(1 .. n) /\ Cardinality(1 .. n) = IF 1 > n THEN 0 ELSE n - 1 + 1
    BY <2>1, FS_Interval
  <2>3. Cardinality(1 .. n) = n
    BY <2>1, <2>2
  <2> QED
    BY <2>2, <2>3 DEF n
<1>3. IsFiniteSet(K) /\ Cardinality(K) <= Len(audio)
  <2>1. K \in SUBSET (1 .. Len(audio))
    BY <1>1
  <2> HIDE DEF K
  <2> QED
    BY <1>2, <2>1, FS_Subset
<1>4. Cardinality(K) \in Nat
  BY <1>3, FS_CardinalityType
<1>5. kept \in Seq(Nat) /\ Len(kept) = Cardinality(K)
  <2> HIDE DEF K
  <2> QED
    BY <1>4
<1> QED
  BY <1>1, <1>3, <1>4, <1>5, AudioAssumption DEF Types

\* A set of requests is finite, and a larger one has more elements.
LEMMA SeqsCount ==
  ASSUME NEW B \in SUBSET Seqs
  PROVE  /\ IsFiniteSet(B) /\ Cardinality(B) \in Nat /\ Cardinality(B) <= MaxSeq
         /\ \A A \in SUBSET B : Cardinality(A) \in Nat /\ Cardinality(A) <= Cardinality(B)
         /\ \A s \in B : Cardinality(B \ {s}) \in Nat /\ Cardinality(B) = Cardinality(B \ {s}) + 1
<1>1. IsFiniteSet(Seqs) /\ Cardinality(Seqs) = MaxSeq
  BY SeqAssumption, FS_Interval DEF Seqs
<1>2. IsFiniteSet(B) /\ Cardinality(B) <= MaxSeq
  BY <1>1, FS_Subset
<1>3. ASSUME NEW A \in SUBSET B PROVE Cardinality(A) \in Nat /\ Cardinality(A) <= Cardinality(B)
  BY <1>2, FS_Subset, FS_CardinalityType
<1>4. ASSUME NEW s \in B
      PROVE  Cardinality(B \ {s}) \in Nat /\ Cardinality(B) = Cardinality(B \ {s}) + 1
  <2>1. IsFiniteSet(B \ {s}) /\ (B \ {s}) \cup {s} = B
    BY <1>2, <1>4, FS_Subset
  <2> QED
    BY <2>1, FS_AddElement, FS_CardinalityType
<1> QED
  BY <1>2, <1>3, <1>4, FS_CardinalityType

LEMMA SpentIsFinite == Cardinality(Spent) \in Nat /\ Cardinality(Spent) <= MaxSeq
  BY SeqsCount DEF Spent

LEMMA InitIInv == Init => IInv
<1> SUFFICES ASSUME Init PROVE IInv
  OBVIOUS
<1> USE SeqAssumption, HelloAssumption, AudioAssumption, OutAssumption DEF None
<1>1. Types
  <2>1. /\ reader \in {"reading", "stamped", "eof", "failed"} /\ at \in Places
        /\ active \in BOOLEAN /\ context \in BOOLEAN
    BY DEF Init, Places
  <2>2. turn \in 1 .. 5 /\ greeted \in 0 .. MaxHello /\ current \in 0 .. MaxSeq /\ out \in 0 .. MaxOut
    BY DEF Init
  <2>3. /\ hellos \in Seq(1 .. MaxHello) /\ Len(hellos) <= greeted
        /\ audio \in Seq(Nat) /\ Len(audio) <= MaxAudio
    BY EmptySeq DEF Init
  <2>4. Idle \in [Commands -> 0 .. MaxSeq]
    BY DEF Idle
  <2>5. /\ command \in [Seqs -> Commands \cup {"none"}]
        /\ receipts \in [Seqs -> Nat] /\ answers \in [Seqs -> Nat] /\ runs \in [Seqs -> {0, 1}]
    BY DEF Init
  <2> QED
    BY <2>1, <2>2, <2>3, <2>4, <2>5 DEF Init, Types
<1>2. PlaceFits /\ SlotsFit /\ CurrentHeld /\ GreetedFirst
  BY OrderIs DEF Init, PlaceFits, SlotsFit, CurrentHeld, GreetedFirst, Idle
<1>3. AnswersExact /\ RunsExact /\ LeftClean /\ FedItsOwn
  BY OrderIs DEF Init, AnswersExact, Open, Waiting, Unanswered, RunsExact, LeftClean, AnsweredOnce, CleanExit, FedItsOwn, Idle, Seqs
<1>4. EpochsFit
  <2>1. Cardinality(Spent) \in Nat
    BY SpentIsFinite
  <2> QED
    BY <2>1 DEF Init, EpochsFit, EpochLimit
<1> QED
  BY <1>1, <1>2, <1>3, <1>4 DEF IInv

----------------------------------------------------------------------------
(* The steps preserve the invariant, one part of it after the other.        *)

\* The command drain_once looks at, and the one it carries out, are commands.
LEMMA TurnIsCommand ==
  ASSUME Types, turn <= Len(Order)
  PROVE  turn \in 1 .. 4 /\ Order[turn] \in Commands
<1>1. turn \in {1, 2, 3, 4}
  BY OrderIs DEF Types
<1> QED
  BY <1>1, OrderIs

LEMMA CurrentIsRequest ==
  ASSUME Types, PlaceFits, current # None
  PROVE  current \in Seqs /\ command[current] \in Commands /\ turn \in 1 .. 4
<1>1. turn <= 4 /\ command[current] = Order[turn]
  BY DEF PlaceFits
<1>2. current \in Seqs
  BY SeqAssumption DEF Types, Seqs, None
<1> QED
  BY <1>1, <1>2, TurnIsCommand, OrderIs

\* A session begins: what waits of the audio.
LEMMA BeginTypes ==
  ASSUME Types, NEW e \in Nat, BeginStart(e)
  PROVE  /\ audio' \in Seq(Nat) /\ Len(audio') <= MaxAudio
         /\ active' \in BOOLEAN /\ context' \in BOOLEAN /\ at' \in {"replacing", "starting"}
  BY PruneTypes DEF BeginStart

LEMMA TypesNext == IInv /\ [Next]_vars => Types'
<1> SUFFICES ASSUME IInv, [Next]_vars PROVE Types'
  OBVIOUS
<1>t. Types
  BY DEF IInv
<1> USE DEF vars, input, session, control, drain, answer, media
<1>1. CASE ReadHello
  <2>1. /\ greeted' \in 0 .. MaxHello /\ greeted' \in 1 .. MaxHello /\ greeted' = greeted + 1
        /\ hellos' = Append(hellos, greeted')
    BY <1>t, <1>1, HelloAssumption DEF ReadHello, Types
  <2>2. hellos' \in Seq(1 .. MaxHello) /\ Len(hellos') = Len(hellos) + 1 /\ Len(hellos) \in Nat
    BY <1>t, <2>1 DEF Types
  <2>3. Len(hellos') <= greeted'
    BY <1>t, <2>1, <2>2, HelloAssumption DEF Types
  <2> QED
    BY <1>t, <1>1, <2>1, <2>2, <2>3 DEF ReadHello, Types
<1>2. CASE ReadControl
  <2>1. PICK s \in Seqs, c \in Commands :
          /\ command' = [command EXCEPT ![s] = c]
          /\ receipts' = [receipts EXCEPT ![s] = @ + 1]
          /\ Enqueue(c, s)
    BY <1>2 DEF ReadControl
  <2>2. s \in 0 .. MaxSeq
    BY SeqAssumption DEF Seqs
  <2>3. \/ Emit(1, {s}) /\ UNCHANGED slot
        \/ slot' = [slot EXCEPT ![c] = s] /\ (UNCHANGED answer \/ Emit(1, {slot[c]}))
    BY <2>1 DEF Enqueue, Answer
  <2>4. /\ out' \in 0 .. MaxOut /\ answers' \in [Seqs -> Nat]
        /\ slot' \in [Commands -> 0 .. MaxSeq]
    <3>1. UNCHANGED answer \/ \E S : Emit(1, S)
      BY <2>3
    <3>2. out' \in 0 .. MaxOut /\ answers' \in [Seqs -> Nat]
      BY <1>t, <3>1, EmitCounts DEF Types
    <3>3. slot' \in [Commands -> 0 .. MaxSeq]
      BY <1>t, <2>2, <2>3 DEF Types
    <3> QED
      BY <3>2, <3>3
  <2>5. command' \in [Seqs -> Commands \cup {"none"}] /\ receipts' \in [Seqs -> Nat]
    BY <1>t, <2>1 DEF Types
  <2>6. UNCHANGED <<reader, greeted, runs, session, hellos, inflight, lastSeq, drain, media>>
    BY <1>2 DEF ReadControl
  <2> QED
    BY <1>t, <2>4, <2>5, <2>6 DEF Types
<1>3. CASE PutAudio
  <2>1. stamp \in Nat /\ audio \in Seq(Nat) /\ Len(audio) <= MaxAudio /\ Len(audio) \in Nat
    BY <1>t DEF IInv, EpochsFit, Types
  <2>2. Len(audio) = MaxAudio => audio # <<>>
    BY AudioAssumption, EmptySeq
  <2>3. audio # <<>> => Tail(audio) \in Seq(Nat) /\ Len(Tail(audio)) = Len(audio) - 1
    BY <2>1, HeadTailProperties
  <2> DEFINE rest == IF Len(audio) = MaxAudio THEN Tail(audio) ELSE audio
  <2>4. rest \in Seq(Nat) /\ Len(rest) + 1 <= MaxAudio
    BY <2>1, <2>2, <2>3, AudioAssumption
  <2>5. audio' = Append(rest, stamp)
    BY <1>3 DEF PutAudio
  <2>6. audio' \in Seq(Nat) /\ Len(audio') <= MaxAudio
    <3> HIDE DEF rest
    <3> QED
      BY <2>1, <2>4, <2>5
  <2> QED
    BY <1>t, <1>3, <2>6 DEF PutAudio, Types
<1>4. CASE StampAudio
  BY <1>t, <1>4 DEF StampAudio, Types
<1>5. CASE ReadEnd
  <2>1. UNCHANGED answer \/ Emit(1, {})
    BY <1>5 DEF ReadEnd
  <2>2. out' \in 0 .. MaxOut /\ answers' \in [Seqs -> Nat]
    BY <1>t, <2>1, EmitCounts DEF Types
  <2> QED
    BY <1>t, <1>5, <2>2 DEF ReadEnd, Types
<1>6. CASE DrainHello
  <2>1. hellos \in Seq(1 .. MaxHello) /\ hellos # <<>>
    BY <1>t, <1>6 DEF DrainHello, Types
  <2>2. /\ Head(hellos) \in 1 .. MaxHello /\ Tail(hellos) \in Seq(1 .. MaxHello)
        /\ Len(Tail(hellos)) = Len(hellos) - 1 /\ Len(hellos) \in Nat
    <3>1. Len(hellos) \in Nat
      BY <2>1, LenProperties
    <3>2. /\ Head(hellos) \in 1 .. MaxHello /\ Tail(hellos) \in Seq(1 .. MaxHello)
          /\ Len(Tail(hellos)) = Len(hellos) - 1
      BY <2>1, HeadTailProperties
    <3> QED
      BY <3>1, <3>2
  <2>3. Head(hellos) \in Nat /\ Len(Tail(hellos)) <= greeted
    BY <1>t, <2>2, HelloAssumption DEF Types
  <2>4. BeginStart(Head(hellos)) /\ hellos' = Tail(hellos)
    BY <1>6 DEF DrainHello
  <2>5. UNCHANGED <<input, runs, control, turn, current, answer>>
    BY <1>6 DEF DrainHello
  <2>6. /\ audio' \in Seq(Nat) /\ Len(audio') <= MaxAudio
        /\ active' \in BOOLEAN /\ context' \in BOOLEAN /\ at' \in {"replacing", "starting"}
    BY <1>t, <2>3, <2>4, BeginTypes
  <2> QED
    BY <1>t, <2>2, <2>3, <2>4, <2>5, <2>6 DEF Types, Places
<1>7. CASE RunReconfigure
  <2>1. epoch + 1 \in Nat
    BY DEF IInv, EpochsFit
  <2>2. BeginStart(epoch + 1)
    BY <1>7 DEF RunReconfigure
  <2>3. UNCHANGED <<input, runs, hellos, control, turn, current, answer>>
    BY <1>7 DEF RunReconfigure
  <2>4. /\ audio' \in Seq(Nat) /\ Len(audio') <= MaxAudio
        /\ active' \in BOOLEAN /\ context' \in BOOLEAN /\ at' \in {"replacing", "starting"}
    BY <1>t, <2>1, <2>2, BeginTypes
  <2> QED
    BY <1>t, <2>3, <2>4 DEF Types, Places
<1>8. CASE OldStopped \/ HellosDone \/ RunFlush \/ RunStop \/ EndTurn \/ Exit \/ EndSession
  <2>1. UNCHANGED <<input, runs, hellos, control, current, answer, audio>>
    BY <1>8 DEF OldStopped, HellosDone, RunFlush, RunStop, EndTurn, Exit, EndSession
  <2>2. at' \in Places
    BY <1>8 DEF OldStopped, HellosDone, RunFlush, RunStop, EndTurn, Exit, EndSession, Places
  <2>3. turn' \in {turn, 1}
    BY <1>8 DEF OldStopped, HellosDone, RunFlush, RunStop, EndTurn, Exit, EndSession
  <2>4. (UNCHANGED <<active, context>>) \/ (active' = FALSE /\ context' = FALSE)
    BY <1>8 DEF OldStopped, HellosDone, RunFlush, RunStop, EndTurn, Exit, EndSession
  <2>5. turn' \in 1 .. 5
    BY <1>t, <2>3 DEF Types
  <2>6. active' \in BOOLEAN /\ context' \in BOOLEAN
    BY <1>t, <2>4 DEF Types
  <2> QED
    BY <1>t, <2>1, <2>2, <2>5, <2>6 DEF Types
<1>9. CASE Pass \/ Rested
  <2>1. turn <= 4
    BY <1>9, OrderIs DEF Pass, Rested, IInv, PlaceFits
  <2>2. /\ UNCHANGED <<input, runs, session, hellos, control, current, answer, audio>>
        /\ at' \in {at, "drain"} /\ turn' = turn + 1
    BY <1>9 DEF Pass, Rested
  <2> QED
    BY <1>t, <2>1, <2>2 DEF Types, Places
<1>10. CASE Started \/ StartFails \/ RunAtOnce \/ Flushed \/ Stopped
  <2>1. /\ UNCHANGED <<input, runs, hellos, control, turn, current, audio>>
        /\ at' \in Places /\ active' \in {active, TRUE} /\ context' \in {context, FALSE}
        /\ Emit(1, {current}) \/ Emit(2, {}) \/ Emit(3, {current})
    BY <1>10 DEF Started, StartFails, RunAtOnce, Flushed, Stopped, Answer, AfterStart, Places
  <2>2. out' \in 0 .. MaxOut /\ answers' \in [Seqs -> Nat]
    BY <1>t, <2>1, EmitCounts
  <2> QED
    BY <1>t, <2>1, <2>2 DEF Types
<1>11. CASE ClearPending
  <2> DEFINE waiting == {slot[c] : c \in Commands} \ {None}
  <2>1. /\ UNCHANGED <<input, runs, session, hellos, lastSeq, turn, current, audio>>
        /\ at' \in Places /\ slot' = Idle /\ inflight' = Idle
        /\ Emit(Cardinality(waiting), waiting)
    BY <1>11 DEF ClearPending, AfterStart, Places
  <2>2. waiting \in SUBSET Seqs
    BY <1>t, SeqAssumption DEF Types, Seqs, None
  <2>3. Cardinality(waiting) \in Nat
    BY <2>2, SeqsCount
  <2>4. out' \in 0 .. MaxOut /\ answers' \in [Seqs -> Nat]
    <3> HIDE DEF waiting
    <3> QED
      BY <1>t, <2>1, <2>3, EmitCounts
  <2>5. Idle \in [Commands -> 0 .. MaxSeq]
    BY SeqAssumption DEF Idle, None
  <2> QED
    BY <1>t, <2>1, <2>4, <2>5 DEF Types
<1>12. CASE Take
  <2>1. /\ Order[turn] \in Commands /\ slot[Order[turn]] \in 0 .. MaxSeq
        /\ slot' = [slot EXCEPT ![Order[turn]] = 0]
        /\ inflight' = [inflight EXCEPT ![Order[turn]] = slot[Order[turn]]]
        /\ current' = slot[Order[turn]] /\ at' = "run"
        /\ UNCHANGED <<input, runs, session, hellos, lastSeq, turn, answer, audio>>
    <3>1. Order[turn] \in Commands
      BY <1>t, <1>12, TurnIsCommand DEF Take
    <3> QED
      BY <1>t, <1>12, <3>1 DEF Take, Types, None
  <2>2. 0 \in 0 .. MaxSeq
    BY SeqAssumption
  <2> QED
    BY <1>t, <2>1, <2>2 DEF Types, Places
<1>13. CASE PutBack
  <2>1. /\ UNCHANGED <<input, runs, session, hellos, lastSeq, audio>>
        /\ command[current] \in Commands
        /\ inflight' = [inflight EXCEPT ![command[current]] = 0] /\ current' = 0
        /\ slot' = slot \/ slot' = [slot EXCEPT ![command[current]] = current]
        /\ at' \in Places /\ turn' \in {turn, turn + 1}
        /\ UNCHANGED answer \/ Emit(1, {current})
    BY <1>13, OrderIs DEF PutBack, Running, Answer, Places, None
  <2>2. turn <= 4
    BY <1>13 DEF PutBack, Running, IInv, PlaceFits
  <2>3. out' \in 0 .. MaxOut /\ answers' \in [Seqs -> Nat]
    BY <1>t, <2>1, EmitCounts DEF Types
  <2>4. slot' \in [Commands -> 0 .. MaxSeq] /\ inflight' \in [Commands -> 0 .. MaxSeq]
    <3> DEFINE o == command[current]
    <3>1. 0 \in 0 .. MaxSeq /\ current \in 0 .. MaxSeq
      BY <1>t, SeqAssumption DEF Types
    <3>2. slot \in [Commands -> 0 .. MaxSeq] /\ inflight \in [Commands -> 0 .. MaxSeq]
      BY <1>t DEF Types
    <3>3. /\ o \in Commands /\ inflight' = [inflight EXCEPT ![o] = 0]
          /\ slot' = slot \/ slot' = [slot EXCEPT ![o] = current]
      BY <2>1
    <3> HIDE DEF o
    <3> QED
      BY <3>1, <3>2, <3>3
  <2>5. current' \in 0 .. MaxSeq /\ turn' \in 1 .. 5
    BY <1>t, <2>1, <2>2, SeqAssumption DEF Types
  <2> QED
    BY <1>t, <2>1, <2>3, <2>4, <2>5 DEF Types
<1>14. CASE Finish
  <2>1. current # None /\ current \in Seqs /\ turn <= 4 /\ command[current] \in Commands
    <3>1. PlaceFits /\ current # None
      BY <1>14 DEF Finish, IInv, PlaceFits
    <3> QED
      BY <1>t, <3>1, CurrentIsRequest
  <2>2. runs[current] = 0
    BY <1>t, <1>14, <2>1, SeqAssumption DEF Finish, IInv, CurrentHeld, RunsExact, Types, Seqs
  <2>3. /\ runs' = [runs EXCEPT ![current] = 1]
        /\ UNCHANGED <<input, session, hellos, slot, answer, audio>>
        /\ lastSeq' = [lastSeq EXCEPT ![command[current]] = current]
        /\ inflight' = [inflight EXCEPT ![command[current]] = 0]
        /\ at' = "drain" /\ turn' = turn + 1 /\ current' = 0
    BY <1>14, <2>2 DEF Finish, None
  <2>4. runs' \in [Seqs -> {0, 1}]
    BY <1>t, <2>1, <2>3 DEF Types
  <2>5. lastSeq' \in [Commands -> 0 .. MaxSeq] /\ inflight' \in [Commands -> 0 .. MaxSeq]
    <3> DEFINE o == command[current]
    <3>1. 0 \in 0 .. MaxSeq /\ current \in 0 .. MaxSeq
      BY <1>t, SeqAssumption DEF Types
    <3>2. lastSeq \in [Commands -> 0 .. MaxSeq] /\ inflight \in [Commands -> 0 .. MaxSeq]
      BY <1>t DEF Types
    <3>3. /\ o \in Commands /\ inflight' = [inflight EXCEPT ![o] = 0]
          /\ lastSeq' = [lastSeq EXCEPT ![o] = current]
      BY <2>1, <2>3
    <3> HIDE DEF o
    <3> QED
      BY <3>1, <3>2, <3>3
  <2>6. current' \in 0 .. MaxSeq /\ turn' \in 1 .. 5 /\ at' \in Places
    BY <1>t, <2>1, <2>3, SeqAssumption DEF Types, Places
  <2> QED
    BY <1>t, <2>3, <2>4, <2>5, <2>6 DEF Types
<1>15. CASE Feed
  <2>1. audio \in Seq(Nat) /\ audio # <<>>
    BY <1>t, <1>15 DEF Feed, Types
  <2>2. Tail(audio) \in Seq(Nat) /\ Len(Tail(audio)) = Len(audio) - 1 /\ Len(audio) \in Nat
    <3>1. Len(audio) \in Nat
      BY <2>1, LenProperties
    <3> QED
      BY <2>1, <3>1, HeadTailProperties
  <2>3. audio' = Tail(audio) /\ UNCHANGED <<input, runs, session, hellos, control, drain, answer>>
    BY <1>15 DEF Feed
  <2>4. Len(audio') <= MaxAudio
    <3>1. Len(audio) <= MaxAudio /\ MaxAudio \in Nat
      BY <1>t, AudioAssumption DEF Types
    <3>2. Len(audio') = Len(audio) - 1
      BY <2>2, <2>3
    <3> QED
      BY <2>2, <3>1, <3>2
  <2> QED
    BY <1>t, <2>2, <2>3, <2>4 DEF Types
<1>16. CASE Fed
  <2>1. /\ UNCHANGED answer \/ Emit(1, {})
        /\ UNCHANGED <<input, runs, session, hellos, control, drain, audio>>
    BY <1>16 DEF Fed
  <2>2. out' \in 0 .. MaxOut /\ answers' \in [Seqs -> Nat]
    BY <1>t, <2>1, EmitCounts DEF Types
  <2> QED
    BY <1>t, <2>1, <2>2 DEF Types
<1>17. CASE Write
  BY <1>t, <1>17, OutAssumption DEF Write, Types
<1>18. CASE UNCHANGED vars
  BY <1>t, <1>18 DEF Types
<1> QED
  BY <1>1, <1>2, <1>3, <1>4, <1>5, <1>6, <1>7, <1>8, <1>9, <1>10, <1>11, <1>12, <1>13, <1>14, <1>15,
     <1>16, <1>17, <1>18
  DEF Next, Reader, Loop, Control, Audio

LEMMA GreetedNext == IInv /\ [Next]_vars => GreetedFirst'
<1> SUFFICES ASSUME IInv, [Next]_vars PROVE GreetedFirst'
  OBVIOUS
<1> USE DEF vars, input, session, control, drain, answer, media, None
<1>1. greeted \in Nat /\ (greeted' = greeted \/ greeted' = greeted + 1)
  <2>1. greeted \in Nat
    BY HelloAssumption DEF IInv, Types
  <2>2. greeted' = greeted \/ greeted' = greeted + 1
    BY DEF Next, Reader, Loop, Control, Audio, ReadHello, ReadControl, StampAudio, PutAudio, ReadEnd,
       DrainHello, HellosDone, OldStopped, Started, StartFails, ClearPending, Pass, Take, PutBack, Rested,
       RunAtOnce, RunFlush, Flushed, RunReconfigure, RunStop, EndSession, Stopped, Finish, EndTurn,
       Feed, Fed, Write, Exit
  <2> QED
    BY <2>1, <2>2
<1>2. CASE greeted > 0 \/ greeted' = greeted + 1
  BY <1>1, <1>2 DEF GreetedFirst
<1>3. CASE greeted = 0 /\ greeted' = 0
  <2>1. ~context /\ hellos = <<>> /\ current = None /\ \A c \in Commands : slot[c] = None
    BY <1>3 DEF IInv, GreetedFirst
  <2>2. at \notin {"run", "finish"}
    BY <2>1 DEF IInv, PlaceFits
  <2>3. CASE ReadControl
    BY <2>1, <2>3 DEF ReadControl, Enqueue, GreetedFirst
  <2>4. CASE Take
    <3>1. Order[turn] \in Commands
      BY <2>4, TurnIsCommand DEF Take, IInv
    <3> QED
      BY <2>1, <2>4, <3>1 DEF Take
  <2>5. CASE StampAudio \/ PutAudio \/ ReadEnd \/ HellosDone \/ OldStopped \/ Started \/ StartFails \/ Pass
             \/ Rested \/ Flushed \/ Stopped \/ EndTurn \/ Feed \/ Fed \/ Write \/ Exit \/ UNCHANGED vars
    <3>1. (context' = context \/ context' = FALSE) /\ UNCHANGED <<hellos, current, slot>>
      BY <2>5 DEF StampAudio, PutAudio, ReadEnd, HellosDone, OldStopped, Started, StartFails, Pass,
        Rested, Flushed, Stopped, EndTurn, Feed, Fed, Write, Exit
    <3> QED
      BY <2>1, <3>1 DEF GreetedFirst
  <2>6. CASE EndSession \/ ClearPending
    <3>1. (context' = context \/ context' = FALSE) /\ UNCHANGED <<hellos, current>> /\ (UNCHANGED slot \/ slot' = Idle)
      BY <2>6 DEF EndSession, ClearPending
    <3> QED
      BY <2>1, <3>1 DEF GreetedFirst, Idle
  <2>7. ~ReadHello
    BY <1>3 DEF ReadHello
  <2>8. ~(DrainHello \/ PutBack \/ RunAtOnce \/ RunFlush \/ RunReconfigure \/ RunStop \/ Finish)
    BY <2>1, <2>2 DEF DrainHello, PutBack, RunAtOnce, RunFlush, RunReconfigure, RunStop, Finish, Running
  <2> QED
    BY <2>3, <2>4, <2>5, <2>6, <2>7, <2>8 DEF Next, Reader, Loop, Control, Audio
<1> QED
  BY <1>1, <1>2, <1>3

\* A command is given once.
LEMMA CommandsStay ==
  ASSUME Types, [Next]_vars
  PROVE  \A s \in Seqs : command[s] # "none" => command'[s] = command[s]
<1> USE DEF vars, input, session, control, drain, answer, media
<1>1. CASE ReadControl
  BY <1>1 DEF ReadControl, Types
<1>2. CASE ~ReadControl
  <2>1. UNCHANGED command
    BY <1>2 DEF Next, Reader, Loop, Control, Audio, ReadHello, StampAudio, PutAudio, ReadEnd,
       DrainHello, HellosDone, OldStopped, Started, StartFails, ClearPending, Pass, Take, PutBack, Rested,
       RunAtOnce, RunFlush, Flushed, RunReconfigure, RunStop, EndSession, Stopped, Finish, EndTurn,
       Feed, Fed, Write, Exit
  <2> QED
    BY <2>1
<1> QED
  BY <1>1, <1>2

\* Of the reader's steps none touches the control coroutine, and while it carries
\* out a request no HELLO is to come.
LEMMA ReaderLeavesDrain ==
  ASSUME MaxHello <= 1, IInv, Reader
  PROVE  /\ UNCHANGED <<drain, inflight, lastSeq, runs, epoch, backend, active>>
         /\ current # None => UNCHANGED context
<1>1. UNCHANGED <<drain, inflight, lastSeq, runs, epoch, backend, active>>
  BY DEF Reader, ReadHello, ReadControl, StampAudio, PutAudio, ReadEnd, session, control
<1>2. current # None => ~ReadHello
  BY HelloAssumption DEF IInv, GreetedFirst, ReadHello, Types
<1>3. ~ReadHello => UNCHANGED context
  BY DEF Reader, ReadControl, StampAudio, PutAudio, ReadEnd, session
<1> QED
  BY <1>1, <1>2, <1>3

LEMMA PlaceNext ==
  ASSUME MaxHello <= 1, IInv, [Next]_vars
  PROVE  PlaceFits'
<1>t. Types /\ PlaceFits
  BY DEF IInv
<1>c. current # None => command'[current] = command[current]
  BY <1>t, CommandsStay, CurrentIsRequest, OrderIs
<1> USE <1>t DEF drain
<1>1. CASE Reader
  <2>1. UNCHANGED <<at, turn, current>> /\ (current # None => UNCHANGED context)
    BY <1>1, ReaderLeavesDrain
  <2>2. reader \in {"eof", "failed"} => UNCHANGED reader
    BY <1>1 DEF Reader, ReadHello, ReadControl, StampAudio, PutAudio, ReadEnd
  <2> QED
    BY <1>c, <2>1, <2>2 DEF PlaceFits
<1>2. CASE DrainHello \/ HellosDone
  BY <1>2 DEF DrainHello, HellosDone, BeginStart, PlaceFits, input
<1>3. CASE OldStopped \/ Started
  BY <1>3 DEF OldStopped, Started, AfterStart, PlaceFits, input, session
<1>4. CASE StartFails
  BY <1>4 DEF StartFails, PlaceFits, input
<1>5. CASE ClearPending
  BY <1>5 DEF ClearPending, AfterStart, PlaceFits, input, session
<1>6. CASE Pass \/ Rested \/ EndTurn
  <2>1. current = None /\ current' = None /\ at' \in {"drain", "sleep", "returned"}
    BY <1>6 DEF Pass, Rested, EndTurn, PlaceFits
  <2> QED
    BY <2>1 DEF PlaceFits
<1>7. CASE Take
  <2>1. turn <= 4 /\ slot[Order[turn]] # None /\ current' = slot[Order[turn]]
        /\ at' = "run" /\ UNCHANGED <<input, turn>>
    BY <1>7, OrderIs DEF Take
  <2>2. command[current'] = Order[turn]
    BY <1>7, <2>1, TurnIsCommand DEF Take, IInv, SlotsFit
  <2> QED
    BY <2>1, <2>2 DEF PlaceFits, input
<1>8. CASE PutBack
  <2>1. current' = None /\ at' \in {"resting", "drain"} /\ (at' = "resting" => turn' = turn /\ turn <= 4)
    BY <1>8 DEF PutBack, Running, PlaceFits
  <2> QED
    BY <2>1 DEF PlaceFits
<1>9. CASE RunAtOnce \/ RunFlush \/ Flushed \/ RunStop \/ Stopped
  <2>1. current # None /\ UNCHANGED <<input, turn, current>> /\ at' \in {"finish", "flushing", "stopping"}
        /\ (at' = "stopping" => command[current] = "stop")
    BY <1>9 DEF RunAtOnce, RunFlush, Flushed, RunStop, Stopped, Running, PlaceFits
  <2> QED
    BY <2>1 DEF PlaceFits, input
<1>10. CASE RunReconfigure
  BY <1>10 DEF RunReconfigure, Running, BeginStart, PlaceFits, input
<1>11. CASE EndSession
  BY <1>11 DEF EndSession, Running, PlaceFits, input
<1>12. CASE Finish
  BY <1>12 DEF Finish, PlaceFits, input
<1>13. CASE Audio \/ Write \/ UNCHANGED vars
  <2>1. UNCHANGED <<at, turn, current, command, context, reader>>
    BY <1>13 DEF Audio, Feed, Fed, Write, vars, input, session
  <2> QED
    BY <2>1 DEF PlaceFits
<1>14. CASE Exit
  <2>1. UNCHANGED <<turn, current, command, context, reader>> /\ at' = "exited" /\ reader \in {"eof", "failed"}
    BY <1>14 DEF Exit, ShouldStop, input, session
  <2> QED
    BY <2>1 DEF PlaceFits
<1> QED
  BY <1>1, <1>2, <1>3, <1>4, <1>5, <1>6, <1>7, <1>8, <1>9, <1>10, <1>11, <1>12, <1>13, <1>14
  DEF Next, Loop, Control

\* What ReadControl does: the request is answered, or takes the slot of its command
\* in the place of the one that is answered.
LEMMA ReadControlDoes ==
  ASSUME IInv, ReadControl
  PROVE  \E s \in Seqs, c \in Commands :
           /\ command' = [command EXCEPT ![s] = c] /\ command[s] \in {"none", c}
           /\ receipts' = [receipts EXCEPT ![s] = @ + 1]
           /\ \/ Emit(1, {s}) /\ UNCHANGED slot
              \/ /\ context /\ inflight[c] = None /\ lastSeq[c] < s
                 /\ slot' = [slot EXCEPT ![c] = s]
                 /\ \/ slot[c] = None /\ UNCHANGED answer
                    \/ slot[c] # None /\ Emit(1, {slot[c]})
<1>1. PICK s \in Seqs, c \in Commands :
        /\ command' = [command EXCEPT ![s] = c] /\ command[s] \in {"none", c}
        /\ receipts' = [receipts EXCEPT ![s] = @ + 1]
        /\ Enqueue(c, s)
  BY DEF ReadControl
<1>2. s \in Nat /\ lastSeq[c] \in Nat
  BY SeqAssumption DEF Seqs, IInv, Types
<1>3. \/ Emit(1, {s}) /\ UNCHANGED slot
      \/ /\ context /\ inflight[c] = None /\ lastSeq[c] < s
         /\ slot' = [slot EXCEPT ![c] = s]
         /\ \/ slot[c] = None /\ UNCHANGED answer
            \/ slot[c] # None /\ Emit(1, {slot[c]})
  BY <1>1, <1>2 DEF Enqueue, Answer
<1> QED
  BY <1>1, <1>3

LEMMA SlotsNext ==
  ASSUME MaxHello <= 1, IInv, [Next]_vars
  PROVE  SlotsFit'
<1>t. Types /\ PlaceFits /\ SlotsFit
  BY DEF IInv
<1>c. \A c \in Commands : /\ slot[c] # None => command'[slot[c]] = c
                          /\ inflight[c] # None => command'[inflight[c]] = c
  <2> SUFFICES ASSUME NEW c \in Commands, NEW s \in {slot[c], inflight[c]}, s # None
               PROVE  command'[s] = c
    OBVIOUS
  <2>1. s \in Seqs
    BY <1>t, SeqAssumption DEF Types, Seqs, None
  <2>2. command[s] = c
    BY <1>t DEF SlotsFit
  <2> QED
    BY <1>t, <2>1, <2>2, CommandsStay, OrderIs
<1> USE DEF drain
<1>1. CASE ReadControl
  <2>1. PICK s \in Seqs, c \in Commands :
          /\ command' = [command EXCEPT ![s] = c]
          /\ \/ UNCHANGED slot
             \/ /\ inflight[c] = None /\ lastSeq[c] < s
                /\ slot' = [slot EXCEPT ![c] = s]
    BY <1>1, ReadControlDoes
  <2>2. UNCHANGED <<current, inflight, lastSeq>>
    BY <1>1 DEF ReadControl
  <2>3. command'[s] = c
    BY <1>t, <2>1 DEF Types
  <2>4. CASE UNCHANGED slot
    BY <1>t, <1>c, <2>2, <2>4 DEF SlotsFit
  <2>5. CASE inflight[c] = None /\ lastSeq[c] < s /\ slot' = [slot EXCEPT ![c] = s]
    BY <1>t, <1>c, <2>2, <2>3, <2>5 DEF SlotsFit, Types
  <2> QED
    BY <2>1, <2>4, <2>5
<1>2. CASE Take
  <2> DEFINE o == Order[turn]
  <2>1. o \in Commands /\ current = None
    BY <1>t, <1>2, TurnIsCommand DEF Take, PlaceFits
  <2>2. /\ slot[o] # None /\ slot' = [slot EXCEPT ![o] = None]
        /\ inflight' = [inflight EXCEPT ![o] = slot[o]] /\ current' = slot[o]
        /\ UNCHANGED <<command, lastSeq>>
    BY <1>2 DEF Take, input
  <2>3. \A c \in Commands : inflight[c] = None
    BY <1>t, <2>1 DEF SlotsFit
  <2> HIDE DEF o
  <2> QED
    BY <1>t, <2>1, <2>2, <2>3 DEF SlotsFit, Types
<1>3. CASE PutBack
  <2> DEFINE o == command[current]
  <2>1. current # None /\ o \in Commands /\ at = "run"
    BY <1>t, <1>3, CurrentIsRequest DEF PutBack, Running, PlaceFits
  <2>2. /\ inflight' = [inflight EXCEPT ![o] = None] /\ current' = None
        /\ UNCHANGED slot \/ slot' = [slot EXCEPT ![o] = current]
        /\ UNCHANGED <<command, lastSeq>>
    BY <1>3 DEF PutBack, input
  <2>3. inflight[o] = current /\ lastSeq[o] < current
    BY <2>1 DEF IInv, CurrentHeld
  <2>4. \A c \in Commands : c # o => inflight[c] = None
    BY <1>t, <2>1 DEF SlotsFit
  <2> HIDE DEF o
  <2>5. \A c \in Commands : inflight'[c] = None
    BY <1>t, <2>1, <2>2, <2>4 DEF Types
  <2>6. \A c \in Commands : slot'[c] # None => command[slot'[c]] = c /\ lastSeq[c] < slot'[c]
    <3>1. \A c \in Commands : slot'[c] = slot[c] \/ (c = o /\ slot'[c] = current)
      BY <1>t, <2>1, <2>2 DEF Types
    <3>2. command[current] = o
      BY DEF o
    <3> QED
      BY <1>t, <2>3, <3>1, <3>2 DEF SlotsFit
  <2> QED
    BY <2>2, <2>5, <2>6 DEF SlotsFit
<1>4. CASE ClearPending
  BY <1>4, SeqAssumption DEF ClearPending, SlotsFit, Idle, None
<1>5. CASE Finish
  <2> DEFINE o == command[current]
  <2>1. current # None /\ current \in Seqs /\ o \in Commands
    BY <1>t, <1>5, CurrentIsRequest DEF Finish, PlaceFits
  <2>2. /\ lastSeq' = [lastSeq EXCEPT ![o] = current]
        /\ inflight' = [inflight EXCEPT ![o] = None] /\ UNCHANGED <<command, slot>>
    BY <1>5 DEF Finish, input
  <2>3. \A c \in Commands : c # o => inflight[c] = None
    BY <1>t, <2>1 DEF SlotsFit
  <2>4. slot[o] = None
    BY <1>t, <2>1 DEF IInv, CurrentHeld, SlotsFit, Idle
  <2> HIDE DEF o
  <2> QED
    BY <1>t, <2>1, <2>2, <2>3, <2>4 DEF SlotsFit, Types
<1>6. CASE ~(ReadControl \/ Take \/ PutBack \/ ClearPending \/ Finish)
  <2>1. UNCHANGED <<command, slot, inflight, lastSeq, current>>
    BY <1>6 DEF Next, Reader, Loop, Control, Audio, ReadHello, StampAudio, PutAudio, ReadEnd,
       DrainHello, HellosDone, OldStopped, Started, StartFails, Pass, Rested,
       RunAtOnce, RunFlush, Flushed, RunReconfigure, RunStop, EndSession, Stopped, EndTurn,
       Feed, Fed, Write, Exit, vars, input, control
  <2> QED
    BY <1>t, <2>1 DEF SlotsFit
<1> QED
  BY <1>1, <1>2, <1>3, <1>4, <1>5, <1>6

LEMMA HeldNext ==
  ASSUME MaxHello <= 1, IInv, [Next]_vars
  PROVE  CurrentHeld'
<1>t. Types /\ PlaceFits /\ SlotsFit /\ CurrentHeld
  BY DEF IInv
<1>c. current # None => command'[current] = command[current] /\ command[current] \in Commands
  BY <1>t, CommandsStay, CurrentIsRequest, OrderIs
<1> USE DEF drain
<1>1. CASE Reader
  <2>1. UNCHANGED <<drain, inflight, lastSeq>> /\ (current # None => UNCHANGED context)
    BY <1>1, ReaderLeavesDrain
  <2>2. UNCHANGED slot \/ context
    BY <1>1, ReadControlDoes DEF Reader, ReadHello, StampAudio, PutAudio, ReadEnd, control
  <2> QED
    BY <1>t, <1>c, <2>1, <2>2 DEF CurrentHeld
<1>2. CASE Take
  <2> DEFINE o == Order[turn]
  <2>1. o \in Commands /\ slot[o] # None
    BY <1>t, <1>2, TurnIsCommand DEF Take
  <2>2. inflight' = [inflight EXCEPT ![o] = slot[o]] /\ current' = slot[o] /\ UNCHANGED <<command, lastSeq>>
    BY <1>2 DEF Take, input
  <2>3. command[slot[o]] = o /\ lastSeq[o] < slot[o]
    BY <1>t, <2>1 DEF SlotsFit
  <2> HIDE DEF o
  <2> QED
    BY <1>t, <2>1, <2>2, <2>3 DEF CurrentHeld, Types
<1>3. CASE ClearPending
  <2>1. /\ slot' = Idle /\ inflight' = Idle /\ UNCHANGED <<command, lastSeq, current, context>>
        /\ current # None => at' \in {"stopped", "finish"}
    BY <1>3 DEF ClearPending, AfterStart, input, session
  <2>2. current # None => ~context
    BY <1>t, <1>3 DEF ClearPending, PlaceFits
  <2>3. current # None => lastSeq[command[current]] < current
    BY <1>t, <1>3 DEF ClearPending, CurrentHeld
  <2> QED
    BY <2>1, <2>2, <2>3 DEF CurrentHeld
<1>4. CASE PutBack \/ Finish \/ HellosDone \/ DrainHello \/ Pass \/ Rested \/ EndTurn
  <2>1. current' = None
    BY <1>t, <1>4 DEF PutBack, Finish, HellosDone, DrainHello, Pass, Rested, EndTurn, PlaceFits
  <2> QED
    BY <2>1 DEF CurrentHeld
<1>5. CASE OldStopped \/ Started \/ StartFails \/ RunAtOnce \/ RunFlush \/ Flushed \/ RunReconfigure
           \/ RunStop \/ EndSession \/ Exit
  <2>1. /\ at \notin {"stopped", "finish", "exited"}
        /\ UNCHANGED <<command, inflight, lastSeq, current>>
    BY <1>5 DEF OldStopped, Started, StartFails, RunAtOnce, RunFlush, Flushed, RunReconfigure, RunStop,
       EndSession, Exit, Running, Awaiting, input, control
  <2> QED
    BY <1>t, <2>1 DEF CurrentHeld
<1>6. CASE Stopped \/ Audio \/ Write \/ UNCHANGED vars
  <2>1. /\ UNCHANGED <<command, inflight, lastSeq, current, slot, context>>
        /\ at' = at \/ (at = "stopped" /\ at' = "finish")
    BY <1>6 DEF Stopped, Audio, Feed, Fed, Write, vars, input, session, control
  <2> QED
    BY <1>t, <2>1 DEF CurrentHeld
<1> QED
  BY <1>1, <1>2, <1>3, <1>4, <1>5, <1>6 DEF Next, Loop, Control

LEMMA RunsNext ==
  ASSUME IInv, [Next]_vars
  PROVE  RunsExact'
<1>t. Types /\ PlaceFits /\ SlotsFit /\ CurrentHeld /\ RunsExact
  BY DEF IInv
<1>c. \A s \in Seqs : command[s] \in Commands => command'[s] = command[s]
  BY <1>t, CommandsStay, OrderIs
<1>1. CASE Finish
  <2> DEFINE o == command[current]
  <2>1. current # None /\ current \in Seqs /\ o \in Commands /\ at = "finish"
    BY <1>t, <1>1, CurrentIsRequest DEF Finish, PlaceFits
  <2>2. /\ lastSeq' = [lastSeq EXCEPT ![o] = current] /\ runs' = [runs EXCEPT ![current] = @ + 1]
        /\ UNCHANGED command
    BY <1>1 DEF Finish, input
  <2>3. lastSeq[o] < current
    BY <1>t, <2>1 DEF CurrentHeld
  <2> SUFFICES ASSUME NEW s \in Seqs, runs'[s] = 1
               PROVE  command[s] \in Commands /\ s <= lastSeq'[command[s]]
    BY <2>2 DEF RunsExact
  <2>4. CASE s = current
    BY <1>t, <2>1, <2>2, <2>4, SeqAssumption DEF Types, Seqs
  <2>5. CASE s # current
    <3>1. command[s] \in Commands /\ s <= lastSeq[command[s]]
      BY <1>t, <2>1, <2>2, <2>5 DEF RunsExact, Types
    <3>2. s \in Nat /\ current \in Nat /\ lastSeq[command[s]] \in Nat /\ lastSeq[o] \in Nat
      BY <1>t, <2>1, <3>1, SeqAssumption DEF Types, Seqs
    <3>3. lastSeq'[command[s]] = IF command[s] = o THEN current ELSE lastSeq[command[s]]
      BY <1>t, <2>1, <2>2, <3>1 DEF Types
    <3> HIDE DEF o
    <3> QED
      BY <2>3, <3>1, <3>2, <3>3
  <2> QED
    BY <2>4, <2>5
<1>2. CASE ~Finish
  <2>1. UNCHANGED <<runs, lastSeq>>
    BY <1>2 DEF Next, Reader, Loop, Control, Audio, ReadHello, ReadControl, StampAudio, PutAudio, ReadEnd,
       DrainHello, HellosDone, OldStopped, Started, StartFails, ClearPending, Pass, Take, PutBack, Rested,
       RunAtOnce, RunFlush, Flushed, RunReconfigure, RunStop, EndSession, Stopped, EndTurn,
       Feed, Fed, Write, Exit, vars, control
  <2> QED
    BY <1>t, <1>c, <2>1 DEF RunsExact
<1> QED
  BY <1>1, <1>2

\* A request does not wait while it is being carried out.
LEMMA NotBoth ==
  ASSUME IInv, NEW s \in Seqs, Waiting(s)
  PROVE  current # s
<1>1. PICK c \in Commands : slot[c] = s
  BY DEF Waiting
<1>2. s # None
  BY SeqAssumption DEF Seqs, None
<1>3. command[s] = c /\ inflight[c] = None
  BY <1>1, <1>2 DEF IInv, SlotsFit
<1> QED
  BY <1>1, <1>2, <1>3 DEF IInv, CurrentHeld, Idle

\* A request is in the slot of its own command.
LEMMA WaitsThere ==
  ASSUME IInv, NEW s \in Seqs, Waiting(s)
  PROVE  slot[command[s]] = s /\ command[s] \in Commands
  BY SeqAssumption DEF Waiting, IInv, SlotsFit, Seqs, None

LEMMA AnswersReadControl ==
  ASSUME IInv, ReadControl, at # "exited"
  PROVE  \A s \in Seqs : receipts'[s] = IF Open(s)' THEN answers'[s] + 1 ELSE answers'[s]
<1>t. Types /\ PlaceFits /\ SlotsFit /\ CurrentHeld /\ AnswersExact
  BY DEF IInv
<1>1. PICK r \in Seqs, c \in Commands :
        /\ command' = [command EXCEPT ![r] = c] /\ command[r] \in {"none", c}
        /\ receipts' = [receipts EXCEPT ![r] = @ + 1]
        /\ \/ Emit(1, {r}) /\ UNCHANGED slot
           \/ /\ context /\ inflight[c] = None /\ lastSeq[c] < r
              /\ slot' = [slot EXCEPT ![c] = r]
              /\ \/ slot[c] = None /\ UNCHANGED answer
                 \/ slot[c] # None /\ Emit(1, {slot[c]})
  BY ReadControlDoes
<1>2. UNCHANGED <<at, current>>
  BY DEF ReadControl, drain
<1>3. \A s \in Seqs : Unanswered(s)' <=> Unanswered(s)
  <2>1. current # None => command'[current] = command[current]
    BY <1>t, <1>1, CurrentIsRequest, OrderIs DEF Types
  <2> QED
    BY <1>2, <2>1, SeqAssumption DEF Unanswered, Seqs, None
<1>4. \A s \in Seqs : receipts[s] = IF Open(s) THEN answers[s] + 1 ELSE answers[s]
  BY <1>t DEF AnswersExact
<1>5. \A s \in Seqs : receipts'[s] = IF s = r THEN receipts[s] + 1 ELSE receipts[s]
  BY <1>t, <1>1 DEF Types
<1>6. \A s \in Seqs : answers[s] \in Nat
  BY <1>t DEF Types
<1>7. CASE Emit(1, {r}) /\ UNCHANGED slot
  <2>1. \A s \in Seqs : answers'[s] = IF s = r THEN answers[s] + 1 ELSE answers[s]
    BY <1>t, <1>7, EmitCounts
  <2>2. \A s \in Seqs : Open(s)' <=> Open(s)
    BY <1>3, <1>7 DEF Open, Waiting
  <2> QED
    BY <1>4, <1>5, <1>6, <2>1, <2>2
<1>8. CASE context /\ inflight[c] = None /\ slot' = [slot EXCEPT ![c] = r]
  <2>1. \A s \in Seqs : Waiting(s)' <=> s = r \/ (Waiting(s) /\ s # slot[c])
    <3>1. slot'[c] = r /\ \A d \in Commands : d # c => slot'[d] = slot[d]
      BY <1>t, <1>8 DEF Types
    <3>2. \A s \in Seqs, d \in Commands : slot[d] = s => command[s] = d
      BY <1>t, SeqAssumption DEF SlotsFit, Seqs, None
    <3> SUFFICES ASSUME NEW s \in Seqs
                 PROVE  (\E d \in Commands : slot'[d] = s)
                          <=> (s = r \/ ((\E d \in Commands : slot[d] = s) /\ s # slot[c]))
      BY DEF Waiting
    <3>3. ASSUME NEW d \in Commands, slot'[d] = s
          PROVE  s = r \/ (slot[d] = s /\ s # slot[c])
      BY <3>1, <3>2, <3>3
    <3>4. ASSUME NEW d \in Commands, slot[d] = s, s # slot[c]
          PROVE  slot'[d] = s
      BY <3>1, <3>4
    <3> QED
      BY <3>1, <3>3, <3>4
  <2>2. \A s \in Seqs : Waiting(s) => current # s
    BY NotBoth
  <2>3. ~Unanswered(r)
    <3>1. SUFFICES ASSUME current = r PROVE FALSE
      BY DEF Unanswered
    <3>2. current # None /\ command[r] = c
      BY <1>t, <1>1, <3>1, CurrentIsRequest, OrderIs, SeqAssumption DEF Seqs, None
    <3> QED
      BY <1>t, <1>8, <3>1, <3>2 DEF CurrentHeld
  <2>4. \A s \in Seqs : s = slot[c] => Waiting(s)
    BY DEF Waiting
  <2>5. Waiting(r) => r = slot[c]
    BY <1>1, WaitsThere, OrderIs
  <2>6. CASE slot[c] = None /\ UNCHANGED answer
    <3>1. slot[c] \notin Seqs /\ UNCHANGED answers
      BY <2>6, SeqAssumption DEF Seqs, None, answer
    <3> QED
      BY <1>3, <1>4, <1>5, <1>6, <2>1, <2>3, <2>5, <3>1 DEF Open
  <2>7. CASE slot[c] # None /\ Emit(1, {slot[c]})
    <3>1. \A s \in Seqs : answers'[s] = IF s = slot[c] THEN answers[s] + 1 ELSE answers[s]
      BY <1>t, <2>7, EmitCounts
    <3>2. \A s \in Seqs : s = slot[c] => ~Unanswered(s)
      BY <2>2, <2>4 DEF Unanswered
    <3> QED
      BY <1>3, <1>4, <1>5, <1>6, <2>1, <2>3, <2>4, <2>5, <3>1, <3>2 DEF Open
  <2> QED
    BY <1>1, <1>8, <2>6, <2>7, <1>7
<1> QED
  BY <1>1, <1>7, <1>8

LEMMA AnswersNext ==
  ASSUME IInv, [Next]_vars
  PROVE  AnswersExact'
<1> SUFFICES ASSUME at' # "exited"
             PROVE  \A s \in Seqs : receipts'[s] = IF Open(s)' THEN answers'[s] + 1 ELSE answers'[s]
  BY DEF AnswersExact
<1>t. Types /\ PlaceFits /\ SlotsFit /\ CurrentHeld
  BY DEF IInv
<1>x. at # "exited"
  BY <1>t
  DEF Next, Reader, Loop, Control, Audio, ReadHello, ReadControl, StampAudio, PutAudio, ReadEnd,
    DrainHello, HellosDone, OldStopped, Started, StartFails, ClearPending, Pass, Take, PutBack, Rested,
    RunAtOnce, RunFlush, Flushed, RunReconfigure, RunStop, EndSession, Stopped, Finish, EndTurn,
    Feed, Fed, Write, Exit, Running, Awaiting, vars, drain
<1>e. \A s \in Seqs : receipts[s] = (IF Open(s) THEN answers[s] + 1 ELSE answers[s]) /\ answers[s] \in Nat
  BY <1>t, <1>x DEF IInv, AnswersExact, Types
<1>n. \A s \in Seqs : s # None
  BY SeqAssumption DEF Seqs, None
<1>q. current # None => current \in Seqs
  BY <1>t, CurrentIsRequest
<1>1. CASE ReadControl
  BY <1>x, <1>1, AnswersReadControl
<1>2. CASE /\ UNCHANGED <<receipts, command, slot, current>>
           /\ UNCHANGED answer \/ Emit(1, {}) \/ Emit(1, {None}) \/ Emit(2, {})
           /\ \A s \in Seqs : Unanswered(s)' <=> Unanswered(s)
  <2>1. \A s \in Seqs : answers'[s] = answers[s]
    BY <1>t, <1>2, <1>n, EmitCounts DEF answer
  <2>2. \A s \in Seqs : Open(s)' <=> Open(s)
    BY <1>2 DEF Open, Waiting
  <2> QED
    BY <1>2, <1>e, <2>1, <2>2
<1>3. CASE ReadHello \/ StampAudio \/ PutAudio \/ ReadEnd \/ Audio \/ Write \/ UNCHANGED vars
  <2>1. /\ UNCHANGED <<receipts, command, slot, current, at>>
        /\ UNCHANGED answers \/ Emit(1, {})
    BY <1>3 DEF ReadHello, StampAudio, PutAudio, ReadEnd, Audio, Feed, Fed, Write, vars, input, control,
       drain, answer
  <2>2. \A s \in Seqs : (Unanswered(s)' <=> Unanswered(s)) /\ answers'[s] = answers[s]
    BY <1>t, <2>1, EmitCounts DEF Unanswered
  <2>3. \A s \in Seqs : Open(s)' <=> Open(s)
    BY <2>1, <2>2 DEF Open, Waiting
  <2> QED
    BY <1>e, <2>1, <2>2, <2>3
<1>4. CASE DrainHello \/ HellosDone \/ Pass \/ Rested \/ EndTurn
  <2>1. /\ UNCHANGED <<receipts, command, slot, current, answer>> /\ current = None
    BY <1>t, <1>4 DEF DrainHello, HellosDone, Pass, Rested, EndTurn, PlaceFits, input, control
  <2> QED
    BY <1>2, <1>n, <2>1 DEF Unanswered
<1>5. CASE OldStopped \/ RunFlush \/ RunReconfigure \/ RunStop \/ EndSession
  <2>1. /\ UNCHANGED <<receipts, command, slot, current, answer>>
        /\ at \in {"run", "replacing", "stopping"}
        /\ at' \in {"replacing", "starting", "flushing", "stopping"} \/ (at' = "clear" /\ command[current] = "stop")
    BY <1>t, <1>5 DEF OldStopped, RunFlush, RunReconfigure, RunStop, EndSession, BeginStart, Running,
       PlaceFits, input, control
  <2> QED
    BY <1>2, <1>n, <2>1 DEF Unanswered
<1>6. CASE (Started \/ StartFails) /\ current = None
  <2>1. /\ UNCHANGED <<receipts, command, slot, current>>
        /\ Emit(1, {None}) \/ Emit(2, {})
    BY <1>6 DEF Started, StartFails, input, control
  <2> QED
    BY <1>2, <1>6, <1>n, <2>1 DEF Unanswered
<1>7. CASE ((Started \/ StartFails) /\ current # None) \/ RunAtOnce \/ Flushed \/ Stopped
  <2>1. current # None /\ at \in {"run", "starting", "flushing", "stopped"}
    BY <1>t, <1>7 DEF Started, StartFails, RunAtOnce, Flushed, Stopped, Running, PlaceFits
  <2>2. /\ UNCHANGED <<receipts, command, slot, current>>
        /\ Emit(1, {current}) \/ Emit(3, {current})
        /\ at' = "finish" \/ (at' = "clear" /\ at = "starting")
    BY <1>7, <2>1 DEF Started, StartFails, RunAtOnce, Flushed, Stopped, Answer, AfterStart, input, control
  <2>3. \A s \in Seqs : answers'[s] = IF s = current THEN answers[s] + 1 ELSE answers[s]
    BY <1>t, <2>2, EmitCounts
  <2>4. \A s \in Seqs : (Unanswered(s) <=> s = current) /\ ~Unanswered(s)'
    BY <1>t, <2>1, <2>2 DEF Unanswered, PlaceFits
  <2>5. ~Waiting(current)
    BY <1>q, <2>1, NotBoth
  <2>6. \A s \in Seqs : Waiting(s)' <=> Waiting(s)
    BY <2>2 DEF Waiting
  <2> QED
    BY <1>e, <2>2, <2>3, <2>4, <2>5, <2>6 DEF Open
<1>8. CASE ClearPending
  <2> DEFINE waiting == {slot[c] : c \in Commands} \ {None}
  <2>1. /\ UNCHANGED <<receipts, command, current>> /\ slot' = Idle
        /\ Emit(Cardinality(waiting), waiting) /\ at = "clear"
        /\ at' = IF current # None /\ command[current] = "stop" THEN "stopped" ELSE AfterStart
    BY <1>8 DEF ClearPending, input
  <2>2. Cardinality(waiting) \in Nat
    <3>1. waiting \in SUBSET Seqs
      BY <1>t, SeqAssumption DEF Types, Seqs, None
    <3> QED
      BY <3>1, SeqsCount
  <2>3. \A s \in Seqs : answers'[s] = IF s \in waiting THEN answers[s] + 1 ELSE answers[s]
    <3> HIDE DEF waiting
    <3> QED
      BY <1>t, <2>1, <2>2, EmitCounts
  <2>4. \A s \in Seqs : (s \in waiting <=> Waiting(s)) /\ ~Waiting(s)'
    BY <1>n, <2>1 DEF Waiting, Idle
  <2>5. \A s \in Seqs : Unanswered(s)' <=> Unanswered(s)
    BY <1>n, <2>1 DEF Unanswered, AfterStart
  <2>6. \A s \in Seqs : Waiting(s) => ~Unanswered(s)
    BY NotBoth DEF Unanswered
  <2> HIDE DEF waiting
  <2> QED
    BY <1>e, <2>1, <2>3, <2>4, <2>5, <2>6 DEF Open
<1>9. CASE Take
  <2> DEFINE o == Order[turn]
  <2>1. /\ UNCHANGED <<receipts, command, answers>> /\ at = "drain" /\ at' = "run" /\ current = None
        /\ slot[o] # None /\ slot' = [slot EXCEPT ![o] = None] /\ current' = slot[o]
    BY <1>t, <1>9 DEF Take, PlaceFits, input, answer
  <2>2. o \in Commands
    BY <1>t, <1>9, TurnIsCommand DEF Take
  <2> HIDE DEF o
  <2>3. \A s \in Seqs : ~Unanswered(s) /\ (Unanswered(s)' <=> s = slot[o])
    BY <1>n, <2>1 DEF Unanswered
  <2>4. \A s \in Seqs : Waiting(s) <=> Waiting(s)' \/ s = slot[o]
    <3>1. slot'[o] = None /\ \A d \in Commands : d # o => slot'[d] = slot[d]
      BY <1>t, <2>1, <2>2 DEF Types
    <3> SUFFICES ASSUME NEW s \in Seqs
                 PROVE  (\E d \in Commands : slot[d] = s) <=> ((\E d \in Commands : slot'[d] = s) \/ s = slot[o])
      BY DEF Waiting
    <3>2. ASSUME NEW d \in Commands, slot[d] = s PROVE slot'[d] = s \/ s = slot[o]
      BY <3>1, <3>2
    <3>3. ASSUME NEW d \in Commands, slot'[d] = s PROVE slot[d] = s
      BY <1>n, <3>1, <3>3
    <3> QED
      BY <2>2, <3>2, <3>3
  <2> QED
    BY <1>e, <2>1, <2>3, <2>4 DEF Open
<1>10. CASE PutBack
  <2> DEFINE o == command[current]
  <2>1. /\ UNCHANGED <<receipts, command>> /\ at = "run" /\ current # None /\ current' = None
        /\ \/ slot' = [slot EXCEPT ![o] = current] /\ UNCHANGED answers
           \/ UNCHANGED slot /\ Emit(1, {current})
    BY <1>t, <1>10 DEF PutBack, Running, Answer, PlaceFits, input, answer
  <2>2. o \in Commands /\ current \in Seqs
    BY <1>t, <2>1, CurrentIsRequest
  <2>3. inflight[o] = current
    BY <1>t, <2>1 DEF CurrentHeld
  <2>4. slot[o] = None /\ ~Waiting(current)
    BY <1>t, <2>1, <2>2, <2>3, NotBoth DEF SlotsFit
  <2>5. \A s \in Seqs : (Unanswered(s) <=> s = current) /\ ~Unanswered(s)'
    BY <1>n, <2>1 DEF Unanswered
  <2> HIDE DEF o
  <2>6. CASE slot' = [slot EXCEPT ![o] = current] /\ UNCHANGED answers
    <3>1. slot'[o] = current /\ \A d \in Commands : d # o => slot'[d] = slot[d]
      BY <1>t, <2>2, <2>6 DEF Types
    <3>2. \A s \in Seqs : Waiting(s)' <=> (Waiting(s) \/ s = current)
      <4> SUFFICES ASSUME NEW s \in Seqs
                   PROVE  (\E d \in Commands : slot'[d] = s) <=> ((\E d \in Commands : slot[d] = s) \/ s = current)
        BY DEF Waiting
      <4>1. ASSUME NEW d \in Commands, slot'[d] = s PROVE slot[d] = s \/ s = current
        BY <3>1, <4>1
      <4>2. ASSUME NEW d \in Commands, slot[d] = s PROVE slot'[d] = s
        BY <1>n, <2>4, <3>1, <4>2
      <4> QED
        BY <2>2, <3>1, <4>1, <4>2
    <3> QED
      BY <1>e, <2>1, <2>5, <2>6, <3>2 DEF Open
  <2>7. CASE UNCHANGED slot /\ Emit(1, {current})
    <3>1. \A s \in Seqs : answers'[s] = IF s = current THEN answers[s] + 1 ELSE answers[s]
      BY <1>t, <2>7, EmitCounts
    <3>2. \A s \in Seqs : Waiting(s)' <=> Waiting(s)
      BY <2>7 DEF Waiting
    <3> QED
      BY <1>e, <2>1, <2>4, <2>5, <3>1, <3>2 DEF Open
  <2> QED
    BY <2>1, <2>6, <2>7
<1>11. CASE Finish
  <2>1. /\ UNCHANGED <<receipts, command, slot, answers>> /\ at = "finish" /\ current' = None
    BY <1>11 DEF Finish, input, answer
  <2>2. \A s \in Seqs : ~Unanswered(s) /\ ~Unanswered(s)' /\ (Waiting(s)' <=> Waiting(s))
    BY <1>n, <2>1 DEF Unanswered, Waiting
  <2> QED
    BY <1>e, <2>1, <2>2 DEF Open
<1>12. CASE Exit
  BY <1>12 DEF Exit
<1> QED
  BY <1>1, <1>3, <1>4, <1>5, <1>6, <1>7, <1>8, <1>9, <1>10, <1>11, <1>12 DEF Next, Reader, Loop, Control

\* Once the sidecar has left, nothing changes the count.
LEMMA ExitedStays ==
  ASSUME IInv, [Next]_vars, at = "exited"
  PROVE  UNCHANGED <<receipts, answers, out, reader>>
<1>1. reader \in {"eof", "failed"}
  BY DEF IInv, PlaceFits
<1>2. ~Reader
  BY <1>1 DEF Reader, ReadHello, ReadControl, StampAudio, PutAudio, ReadEnd
<1>3. ~Loop
  BY DEF Loop, Control, Audio, DrainHello, HellosDone, OldStopped, Started, StartFails, ClearPending, Pass, Take,
    PutBack, Rested, RunAtOnce, RunFlush, Flushed, RunReconfigure, RunStop, EndSession, Stopped, Finish,
    EndTurn, Feed, Fed, Write, Exit, Running, Awaiting
<1> QED
  BY <1>2, <1>3 DEF Next, vars, input, answer

LEMMA LeftNext ==
  ASSUME IInv, [Next]_vars
  PROVE  LeftClean'
<1>t. Types /\ PlaceFits /\ SlotsFit /\ CurrentHeld /\ LeftClean
  BY DEF IInv
<1>n. \A s \in Seqs : s # None /\ answers[s] \in Nat /\ answers'[s] \in Nat
  <2>1. \A s \in Seqs : s # None
    BY SeqAssumption DEF Seqs, None
  <2>2. Types'
    BY TypesNext
  <2> QED
    BY <1>t, <2>1, <2>2 DEF Types
<1>1. CASE at' # "exited"
  <2>1. \A s \in Seqs : receipts'[s] = IF Open(s)' THEN answers'[s] + 1 ELSE answers'[s]
    BY <1>1, AnswersNext DEF AnswersExact
  <2> QED
    BY <1>1, <1>n, <2>1 DEF LeftClean, AnsweredOnce, CleanExit
<1>2. CASE at = "exited"
  <2>1. UNCHANGED <<receipts, answers, out, reader>>
    BY <1>2, ExitedStays
  <2> QED
    BY <1>t, <1>2, <2>1 DEF LeftClean, AnsweredOnce, CleanExit
<1>3. CASE at # "exited" /\ at' = "exited"
  <2>1. Exit
    BY <1>3
    DEF Next, Reader, Loop, Control, Audio, ReadHello, ReadControl, StampAudio, PutAudio, ReadEnd,
      DrainHello, HellosDone, OldStopped, Started, StartFails, ClearPending, Pass, Take, PutBack, Rested,
      RunAtOnce, RunFlush, Flushed, RunReconfigure, RunStop, EndSession, Stopped, Finish, EndTurn,
      Feed, Fed, Write, BeginStart, AfterStart, vars, drain
  <2>2. UNCHANGED <<receipts, answers, out, reader>> /\ Awaiting /\ ShouldStop
    BY <2>1 DEF Exit, input, answer
  <2>3. \A s \in Seqs : receipts[s] = IF Open(s) THEN answers[s] + 1 ELSE answers[s]
    BY <1>3 DEF IInv, AnswersExact
  <2>4. AnsweredOnce'
    BY <1>n, <2>2, <2>3 DEF AnsweredOnce
  <2>5. ASSUME reader = "eof" PROVE answers = receipts /\ out = 0
    <3>1. ~HasPending /\ out = 0
      BY <2>2, <2>5 DEF ShouldStop
    <3>2. \A c \in Commands : slot[c] = None /\ inflight[c] = None
      BY <3>1 DEF HasPending
    <3>3. current = None
      <4>1. SUFFICES ASSUME current # None PROVE FALSE
        OBVIOUS
      <4>2. command[current] \in Commands /\ at \notin {"stopped", "finish"}
        BY <1>t, <2>2, <4>1, CurrentIsRequest DEF Awaiting
      <4> QED
        BY <1>t, <3>2, <4>1, <4>2 DEF CurrentHeld
    <3>4. \A s \in Seqs : ~Open(s)
      BY <1>n, <3>2, <3>3 DEF Open, Waiting, Unanswered
    <3> QED
      BY <1>t, <2>3, <3>1, <3>4 DEF Types
  <2> QED
    BY <2>2, <2>4, <2>5 DEF LeftClean, CleanExit
<1> QED
  BY <1>1, <1>2, <1>3

\* Requests are spent and never won back.
LEMMA SpentGrows ==
  ASSUME MaxHello <= 1, IInv, [Next]_vars
  PROVE  Spent \subseteq Spent' /\ (RunReconfigure => current \in Spent' /\ current \notin Spent)
<1>t. Types /\ PlaceFits /\ CurrentHeld /\ RunsExact
  BY DEF IInv
<1>c. current # None => current \in Seqs /\ command[current] \in Commands /\ command'[current] = command[current]
  BY <1>t, CurrentIsRequest, CommandsStay, OrderIs
<1>n. \A s \in Seqs : s # None
  BY SeqAssumption DEF Seqs, None
<1>1. CASE Finish
  <2>1. /\ current # None /\ current \in Seqs /\ at = "finish" /\ UNCHANGED command
        /\ runs' = [runs EXCEPT ![current] = @ + 1]
    BY <1>c, <1>1 DEF Finish, PlaceFits, IInv, input
  <2>2. \A s \in Seqs : runs'[s] \in {0, 1}
    BY TypesNext DEF Types
  <2>3. \A s \in Seqs : runs[s] = 1 \/ s = current => runs'[s] = 1
    BY <1>t, <2>1, <2>2 DEF Types
  <2>4. ~RunReconfigure
    BY <2>1 DEF RunReconfigure, Running
  <2> QED
    BY <2>3, <2>4 DEF Spent
<1>2. CASE ~Finish
  <2>1. UNCHANGED runs
    BY <1>2 DEF Next, Reader, Loop, Control, Audio, ReadHello, ReadControl, StampAudio, PutAudio, ReadEnd,
       DrainHello, HellosDone, OldStopped, Started, StartFails, ClearPending, Pass, Take, PutBack, Rested,
       RunAtOnce, RunFlush, Flushed, RunReconfigure, RunStop, EndSession, Stopped, EndTurn,
       Feed, Fed, Write, Exit, vars
  <2>2. current # None /\ at # "run" => current' = current /\ at' # "run"
    <3> SUFFICES ASSUME current # None, at # "run" PROVE current' = current /\ at' # "run"
      OBVIOUS
    <3>1. at \notin {"sleep", "hello", "drain", "resting", "returned"}
      BY <1>t DEF PlaceFits
    <3> QED
      BY <1>2, <3>1 DEF Next, Reader, Loop, Control, Audio, ReadHello, ReadControl, StampAudio, PutAudio, ReadEnd,
       DrainHello, HellosDone, OldStopped, Started, StartFails, ClearPending, Pass, Take, PutBack, Rested,
       RunAtOnce, RunFlush, Flushed, RunReconfigure, RunStop, EndSession, Stopped, EndTurn,
       Feed, Fed, Write, Exit, Running, AfterStart, vars, drain
  <2>3. Spent \subseteq Spent'
    BY <1>c, <1>n, <2>1, <2>2 DEF Spent
  <2>4. ASSUME RunReconfigure PROVE current \in Spent' /\ current \notin Spent
    <3>1. /\ at = "run" /\ current # None /\ command[current] = "reconfigure" /\ current' = current
          /\ at' \in {"replacing", "starting"}
      BY <1>t, <2>4 DEF RunReconfigure, Running, BeginStart, PlaceFits
    <3>2. lastSeq[command[current]] < current /\ lastSeq[command[current]] \in Nat /\ current \in Nat
      BY <1>t, <1>c, <3>1, SeqAssumption DEF CurrentHeld, Types
    <3>3. runs[current] # 1
      BY <1>t, <1>c, <3>1, <3>2 DEF RunsExact
    <3> QED
      BY <1>c, <3>1, <3>3 DEF Spent
  <2> QED
    BY <2>3, <2>4
<1> QED
  BY <1>1, <1>2

LEMMA EpochsNext ==
  ASSUME MaxHello <= 1, IInv, [Next]_vars
  PROVE  EpochsFit'
<1>t. Types /\ EpochsFit
  BY DEF IInv
<1> DEFINE lim == EpochLimit
           lim2 == EpochLimit'
<1>1. /\ lim \in Nat /\ lim2 \in Nat /\ MaxHello <= lim /\ lim <= lim2
      /\ RunReconfigure => lim + 1 <= lim2
  <2> DEFINE A == Spent
             B == Spent'
  <2>1. A \subseteq B /\ B \subseteq Seqs
    BY SpentGrows DEF Spent
  <2>2. RunReconfigure => current \in B /\ current \notin A
    BY SpentGrows
  <2>3. lim = MaxHello + Cardinality(A) /\ lim2 = MaxHello + Cardinality(B)
    BY DEF EpochLimit
  <2> HIDE DEF A, B, lim, lim2
  <2>4. Cardinality(A) \in Nat /\ Cardinality(B) \in Nat /\ Cardinality(A) <= Cardinality(B)
    BY <2>1, SeqsCount
  <2>5. ASSUME RunReconfigure PROVE Cardinality(A) + 1 <= Cardinality(B)
    <3>1. current \in B /\ A \in SUBSET (B \ {current}) /\ (B \ {current}) \in SUBSET Seqs
      BY <2>1, <2>2, <2>5
    <3>2. Cardinality(B \ {current}) \in Nat /\ Cardinality(B) = Cardinality(B \ {current}) + 1
      BY <2>1, <3>1, SeqsCount
    <3>3. Cardinality(A) <= Cardinality(B \ {current})
      BY <3>1, SeqsCount
    <3> QED
      BY <2>4, <3>2, <3>3
  <2> QED
    BY <2>3, <2>4, <2>5, HelloAssumption
<1> HIDE DEF lim, lim2
<1>2. /\ stamp \in Nat /\ pending \in Nat /\ epoch \in Nat /\ backend \in Nat /\ target \in Nat
      /\ stamp <= lim /\ pending <= lim /\ epoch <= lim /\ backend <= lim /\ target <= lim
      /\ backend # None => backend = epoch
  BY <1>t DEF EpochsFit, lim
<1> SUFFICES /\ stamp' \in Nat /\ pending' \in Nat /\ epoch' \in Nat /\ backend' \in Nat /\ target' \in Nat
             /\ stamp' <= lim2 /\ pending' <= lim2 /\ epoch' <= lim2 /\ backend' <= lim2 /\ target' <= lim2
             /\ backend' # None => backend' = epoch'
  BY DEF EpochsFit, lim2
<1> USE DEF None
<1>3. CASE ReadHello
  <2>1. greeted' \in Nat /\ greeted' <= MaxHello /\ pending' = greeted'
    BY <1>t, <1>3, HelloAssumption DEF ReadHello, Types
  <2>2. UNCHANGED <<stamp, epoch, backend, target>>
    BY <1>3 DEF ReadHello, drain
  <2> QED
    BY <1>1, <1>2, <2>1, <2>2, HelloAssumption
<1>4. CASE StampAudio \/ PutAudio
  <2>1. stamp' \in {0, epoch, pending} /\ UNCHANGED <<epoch, backend, target, pending>>
    BY <1>4 DEF StampAudio, PutAudio, drain, session
  <2> QED
    BY <1>1, <1>2, <2>1
<1>5. CASE DrainHello
  <2> DEFINE e == Head(hellos)
  <2>1. e \in 1 .. MaxHello
    BY <1>t, <1>5, HeadTailProperties DEF DrainHello, Types
  <2>2. UNCHANGED <<stamp, epoch>> /\ pending' = e /\ backend' = 0 /\ target' = e
    BY <1>5 DEF DrainHello, BeginStart, input
  <2> HIDE DEF e
  <2> QED
    BY <1>1, <1>2, <2>1, <2>2, HelloAssumption
<1>6. CASE RunReconfigure
  <2>1. UNCHANGED <<stamp, epoch>> /\ pending' = epoch + 1 /\ backend' = 0 /\ target' = epoch + 1
    BY <1>6 DEF RunReconfigure, BeginStart, input
  <2> QED
    BY <1>1, <1>2, <1>6, <2>1
<1>7. CASE Started
  <2>1. UNCHANGED stamp /\ pending' = 0 /\ epoch' = target /\ backend' = target /\ target' = 0
    BY <1>7 DEF Started, input
  <2> QED
    BY <1>1, <1>2, <2>1
<1>8. CASE StartFails \/ EndSession
  <2>1. /\ UNCHANGED <<stamp, epoch>> /\ target' \in {target, 0} /\ pending' \in {pending, 0}
        /\ backend' \in {backend, 0}
    BY <1>8 DEF StartFails, EndSession, input
  <2> QED
    BY <1>1, <1>2, <2>1
<1>9. CASE ~(ReadHello \/ StampAudio \/ PutAudio \/ DrainHello \/ RunReconfigure \/ Started \/ StartFails \/ EndSession)
  <2>1. UNCHANGED <<stamp, epoch, target, pending, backend>>
    BY <1>9 DEF Next, Reader, Loop, Control, Audio, ReadControl, ReadEnd, HellosDone, OldStopped, ClearPending,
       Pass, Take, PutBack, Rested, RunAtOnce, RunFlush, Flushed, RunStop, Stopped, Finish, EndTurn,
       Feed, Fed, Write, Exit, vars, input, session, drain
  <2> QED
    BY <1>1, <1>2, <2>1
<1> QED
  BY <1>3, <1>4, <1>5, <1>6, <1>7, <1>8, <1>9

\* The audio the backend is given is compared with the epoch while no other
\* coroutine runs.
LEMMA FedNext == IInv /\ [Next]_vars => FedItsOwn'
<1> SUFFICES ASSUME IInv, [Next]_vars PROVE FedItsOwn'
  OBVIOUS
<1>1. CASE Feed
  <2>1. backend # None => backend = epoch
    BY DEF IInv, EpochsFit
  <2>2. feeding' = <<>> \/ feeding' = <<epoch, epoch>>
    BY <1>1, <2>1 DEF Feed
  <2> QED
    BY <2>2 DEF FedItsOwn
<1>2. CASE ~Feed
  <2>1. feeding' = feeding \/ feeding' = <<>>
    BY <1>2 DEF Next, Reader, Loop, Control, Audio, ReadHello, ReadControl, StampAudio, PutAudio, ReadEnd,
       DrainHello, HellosDone, OldStopped, Started, StartFails, ClearPending, Pass, Take, PutBack, Rested,
       RunAtOnce, RunFlush, Flushed, RunReconfigure, RunStop, EndSession, Stopped, Finish, EndTurn,
       Fed, Write, Exit, vars, media
  <2> QED
    BY <2>1 DEF IInv, FedItsOwn
<1> QED
  BY <1>1, <1>2

----------------------------------------------------------------------------
(* The theorems.                                                            *)

LEMMA IInvHolds ==
  ASSUME MaxHello <= 1
  PROVE  Spec => []IInv
<1>1. IInv /\ [Next]_vars => IInv'
  BY TypesNext, PlaceNext, SlotsNext, HeldNext, GreetedNext, AnswersNext, RunsNext, LeftNext, EpochsNext,
     FedNext
  DEF IInv
<1> QED
  BY <1>1, InitIInv, PTL DEF Spec

\* If a child is greeted once: however often a request arrives, before or after it
\* was put back, replaced or cleared, it is not answered more often than it was
\* received, and carried out at most once.
THEOREM RequestsAreCounted ==
  ASSUME MaxHello <= 1
  PROVE  Spec => []RequestsCounted
<1>1. IInv => RequestsCounted
  <2> SUFFICES ASSUME IInv PROVE RequestsCounted
    OBVIOUS
  <2>1. AnsweredOnce
    BY DEF IInv, LeftClean
  <2>2. \A s \in Seqs : runs[s] \in {0, 1}
    BY DEF IInv, Types
  <2> QED
    BY <2>1, <2>2 DEF RequestsCounted, RunsOnce
<1> QED
  BY <1>1, IInvHolds, PTL

\* If a child is greeted once: audio is fed to the backend of its own session, the
\* queues keep their capacity, and the sidecar leaves at the end of stdin with every
\* request answered and every answer written.
THEOREM NothingIsMisplaced ==
  ASSUME MaxHello <= 1
  PROVE  Spec => []NothingMisplaced
<1>1. IInv => TypeOK
  <2> SUFFICES ASSUME IInv PROVE TypeOK
    OBVIOUS
  <2>t. Types /\ PlaceFits /\ EpochsFit
    BY DEF IInv
  <2>1. {stamp, pending, epoch, backend, target} \subseteq Epochs
    <3>1. MaxHello \in Nat /\ MaxSeq \in Nat /\ Cardinality(Spent) \in Nat /\ Cardinality(Spent) <= MaxSeq
      BY HelloAssumption, SeqAssumption, SpentIsFinite
    <3> QED
      BY <2>t, <3>1 DEF EpochsFit, EpochLimit, Epochs
  <2>2. /\ reader \in {"reading", "stamped", "eof", "failed"} /\ {active, context} \subseteq BOOLEAN
        /\ command \in [Seqs -> Commands \cup {"none"}]
        /\ {slot, inflight, lastSeq} \subseteq [Commands -> 0 .. MaxSeq]
    BY <2>t DEF Types
  <2>3. turn \in 1 .. Len(Order) + 1
    BY <2>t, OrderIs DEF Types
  <2>4. /\ current # None => command[current] = Order[turn]
        /\ at \in {"sleep", "hello", "drain"} => current = None
    BY <2>t DEF PlaceFits
  <2>5. Len(audio) <= MaxAudio /\ out <= MaxOut /\ Len(hellos) <= MaxHello
    <3>1. Len(hellos) \in Nat /\ Len(hellos) <= greeted /\ greeted \in 0 .. MaxHello
      BY <2>t, LenProperties DEF Types
    <3> QED
      BY <2>t, <3>1, HelloAssumption, OutAssumption DEF Types
  <2> QED
    BY <2>1, <2>2, <2>3, <2>4, <2>5 DEF TypeOK
<1>2. IInv => FedItsOwn /\ CleanExit
  BY DEF IInv, LeftClean
<1> QED
  BY <1>1, <1>2, IInvHolds, PTL DEF NothingMisplaced
=============================================================================
