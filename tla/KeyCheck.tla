------------------------------- MODULE KeyCheck -------------------------------
(***************************************************************************)
(* The settings window's key test (gui/app.py, _wire_key_test).  A click   *)
(* disables the button, starts a thread that asks the service, and polls   *)
(* a queue of one place on the Tk thread; after so many polls in vain the  *)
(* button is given back, and the thread may still come with its answer     *)
(* during the test of a later click.  Clicks are numbered: generation.     *)
(* The answer is put on the label and into a message box, and the button   *)
(* comes back when the user has closed it.                                 *)
(***************************************************************************)
EXTENDS Integers, Sequences

CONSTANTS
  MaxClicks, \* bound on the clicks
  MaxRetries \* polls in vain before the button is given back

ASSUME KeyCheckAssumption == MaxClicks \in Nat /\ MaxRetries \in Nat

VARIABLES
  generation, \* clicks so far
  button,     \* test_button is enabled
  results,    \* result_q
  probing,    \* the clicks whose thread has not put its answer into the queue
  retries,    \* polls left; -1 when none is due
  box,        \* the message box is open
  verdict     \* what the label shows: the answer to a click, or 0

keyCheckVars == <<generation, button, results, probing, retries, box, verdict>>

KeyCheckInit ==
  /\ generation = 0 /\ button = TRUE /\ results = <<>> /\ probing = {}
  /\ retries = -1 /\ box = FALSE /\ verdict = 0

\* drain_queue, then the thread and the first poll.
TestKey ==
  /\ button /\ generation < MaxClicks
  /\ generation' = generation + 1 /\ button' = FALSE /\ verdict' = 0
  /\ results' = <<>> /\ probing' = probing \cup {generation + 1}
  /\ retries' = MaxRetries /\ UNCHANGED box

\* put waits for the place: a probe that is late may fill it first.
AnswerPut ==
  /\ results = <<>>
  /\ \E g \in probing : results' = <<g>> /\ probing' = probing \ {g}
  /\ UNCHANGED <<generation, button, retries, box, verdict>>

\* Mutant: the late answer to an earlier click is shown as this one's.
OursAnyway(g) == g \in 1..generation

Ours(g) == g = generation

PollKey ==
  /\ retries >= 0
  /\ IF results = <<>>
     THEN /\ retries' = retries - 1 /\ button' = (retries = 0)
          /\ UNCHANGED <<results, box, verdict>>
     ELSE /\ results' = <<>>
          /\ IF Ours(results[1])
             THEN verdict' = results[1] /\ box' = TRUE /\ retries' = -1
             ELSE UNCHANGED <<verdict, box, retries>>
          /\ UNCHANGED button
  /\ UNCHANGED <<generation, probing>>

\* showinfo or showwarning returns; the window is served meanwhile.
CloseBox ==
  /\ box /\ box' = FALSE /\ button' = TRUE
  /\ UNCHANGED <<generation, results, probing, retries, verdict>>

KeyCheckNext == TestKey \/ AnswerPut \/ PollKey \/ CloseBox

\* The Tk thread runs what is scheduled.
KeyCheckFair == WF_keyCheckVars(PollKey)

KeyCheckSpec == KeyCheckInit /\ [][KeyCheckNext]_keyCheckVars /\ KeyCheckFair

----------------------------------------------------------------------------
(* Properties.                                                             *)

\* An answer that is shown is the answer to the last click, although the
\* probe of an earlier one may end during this one's test.
AnswerIsOurs == verdict # 0 => verdict = generation

\* While the button is off a poll is due that can give it back, or the user
\* has the box to close, and then nothing else would enable it before.
PollIsDue == ~button => (IF box THEN retries = -1 ELSE retries >= 0)

\* Besides, the button always comes back or waits for the user to close the
\* box, whatever the service and the late probes do.
LastClickIsAnswered == [](AnswerIsOurs /\ PollIsDue) /\ (~button ~> (button \/ box))
=============================================================================
