----------------------------- MODULE Recommendation -----------------------------
(***************************************************************************)
(* The settings window's model recommendation (gui/app.py,                 *)
(* _wire_model_recommendation): a thread looks at the hardware while the   *)
(* Tk thread polls a queue, a hundred times and then no more.  The rules   *)
(* are stt/hardware.py's.                                                  *)
(***************************************************************************)
EXTENDS Integers, Sequences

CONSTANTS
  MaxPolls,  \* polls before the window stops asking
  MaxChanges \* bound on what the user enters

ASSUME RecommendationAssumption == MaxPolls \in Nat /\ MaxChanges \in Nat

VARIABLES
  hardware, \* what the probes find; a probe that fails finds nothing
  worker,   \* the thread: "probing" or "done"
  found,    \* the queue
  polls,    \* polls left; -1 when none is due
  label,    \* "computing", "cannot" or the model
  applied,  \* the button puts this model into the field: pending["model"]
  model,    \* the field
  changes

recommendVars == <<hardware, worker, found, polls, label, applied, model, changes>>

Unknown == -1
NoModel == "none"

\* Memory counts in four classes: below 4000, below 8000, above; or unknown.
Memory == {Unknown, 3, 4, 8}
ProbesFind == [cuda : BOOLEAN, vram : Memory, ram : Memory, cpus : {Unknown, 4, 8}]

\* recommend_model, by the first rule that applies.
Recommend(hw) ==
  CASE hw.vram >= 8 -> "large-v3-turbo"
    [] hw.vram >= 4 /\ hw.vram < 8 -> "large-v3"
    [] hw.vram = Unknown /\ hw.cuda -> "large-v3"
    [] hw.vram < 4 /\ ~(hw.vram = Unknown /\ hw.cuda) ->
         IF ~hw.cuda /\ hw.ram >= 8 /\ hw.cpus >= 8 THEN "medium"
         ELSE IF hw.ram >= 4 THEN "small" ELSE "base"

RecommendInit ==
  /\ hardware \in ProbesFind /\ worker = "probing" /\ found = <<>> /\ polls = MaxPolls
  /\ label = "computing" /\ applied = NoModel /\ model = "entered" /\ changes = 0

\* detect_hardware and recommend_model, or an error that is swallowed.
ProbesEnd ==
  /\ worker = "probing" /\ worker' = "done"
  /\ found' \in {<<Recommend(hardware)>>, <<NoModel>>}
  /\ UNCHANGED <<hardware, polls, label, applied, model, changes>>

\* Mutant: the last poll no longer looks into the queue.
PollRecommendationShort ==
  /\ polls >= 0
  /\ IF found = <<>> \/ polls = 0
     THEN polls' = polls - 1 /\ UNCHANGED <<found, label, applied>>
     ELSE /\ found' = <<>> /\ polls' = -1
          /\ IF found[1] = NoModel THEN label' = "cannot" /\ UNCHANGED applied
             ELSE label' = found[1] /\ applied' = found[1]
  /\ UNCHANGED <<hardware, worker, model, changes>>

\* _poll: the last one that finds nothing is not followed by another, and the
\* label stays as it is.
PollRecommendation ==
  /\ polls >= 0
  /\ IF found = <<>>
     THEN polls' = polls - 1 /\ UNCHANGED <<found, label, applied>>
     ELSE /\ found' = <<>> /\ polls' = -1
          /\ IF found[1] = NoModel THEN label' = "cannot" /\ UNCHANGED applied
             ELSE label' = found[1] /\ applied' = found[1]
  /\ UNCHANGED <<hardware, worker, model, changes>>

\* _apply, and the user's own choice.
ApplyRecommendation ==
  /\ applied # NoModel /\ changes < MaxChanges /\ changes' = changes + 1 /\ model' = applied
  /\ UNCHANGED <<hardware, worker, found, polls, label, applied>>

EnterModel ==
  /\ changes < MaxChanges /\ changes' = changes + 1 /\ model' = "entered"
  /\ UNCHANGED <<hardware, worker, found, polls, label, applied>>

RecommendNext ==
  ProbesEnd \/ PollRecommendation \/ ApplyRecommendation \/ EnterModel

RecommendSpec ==
  RecommendInit /\ [][RecommendNext]_recommendVars /\ WF_recommendVars(PollRecommendation)

----------------------------------------------------------------------------
(* Properties.                                                             *)

\* What is offered is what the label says, and what the rules say of this machine.
OfferedIsRecommended == applied # NoModel => applied = label /\ applied = Recommend(hardware)

\* Besides, hardware that was probed while the window still asks is always told
\* about.
ProbedIsShown ==
  /\ []OfferedIsRecommended
  /\ (worker = "done" /\ polls >= 0) ~> label # "computing"
=============================================================================
