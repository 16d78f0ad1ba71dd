------------------------------ MODULE RunControl ------------------------------
(***************************************************************************)
(* The settings window's Save, Start and Stop: gui/app.py, and the child   *)
(* process that gui/runner.py keeps.  Everything the user does runs on the *)
(* Tk thread, one callback after the other; the children run and read the  *)
(* settings beside it, and so does a thread for each child which waits for *)
(* its end and has the Tk thread show it.                                  *)
(***************************************************************************)
EXTENDS SettingsFiles, Integers

CONSTANTS
  Values,      \* what the user may enter
  FirstConfig, \* config.toml as the window finds it
  FirstEnv,    \* .env as the window finds it
  MaxEdits, MaxStarts, MaxSaves \* bounds on what the user does

ASSUME RunControlAssumption == MaxEdits \in Nat /\ MaxStarts \in Nat /\ MaxSaves \in Nat
ASSUME TextAssumption == Values \subseteq STRING /\ FirstEnv \in Seq([key : STRING, value : STRING])

VARIABLES
  form,     \* what the widgets show
  config, env, \* the files
  readable, \* config.toml parses
  torn,     \* a write to a file was cut short (history)
  saved,    \* the form that was written last, and to the end: none or one
  callback, \* what the Tk thread is in the middle of
  draft,    \* what it writes: the configuration as it was read, and the form
  launches, \* children started; the last one is the runner's _process
  child,    \* each child: "none", "starting" (it has not read its settings), "alive",
            \* "doomed" (killed, not waited for) or "ended"
  pump,     \* each child's thread: 0 not begun, then the child it reads
  endings,  \* calls of _on_child_exit that wait for the Tk thread
  canStart, canStop, shown, \* the buttons and the window
  astray,   \* a child runs with other settings than those saved last (history)
  edits, saves

runFiles == <<config, env, readable, torn, saved>>
runChildren == <<launches, child, pump, endings, astray>>
runWindow == <<canStart, canStop, shown>>
runControlVars == <<form, runFiles, callback, draft, runChildren, runWindow, edits, saves>>

Children == 1..MaxStarts

RunControlInit ==
  /\ config = FirstConfig /\ env = FirstEnv /\ readable = TRUE /\ torn = FALSE
  /\ form = LoadSettings(config, env) /\ saved = <<>>
  /\ callback = "none" /\ draft = <<>> /\ launches = 0
  /\ child = [c \in Children |-> "none"] /\ pump = [c \in Children |-> 0] /\ endings = 0
  /\ astray = FALSE /\ canStart = TRUE /\ canStop = FALSE /\ shown = TRUE
  /\ edits = 0 /\ saves = 0

\* What a window opened later finds: a blank field at its default.
Reopened(f) == [f EXCEPT !.fields = [p \in Fields |-> IF @[p] = Unset THEN Default[p] ELSE @[p]]]

\* CaptionRunner.is_running
Alive(c) == child[c] \in {"starting", "alive", "doomed"}
IsRunning == launches > 0 /\ Alive(launches)

Resting == shown /\ callback = "none"

EnterValue ==
  /\ Resting /\ edits < MaxEdits /\ edits' = edits + 1
  /\ \/ \E f \in Fields, v \in Values : form' = [form EXCEPT !.fields[f] = v]
     \/ \E s \in Secrets, v \in Values : form' = [form EXCEPT !.secrets[s] = v]
  /\ UNCHANGED <<runFiles, callback, draft, runChildren, runWindow, saves>>

----------------------------------------------------------------------------
(* on_save and on_start.                                                   *)

\* Mutant: Start relies on its button being disabled while a child runs.
MayStartButton == canStart

MayStart == canStart /\ ~IsRunning

\* A config.toml that does not parse, or values that do not validate, end the
\* callback with a dialog; otherwise the file is opened, which empties it.
SaveOpens ==
  /\ Resting /\ readable /\ saves < MaxSaves /\ saves' = saves + 1
  /\ \/ callback' = "save"
     \/ MayStart /\ launches < MaxStarts /\ callback' = "start"
  /\ config' = <<>> /\ draft' = <<config, form>> /\ saved' = <<>>
  /\ UNCHANGED <<form, env, readable, torn, runChildren, runWindow, edits>>

\* Writing fails half way: an empty file, or one that does not parse.
DumpFails ==
  /\ callback \in {"save", "start"} /\ callback' = "none"
  /\ readable' \in BOOLEAN /\ torn' = TRUE /\ draft' = <<>>
  /\ UNCHANGED <<form, config, env, saved, runChildren, runWindow, edits, saves>>

\* The configuration is there; then .env is written, or that fails.
DumpEnds ==
  /\ callback \in {"save", "start"}
  /\ config' = WriteConfig(draft[2], draft[1]) /\ draft' = <<>>
  /\ \/ env' = WriteEnv(draft[2], env) /\ saved' = <<draft[2]>> /\ UNCHANGED torn
        /\ callback' = IF callback = "start" THEN "launch" ELSE "none"
     \/ env' \in {env, <<>>} /\ torn' = (torn \/ env' # env) /\ UNCHANGED saved
        /\ callback' = "none"
  /\ UNCHANGED <<form, readable, runChildren, runWindow, edits, saves>>

\* CaptionRunner.start, or Popen fails and the window says so.
LaunchChild ==
  /\ callback = "launch" /\ callback' = "none"
  /\ \/ /\ launches' = launches + 1 /\ child' = [child EXCEPT ![launches + 1] = "starting"]
        /\ canStart' = FALSE /\ canStop' = TRUE
     \/ UNCHANGED <<launches, child, canStart, canStop>>
  /\ UNCHANGED <<form, runFiles, draft, pump, endings, astray, shown, edits, saves>>

----------------------------------------------------------------------------
(* The children, on_stop and the end.                                      *)

\* load_dotenv leaves a variable alone that is set, and the window's are those
\* of .env when it was opened, which the child inherits.
ChildSecret(s) ==
  IF \E i \in DOMAIN FirstEnv : FirstEnv[i].key = s THEN ReadEnv(FirstEnv, s) ELSE ReadEnv(env, s)

\* run --sink: without --config, load_config does not look for a file.
ChildReads ==
  /\ \E c \in Children : child[c] = "starting" /\ child' = [child EXCEPT ![c] = "alive"]
  /\ LET settings == [fields |-> Default, secrets |-> [s \in Secrets |-> ChildSecret(s)]]
     IN astray' = (astray \/ (saved # <<>> /\ callback = "none" /\ settings # Reopened(saved[1])))
  /\ UNCHANGED <<form, runFiles, callback, draft, launches, pump, endings, runWindow, edits, saves>>

ChildEnds ==
  /\ \E c \in Children : Alive(c) /\ child' = [child EXCEPT ![c] = "ended"]
  /\ UNCHANGED <<form, runFiles, callback, draft, launches, pump, endings, astray, runWindow, edits, saves>>

\* CaptionRunner.stop: the child ends within five seconds or is killed, and
\* then nobody waits for it.
StopsAs(state) == child' = IF IsRunning THEN [child EXCEPT ![launches] = state] ELSE child

PressStop ==
  /\ Resting /\ canStop
  /\ \E state \in {"ended", "doomed"} : StopsAs(state)
  /\ canStart' = TRUE /\ canStop' = FALSE
  /\ UNCHANGED <<form, runFiles, callback, draft, launches, pump, endings, astray, shown, edits, saves>>

CloseWindow ==
  /\ Resting /\ shown' = FALSE
  /\ \E state \in {"ended", "doomed"} : StopsAs(state)
  /\ UNCHANGED <<form, runFiles, callback, draft, launches, pump, endings, astray, canStart, canStop, edits, saves>>

\* _pump looks at _process only when its thread gets to run: that may be a
\* later child than the one it was started for.
PumpBegins ==
  /\ \E c \in 1..launches : pump[c] = 0 /\ pump' = [pump EXCEPT ![c] = launches]
  /\ UNCHANGED <<form, runFiles, callback, draft, launches, child, endings, astray, runWindow, edits, saves>>

PumpEnds ==
  /\ \E c \in 1..launches :
       /\ pump[c] > 0 /\ child[pump[c]] = "ended"
       /\ pump' = [pump EXCEPT ![c] = -1]
  /\ endings' = endings + 1
  /\ UNCHANGED <<form, runFiles, callback, draft, launches, child, astray, runWindow, edits, saves>>

\* _on_child_exit on the Tk thread, whichever child it is that ended.
ShowEnding ==
  /\ Resting /\ endings > 0 /\ endings' = endings - 1
  /\ canStart' = TRUE /\ canStop' = FALSE
  /\ UNCHANGED <<form, runFiles, callback, draft, launches, child, pump, astray, shown, edits, saves>>

RunControlNext ==
  \/ EnterValue \/ SaveOpens \/ DumpFails \/ DumpEnds \/ LaunchChild
  \/ ChildReads \/ ChildEnds \/ PressStop \/ CloseWindow \/ PumpBegins \/ PumpEnds \/ ShowEnding

RunControlSpec == RunControlInit /\ [][RunControlNext]_runControlVars

----------------------------------------------------------------------------
(* Properties.                                                             *)

\* The window never loses a child: one that runs and was not killed is the
\* runner's, though a late notice of an earlier end lights Start again, and
\* none survives the window.
NoOrphan ==
  \A c \in Children : child[c] \in {"starting", "alive"} => c = launches /\ shown

OtherLines(lines) == Among(lines, {l \in ToSet(lines) : l.key \notin Secrets})

\* What was saved is what the window finds when it is opened again, and the
\* rest of both files is as it was, unless a write was cut short.  A field that
\* was left blank is at its default then, the language of speech too, though its
\* help says that a blank one means automatic detection (settings_fields.py:24): the
\* property says what the code does, which is not what that help promises.
SavedIsLoaded ==
  callback \notin {"save", "start"} =>
    /\ saved # <<>> => LoadSettings(config, env) = Reopened(saved[1])
    /\ ~torn => /\ Only(config, Unmanaged) = Only(FirstConfig, Unmanaged)
                /\ OtherLines(env) = OtherLines(FirstEnv)

\* A child runs with the settings that were saved last (README.md:76: the
\* engine is chosen in config.toml, the keys are put into .env).
ChildRunsAsSaved == ~astray
=============================================================================
