------------------------------ MODULE EngineChoice ------------------------------
(***************************************************************************)
(* From the engine and the key a user enters to a backend: the key test    *)
(* (stt/validate.py) is asked before, create_backend (stt/registry.py)     *)
(* decides after the key went through .env and the environment of another  *)
(* process.  Three tables have to agree on what an engine needs.  That     *)
(* process is `run --config config.toml`, started from a shell.  The child *)
(* of the window is none that uses a key: it is run without --config, and  *)
(* load_config(None) has the engine local (run child_settings); what it    *)
(* inherits of the keys is ChildSecret in RunControl.                      *)
(***************************************************************************)
EXTENDS Naturals

CONSTANT Keys \* what may be entered, without blanks around it; "" is none

VARIABLES
  engine,   \* the engine field; another engine is another behaviour
  provider, \* what config.toml has for it: the mode of google, region, project
  dotenv,   \* the line of .env that has the key of this engine
  typed,    \* the secret field of this engine; the others are blank
  tested,   \* the last key test of what is typed: "none", "good", "bad", "region" or "unknown"
  environ,  \* the variables of the shell
  used,     \* the key the next backend is built with
  backend   \* "none", "built" or what was missing: "key", "region", "project"

engineVars == <<engine, provider, dotenv, typed, tested, environ, used, backend>>

NoKey == ""

\* The engines with a key and their variables: _SECRET_ENV_VARS.
SecretVar ==
  [openai |-> "OPENAI_API_KEY", elevenlabs |-> "ELEVENLABS_API_KEY", google |-> "GEMINI_API_KEY",
   xai |-> "XAI_API_KEY", deepgram |-> "DEEPGRAM_API_KEY", assemblyai |-> "ASSEMBLYAI_API_KEY",
   azure |-> "AZURE_SPEECH_KEY", openrouter |-> "OPENROUTER_API_KEY",
   replicate |-> "REPLICATE_API_TOKEN", groq |-> "GROQ_API_KEY"]

KeyedEngines == DOMAIN SecretVar
Engines == KeyedEngines \cup {"local"}

\* What create_backend looks for beside the keys: set in the shell, or in a
\* line of .env that the window leaves as it is.
OtherVars == {"AZURE_SPEECH_REGION", "GOOGLE_CLOUD_PROJECT", "GOOGLE_API_KEY"}
Variables == {SecretVar[e] : e \in KeyedEngines} \cup OtherVars

\* load_settings shows the key .env has.
EngineInit ==
  /\ engine \in Engines /\ tested = "none" /\ used = NoKey /\ backend = "none"
  /\ provider \in [mode : {"gemini", "speech_v2"}, region : BOOLEAN, project : BOOLEAN]
  /\ dotenv \in Keys /\ typed = dotenv
  /\ \E set \in SUBSET OtherVars, key \in Keys :
       environ = [v \in Variables |-> IF v \in set THEN "given"
                    ELSE IF engine \in KeyedEngines /\ v = SecretVar[engine] THEN key ELSE NoKey]

\* current_key_widget: the secret field of the engine, which local has not.
EnterKey ==
  /\ engine \in KeyedEngines
  /\ typed' \in Keys
  /\ tested' = "none"
  /\ UNCHANGED <<engine, provider, dotenv, environ, used, backend>>

----------------------------------------------------------------------------
(* The test.                                                               *)

\* _NETWORK: the engines that are asked over the network.
Network == KeyedEngines \ {"assemblyai", "azure"}

\* validate_engine as the window calls it: without the region, which is then
\* missing for azure whatever the configuration says. A service that is asked
\* accepts the key, refuses it, or cannot be reached.
Verdicts(e, key) ==
  CASE key = NoKey                   -> {"bad"}
    [] key # NoKey /\ e = "azure"    -> {"region"}
    [] key # NoKey /\ e \in Network  -> {"good", "bad", "unknown"}
    [] OTHER                         -> {"unknown"}

TestEngineKey ==
  /\ engine \in KeyedEngines /\ tested = "none"
  /\ tested' \in Verdicts(engine, typed)
  /\ UNCHANGED <<engine, provider, dotenv, typed, environ, used, backend>>

----------------------------------------------------------------------------
(* Saving, and the process that builds the backend.                        *)

\* _write_env; the backend that counts is the next one.
SaveKeys ==
  /\ engine \in KeyedEngines /\ dotenv' = typed
  /\ used' = NoKey /\ backend' = "none"
  /\ UNCHANGED <<engine, provider, typed, tested, environ>>

\* load_dotenv without override: a variable the shell has set stays as it is.
Loaded ==
  [v \in Variables |-> IF engine \in KeyedEngines /\ v = SecretVar[engine] /\ environ[v] = NoKey
                       THEN dotenv ELSE environ[v]]

\* Mutant: the key of google is looked for in the variable DOCS.md names.
KeyVarOfDocs(e) == IF e = "google" THEN "GOOGLE_API_KEY" ELSE SecretVar[e]

\* The variable create_backend looks a key up in: _KWARGS_ENGINES,
\* _DEFAULT_MODEL_ENGINES, _build_google and _build_azure.
KeyVar(e) ==
  CASE e = "openai" -> "OPENAI_API_KEY" [] e = "elevenlabs" -> "ELEVENLABS_API_KEY"
    [] e = "xai" -> "XAI_API_KEY" [] e = "assemblyai" -> "ASSEMBLYAI_API_KEY"
    [] e = "deepgram" -> "DEEPGRAM_API_KEY" [] e = "groq" -> "GROQ_API_KEY"
    [] e = "openrouter" -> "OPENROUTER_API_KEY" [] e = "replicate" -> "REPLICATE_API_TOKEN"
    [] e = "google" -> "GEMINI_API_KEY" [] e = "azure" -> "AZURE_SPEECH_KEY"

KeyLess(e) == e = "local" \/ (e = "google" /\ provider.mode = "speech_v2")

\* What is missing, in the order the code looks: google in its other mode
\* wants a project and no key.
Missing(e) ==
  IF e = "local" THEN "nothing"
  ELSE IF KeyLess(e)
  THEN IF provider.project \/ Loaded["GOOGLE_CLOUD_PROJECT"] # NoKey THEN "nothing" ELSE "project"
  ELSE IF Loaded[KeyVar(e)] = NoKey THEN "key"
  ELSE IF e = "azure" /\ ~provider.region /\ Loaded["AZURE_SPEECH_REGION"] = NoKey THEN "region"
  ELSE "nothing"

CreateBackend ==
  /\ backend = "none"
  /\ LET missing == Missing(engine)
     IN /\ backend' = IF missing = "nothing" THEN "built" ELSE missing
        /\ used' = IF missing = "nothing" /\ ~KeyLess(engine) THEN Loaded[KeyVar(engine)] ELSE NoKey
  /\ UNCHANGED <<engine, provider, dotenv, typed, tested, environ>>

EngineNext == EnterKey \/ TestEngineKey \/ SaveKeys \/ CreateBackend

EngineSpec == EngineInit /\ [][EngineNext]_engineVars

----------------------------------------------------------------------------
(* Properties.                                                             *)

\* The key of the engine the process finds: the shell's, if it has one.
KeyFound == IF environ[SecretVar[engine]] # NoKey THEN environ[SecretVar[engine]] ELSE dotenv

\* A backend is built with the key the process finds and with no other.  If
\* that is the key that is typed, a backend is built when the test calls it
\* good, and the key is missed only if the test calls it bad.  Google in the
\* mode without a key is not what the test knows.
TestedKeyBuilds ==
  engine \in KeyedEngines /\ ~KeyLess(engine) =>
    /\ backend = "built" => used = KeyFound
    /\ KeyFound = typed =>
         /\ tested = "good" => backend \in {"none", "built"}
         /\ backend = "key" => tested \in {"none", "bad"}
=============================================================================
