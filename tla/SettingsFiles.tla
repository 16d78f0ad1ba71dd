---------------------------- MODULE SettingsFiles ----------------------------
(***************************************************************************)
(* What the settings window reads from config.toml and .env, and what it   *)
(* writes back: gui/config_io.py as operators.  A configuration is a       *)
(* function from dotted paths to values; .env is a sequence of lines, each *)
(* a key and a value, or a comment.                                        *)
(***************************************************************************)
EXTENDS FiniteSets, Subsequences

CONSTANTS
  Fields,    \* the paths the window manages: FIELDS without the secrets
  Default,   \* the value AppConfig gives each of them
  Unmanaged, \* paths of config.toml the window does not know
  Secrets    \* the environment variables of the secret fields

ASSUME FieldsAssumption == Fields \cap Unmanaged = {} /\ DOMAIN Default = Fields
ASSUME SecretsAssumption == IsFiniteSet(Secrets) /\ Secrets \subseteq STRING

Unset == ""

\* A function of what is given, restricted to the paths in S.
Only(config, S) == [p \in DOMAIN config \cap S |-> config[p]]

\* _read_env: the last line of a key counts.
ReadEnv(lines, key) ==
  LET of == {i \in DOMAIN lines : lines[i].key = key}
  IN IF of = {} THEN Unset ELSE lines[CHOOSE i \in of : \A j \in of : j <= i].value

\* load_settings: the form of the window, from both files.
LoadSettings(config, lines) ==
  [fields |-> [f \in Fields |-> IF f \in DOMAIN config THEN config[f] ELSE Default[f]],
   secrets |-> [s \in Secrets |-> ReadEnv(lines, s)]]

\* Mutant: a field left blank keeps the value it has on disk.
WriteConfigKeeping(form, config) ==
  LET given == {f \in Fields : form.fields[f] \notin {Unset, Default[f]}}
  IN [p \in DOMAIN config \cup given |-> IF p \in given THEN form.fields[p] ELSE config[p]]

\* _write_config: the window's fields replace what is on disk, blank ones are
\* reset and defaults are not written; what it does not manage stays.
WriteConfig(form, config) ==
  LET given == {f \in Fields : form.fields[f] \notin {Unset, Default[f]}}
      kept == Only(config, Unmanaged)
  IN [p \in DOMAIN kept \cup given |-> IF p \in given THEN form.fields[p] ELSE kept[p]]

\* _write_env: every line of a secret is replaced, or dropped when it is
\* blank; a secret without a line gets one at the end.
WriteEnv(form, lines) ==
  LET dropped == {l \in ToSet(lines) : l.key \in Secrets /\ form.secrets[l.key] = Unset}
      written(l) == IF l.key \in Secrets THEN [l EXCEPT !.value = form.secrets[l.key]] ELSE l
      old == Among(lines, ToSet(lines) \ dropped)
      new == {s \in Secrets : form.secrets[s] # Unset /\ \A i \in DOMAIN lines : lines[i].key # s}
  IN [i \in DOMAIN old |-> written(old[i])]
       \o [i \in 1..Cardinality(new) |-> LET s == SetToSeq(new)[i] IN [key |-> s, value |-> form.secrets[s]]]
=============================================================================
