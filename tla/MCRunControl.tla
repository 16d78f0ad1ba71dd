---------------------------- MODULE MCRunControl ----------------------------
(***************************************************************************)
(* Settings for TLC as the window finds them: .env has a comment, a key    *)
(* given twice and one the window does not know.                           *)
(***************************************************************************)
EXTENDS RunControl

MCDefault == [model |-> "small", prompt |-> ""]
MCConfig == [model |-> "large", extra |-> "kept"]
MCEnv == <<[key |-> "KEY", value |-> "old"], [key |-> "#", value |-> "note"],
           [key |-> "KEY", value |-> "older"], [key |-> "OTHER", value |-> "x"]>>
=============================================================================
