-------------------------- MODULE MCScriptInterface --------------------------
(* Instances of ScriptInterface for model checking. *)
EXTENDS ScriptInterface

AllCallouts == {"message", "error", "goto", "end", "dialog", "console", "keymap"}
=============================================================================
