----------------------------- MODULE MCPresence -----------------------------
(* Small instances of Presence for TLC: a voice job and an LLM generation.  *)
EXTENDS Presence

TwoHolders == {"voice", "llm"}
============================================================================
