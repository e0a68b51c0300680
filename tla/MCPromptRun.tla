----------------------------- MODULE MCPromptRun -----------------------------
(* PromptRun: two or three concurrent jobs, each its own restarter.        *)
EXTENDS PromptRun
=============================================================================
