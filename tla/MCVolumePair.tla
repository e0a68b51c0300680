----------------------------- MODULE MCVolumePair -----------------------------
(* VolumePair on two plans, machines of one and two cards and one file.    *)
EXTENDS VolumePair

\* A card with a resident server that becomes a render card, another that
\* changes its root; the smaller machine cuts both plans short.
MCPlan == {<<"vision", "generation">>, <<"generation", "identity">>}

\* WORKER_CAPABILITIES of a render machine, and of one that names vision.
MCBroadcast == {{}, {"vision"}}
===============================================================================
