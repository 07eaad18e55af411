----------------------------- MODULE MCExecution -----------------------------
(***************************************************************************)
(* Goals, cache entries and settings to model-check Execution with.        *)
(***************************************************************************)
EXTENDS Execution

(* Goals without approvals; an execution outlives the cancellation. *)
PlainMoves ==
    {<<"requested", "in_process">>, <<"in_process", "success">>,
     <<"canceled", "success">>}

(* Signing switched on in any way, or off. *)
SomeConfigs ==
    {c \in [enabled : BOOLEAN, scope : {"all", "fulfillment"},
            signs : BOOLEAN, others : BOOLEAN, unusable : BOOLEAN] :
        c.enabled \/ (c.scope = "all" /\ ~c.others /\ ~c.unusable)}

(* Two entries of a cache. *)
TwoEntries == <<"deps", "out">>
===============================================================================
