----------------------------- MODULE MCLlmRouter -----------------------------
(* Two callers, one of them paying, before a paced provider, a paid one    *)
(* that is not allowed and one that answers locally.                       *)
EXTENDS LlmRouter, TLC
CONSTANTS c1, c2

MCCost == c1 :> 1 @@ c2 :> 0
MCPriority == <<"gemini-free", "deepseek-paid", "local-stub">>
=============================================================================
