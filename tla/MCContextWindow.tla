-------------------------- MODULE MCContextWindow --------------------------
(* ContextWindow on six cells: prompts of a third and of half of the       *)
(* context, which begin differently, and one that has to be trimmed.       *)
EXTENDS ContextWindow

CONSTANTS a, b

TokenSet == {a, b}

\* With NCtx = 6 and Reserve = 2, four tokens fit and seven do not, even in a
\* call with nothing to generate.
PromptSet == {<<b, b>>, <<a, b, b>>, <<a, b, b, a, a, b, a>>}
=============================================================================
