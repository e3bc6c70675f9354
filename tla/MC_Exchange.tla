------------------------------ MODULE MC_Exchange ------------------------------
EXTENDS Exchange

MCChains ==
  (Formats \X {"openai", "claude", "responses"})
    \ {<<"openai", "openai">>, <<"claude", "claude">>, <<"kiro", "openai">>, <<"kiro", "responses">>}
AllRoutes == {"openai", "claude", "responses"} \X Formats
ClaudeToKiro == {<<"claude", "kiro">>}
=============================================================================
