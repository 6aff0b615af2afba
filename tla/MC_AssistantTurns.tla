------------------------- MODULE MC_AssistantTurns -------------------------
EXTENDS AssistantTurns, TLC
=============================================================================
