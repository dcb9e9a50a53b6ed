------------------------------ MODULE MCAgentTools ------------------------------
EXTENDS AgentTools, TLC

Interchangeable == Permutations(ToolCalls)

\* The stream of the first call asks two questions, any other none.
FirstAsksTwice == [c \in 1..MaxStarted |-> IF c = 1 THEN 2 ELSE 0]
=============================================================================
