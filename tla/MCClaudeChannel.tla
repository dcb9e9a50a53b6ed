--------------------------- MODULE MCClaudeChannel ---------------------------
EXTENDS ClaudeChannel, TLC

\* Nothing tells one request from another.
SameRequests == Permutations(Requests)
=============================================================================
