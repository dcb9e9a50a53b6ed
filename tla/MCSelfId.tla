-------------------------------- MODULE MCSelfId --------------------------------
EXTENDS SelfId

\* One lookup in flight per source, and one that a reconnect left behind.
LookupSlots == 1..Cardinality(Sources) + 1
=============================================================================
