--------------------------- MODULE MCRemoteWrite ---------------------------
EXTENDS RemoteWrite

\* Every save offers all hashes.
MCBatch == [o \in Op |-> Key]
=============================================================================
