--------------------------- MODULE MCEntropyPool ----------------------------
\* Small instances of entropy ingestion for TLC.
EXTENDS EntropyPool
=============================================================================
