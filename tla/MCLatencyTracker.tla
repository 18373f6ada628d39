-------------------------- MODULE MCLatencyTracker --------------------------
\* Small instances of the latency tracker for TLC.
EXTENDS LatencyTracker
=============================================================================
