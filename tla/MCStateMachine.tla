--------------------------- MODULE MCStateMachine ---------------------------
\* Small instances of the enclave state machine for TLC.
EXTENDS StateMachine
=============================================================================
