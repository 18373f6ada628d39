-------------------------- MODULE MCSessionManager --------------------------
\* Small instances of the session manager for TLC.
EXTENDS SessionManager, TLC

Symmetric == Permutations(Endpoints) \cup Permutations(Salts)
=============================================================================
