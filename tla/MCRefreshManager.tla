-------------------------- MODULE MCRefreshManager --------------------------
\* Model-checking instances of RefreshManager.
EXTENDS RefreshManager
=============================================================================
