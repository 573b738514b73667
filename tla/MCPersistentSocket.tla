------------------------- MODULE MCPersistentSocket -------------------------
\* The instances of PersistentSocket that TLC checks: see MCSocket_*.cfg.
EXTENDS PersistentSocket
=============================================================================
