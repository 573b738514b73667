--------------------------- MODULE MCDaemonProxy ---------------------------
\* The instances of DaemonProxy that TLC checks: see MCProxy_*.cfg.
EXTENDS DaemonProxy
=============================================================================
