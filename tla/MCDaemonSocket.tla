--------------------------- MODULE MCDaemonSocket ---------------------------
\* The instance of DaemonSocket that TLC checks: see MCDaemonSocket_path.cfg.
EXTENDS DaemonSocket
=============================================================================
