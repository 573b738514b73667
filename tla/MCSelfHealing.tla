--------------------------- MODULE MCSelfHealing ---------------------------
\* The instances of SelfHealingClient that TLC checks: the constants are given
\* by the MCSelfHealing_*.cfg files, calls as model values.
EXTENDS SelfHealingClient
=============================================================================
