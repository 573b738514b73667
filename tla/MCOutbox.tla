------------------------------ MODULE MCOutbox ------------------------------
\* The instances of OutboxDrainer that TLC checks: the constants are given by
\* the MCOutbox_*.cfg files, processes and bodies as model values.
EXTENDS OutboxDrainer
=============================================================================
