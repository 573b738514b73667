------------------------------- MODULE MCInbox -------------------------------
\* The instances of Inbox that TLC checks: see MCInbox_*.cfg.
EXTENDS Inbox
=============================================================================
