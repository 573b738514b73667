---------------------------- MODULE MCAgentLife ----------------------------
\* The instance of AgentLife that TLC checks: see MCLife_calls.cfg.
EXTENDS AgentLife
CONSTANTS c1, c2, s1
============================================================================
