-------------------------- MODULE MCLifecycleLock --------------------------
\* The instances of LifecycleLock that TLC checks: see MCLock_*.cfg.
EXTENDS LifecycleLock
============================================================================
