--------------------------- MODULE MCDeliveryQueue ---------------------------
\* The instances of DeliveryQueue that TLC checks: see MCDelivery_*.cfg.
EXTENDS DeliveryQueue
=============================================================================
