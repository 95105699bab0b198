----------------------------- MODULE MCWebhooks -----------------------------
EXTENDS Webhooks

CONSTANTS e1, e2

SubscribedHere == [e \in Endpoint |-> IF e = e1 THEN {"stop.skipped"} ELSE {}]
=============================================================================
