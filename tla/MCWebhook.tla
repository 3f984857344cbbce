------------------------------ MODULE MCWebhook ------------------------------
(* Small instances of WebhookDelivery for TLC.                             *)
EXTENDS WebhookDelivery

\* Both endpoints listen to the first event, one of them to any other.
CONSTANTS e1, p1
MCListens == {<<e, p>> \in Events \X Endpoints : e = e1 \/ p = p1}
=============================================================================
