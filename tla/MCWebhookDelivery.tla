------------------------- MODULE MCWebhookDelivery -------------------------
EXTENDS WebhookDelivery
=============================================================================
