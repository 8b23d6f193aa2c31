------------------------- MODULE MCWebhookDelivery -------------------------
\* Instances of WebhookDelivery for TLC.
EXTENDS WebhookDelivery, TLC

\* Administrators are alike, and so are server instances.
Symmetry == Permutations(Admins) \cup Permutations(Sweepers)
=============================================================================
