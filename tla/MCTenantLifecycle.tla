------------------------- MODULE MCTenantLifecycle -------------------------
\* Instances of TenantLifecycle for TLC.
EXTENDS TenantLifecycle, TLC

\* Requests are alike.
TenantSymmetry == Permutations(Ops)
=============================================================================
