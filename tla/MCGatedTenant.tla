--------------------------- MODULE MCGatedTenant ---------------------------
\* Instances of GatedTenant for TLC.
EXTENDS GatedTenant, TLC

\* Approvers are alike, and so are their calls.
GatedSymmetry == Permutations(Calls) \cup Permutations(Approvers)
=============================================================================
