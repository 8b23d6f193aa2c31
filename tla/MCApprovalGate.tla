--------------------------- MODULE MCApprovalGate ---------------------------
\* Instances of ApprovalGate for TLC.
EXTENDS ApprovalGate, TLC

\* Calls are alike, and so are the approvers (none is singled out).
GateSymmetry == Permutations(Calls) \cup Permutations(Approvers)
=============================================================================
