----------------------------- MODULE MCAccounts -----------------------------
\* Instances of Accounts for TLC.
EXTENDS Accounts, TLC

\* Requests are alike.
CallSymmetry == Permutations(Calls)
=============================================================================
