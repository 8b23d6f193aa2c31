----------------------------- MODULE MCServiceDesk -----------------------------
\* Instances of ServiceDesk for TLC.
EXTENDS ServiceDesk, TLC

\* A service level of one minute for the response and one for the resolution, so
\* that a sweep may find both overdue.
OneMinuteEach == [response |-> 1, resolution |-> 1]

\* Callers are alike, and so are approvers.
Alike == Permutations(Callers) \cup Permutations(Approvers)
================================================================================
