------------------------------- MODULE MCRecords -------------------------------
\* One service at a time, three rows of it and one row that may own them, two
\* values, two callers and four calls; or four support tickets, two requests
\* and five calls, a create of the platform having two attempts, so that it can
\* run out of them.  Callers are alike, and so are requests.
EXTENDS RecordServices, TLC

Alike == Permutations(Callers) \cup Permutations(Requests)
================================================================================
