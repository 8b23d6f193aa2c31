----------------------------- MODULE AtLeastOnce -----------------------------
(***************************************************************************)
(* What a queue of outbound messages promises, whoever works on it: a      *)
(* message that was accepted stays owed until there is a reason to stop,   *)
(* namely an answer, Limit attempts, or an excuse not to try. A message    *)
(* may be owed again later, but what was attempted is never forgotten.     *)
(***************************************************************************)
EXTENDS Naturals

CONSTANTS Messages, Limit

VARIABLES
    place,     \* "absent", "owed" or "out"
    tried,     \* attempts made
    answered,  \* some attempt was answered
    excused    \* there was once an excuse not to try

vars == <<place, tried, answered, excused>>

Init ==
    /\ place = [m \in Messages |-> "absent"]
    /\ tried = [m \in Messages |-> 0]
    /\ answered = [m \in Messages |-> FALSE]
    /\ excused = [m \in Messages |-> FALSE]

Accept(m) ==
    /\ place[m] = "absent"
    /\ place' = [place EXCEPT ![m] = "owed"]
    /\ UNCHANGED <<tried, answered, excused>>

\* An attempt may come late, when the message is out already.
Attempt(m) ==
    /\ place[m] # "absent"
    /\ tried' = [tried EXCEPT ![m] = @ + 1]
    /\ \E a \in BOOLEAN : answered' = [answered EXCEPT ![m] = @ \/ a]
    /\ UNCHANGED <<place, excused>>

Reason(m) == answered[m] \/ excused[m] \/ tried[m] >= Limit

Stop(m) ==
    /\ place[m] = "owed"
    /\ Reason(m)
    /\ place' = [place EXCEPT ![m] = "out"]
    /\ UNCHANGED <<tried, answered, excused>>

Excuse(m) ==
    /\ place[m] # "absent"
    /\ place' = [place EXCEPT ![m] = "out"]
    /\ excused' = [excused EXCEPT ![m] = TRUE]
    /\ UNCHANGED <<tried, answered>>

Reopen(m) ==
    /\ place[m] = "out"
    /\ place' = [place EXCEPT ![m] = "owed"]
    /\ UNCHANGED <<tried, answered, excused>>

Next ==
    \E m \in Messages :
        Accept(m) \/ Attempt(m) \/ Stop(m) \/ Excuse(m) \/ Reopen(m)

Spec == Init /\ [][Next]_vars
=============================================================================
