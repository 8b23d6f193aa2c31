------------------------------ MODULE Numbering ------------------------------
(***************************************************************************)
(* What the numbers of the support tickets promise, however they are come  *)
(* to: the platform's are given out one after the other, those of the      *)
(* organizations once each and never ahead of the tickets there are, and   *)
(* no number is taken back or given to another ticket.                     *)
(***************************************************************************)
EXTENDS Naturals

VARIABLES
    platform,       \* the numbers the platform has given
    organizations,  \* those the organizations have given
    filed           \* how many tickets there are

vars == <<platform, organizations, filed>>

Init == platform = {} /\ organizations = {} /\ filed = 0

GiveNext ==
    /\ \E last \in 0..filed : platform = 1..last /\ platform' = 1..(last + 1)
    /\ filed' = filed + 1
    /\ UNCHANGED organizations

GiveFree ==
    /\ \E n \in (1..(filed + 1)) \ organizations : organizations' = organizations \cup {n}
    /\ filed' = filed + 1
    /\ UNCHANGED platform

Next == GiveNext \/ GiveFree
Spec == Init /\ [][Next]_vars
=============================================================================
