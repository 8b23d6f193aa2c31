---------------------------- MODULE RecordServices ----------------------------
(***************************************************************************)
(* The record services together with the support tickets, which are one of *)
(* them (supportTicketService) and have a module of their own because the  *)
(* platform's staff works on the same rows.  Services share no rows, so    *)
(* that it is enough to follow one at a time.                              *)
(***************************************************************************)
EXTENDS Records, SupportTickets

SupportService == "supportTicketService"

ServicesInit == Init /\ SupportInit

RecordStep == service # SupportService /\ Next /\ UNCHANGED supportVars
SupportStep ==
    /\ service = SupportService
    /\ \/ Ask /\ UNCHANGED supportVars
       \/ SupportNext /\ UNCHANGED vars

ServicesSpec == ServicesInit /\ [][RecordStep \/ SupportStep]_<<vars, supportVars>>
================================================================================
