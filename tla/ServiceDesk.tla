------------------------------ MODULE ServiceDesk ------------------------------
(***************************************************************************)
(* The service desk of an organization: the tickets of one kind with the   *)
(* SLA clocks of incidents, or an approval request, and users whose calls  *)
(* interleave.                                                             *)
(***************************************************************************)
EXTENDS Tickets, TenantApprovals

VARIABLE desk   \* what the users work on

vars == <<callVars, clocks, due, ticketVars, approvalVars, desk>>

Init ==
    /\ InitCalls /\ InitClocks /\ InitTickets /\ InitApprovals
    /\ desk \in {"tickets", "approvals"}
    /\ desk = "approvals" => kind = "request"
    /\ desk = "tickets" => policy = 1

DeskStep ==
    /\ desk = "tickets"
    /\ \/ \E c \in Callers : TicketStep(c)
       \/ kind = "incident"
          /\ \/ \E c \in Callers : ClockStep(c)
             \/ \E n \in Numbers : StartClocks(n) \/ NoClocks(n)
          /\ UNCHANGED ticketVars
       \/ Tick /\ UNCHANGED <<clocks, due, ticketVars>>
    /\ UNCHANGED <<approvalVars, desk>>

ApprovalsStep ==
    /\ desk = "approvals"
    /\ Ask \/ ChangePolicy \/ \E c \in Callers : ApprovalStep(c)
    /\ UNCHANGED <<clocks, due, ticketVars, desk>>

Next == DeskStep \/ ApprovalsStep

Spec == Init /\ [][Next]_vars

(***************************************************************************)
(* Properties                                                              *)
(***************************************************************************)

\* A step that ends or continues a call which another write has overtaken.
ByOvertaken == \E c \in Callers : calls[c].overtaken /\ calls'[c] # calls[c]

\* The times and the choice of one ticket, in a step.
FirstTimes(n) ==
    LET old == tickets[n]
        new == tickets'[n]
    IN  \/ old.response # Never /\ new.response # old.response
        \/ old.begun # Never /\ new.begun # old.begun
        \/ old.assignee = "hand" /\ new.assignee = "lead"
        => ByOvertaken \/ \E c \in Callers : calls[c].given /\ calls'[c] # calls[c]

\* The first response to an incident and the start of a change are dated once
\* (before.firstResponseAt ? {} : ..., before.actualStartAt ?? new Date()), and a
\* choice made by hand is not replaced by the automatic one, except by a call that
\* read the ticket before another call wrote it, or with a start that is given.
FirstTimesKept == [][\A n \in Numbers : FirstTimes(n)]_vars

Turns == {<<"none", "RUNNING">>, <<"RUNNING", "PAUSED">>, <<"PAUSED", "RUNNING">>,
          <<"RUNNING", "MET">>, <<"RUNNING", "BREACHED">>}
ClockTurns(k) ==
    LET old == clocks[k]
        new == clocks'[k]
    IN  /\ new.status # old.status => <<old.status, new.status>> \in Turns \/ ByOvertaken
        /\ new.breachedAt # old.breachedAt => old.deadline < new.breachedAt

\* A clock runs, is paused and resumed, and is met or breached while it runs, and
\* a breached one was past its deadline (detectSlaBreaches and the look-ups by
\* status), except by a call that had read the clock before another call wrote it.
ClocksTurnInOrder == [][\A k \in Clocks : ClockTurns(k)]_vars

\* An approved request had, at some time each, the approval of as many people as
\* its policy has asked for at the least, however their decisions interleave and
\* however often one of them decides (decide).
ApprovedByEnough == request = "APPROVED" => Cardinality(approved) >= lowest
================================================================================
