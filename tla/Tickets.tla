-------------------------------- MODULE Tickets --------------------------------
(***************************************************************************)
(* Incidents, problems, changes and service requests: the operations of    *)
(* the four services over one kind of ticket.  Texts, references and       *)
(* comments, which no later step reads, are left out.                      *)
(*                                                                         *)
(* No operation asks for a status: each needs the ticket to be there when  *)
(* it is looked up, and then writes by id.                                 *)
(***************************************************************************)
EXTENDS SlaEngine

VARIABLES
    kind,      \* the service that is followed
    tickets    \* its rows, by number

ticketVars == <<kind, tickets>>

Operations == [
    incident |-> {"update", "delete", "assign", "escalate", "resolve", "reopen"},
    problem |-> {"update", "delete", "assign", "resolve"},
    change |-> {"update", "delete", "assign", "approve", "reject", "implement", "complete",
                "close", "rollback"},
    request |-> {"update", "delete", "assign", "approve", "reject", "fulfill", "cancel"}]

\* assignee: nobody, someone chosen by hand, or the lead of a matching team.
\* response, begun, ended and closed are firstResponseAt, actualStartAt, the end
\* (resolvedAt, actualEndAt, fulfilledAt) and closedAt.
NoTicket == [state |-> "none", statusKey |-> "none", approval |-> "PENDING",
             assignee |-> "nobody", response |-> Never, begun |-> Never, ended |-> Never,
             closed |-> Never, reopened |-> FALSE, escalations |-> 0]

InitTickets == kind \in DOMAIN Operations /\ tickets = [n \in Numbers |-> NoTicket]

\* The row that a call has read.
Before(call) == CHOOSE row \in call.row : TRUE

Exists(n) == tickets[n].state # "none"
NextFree == Cardinality({n \in Numbers : Exists(n)}) + 1

\* generateTicketNumber: one more than the tickets there are, deleted ones included;
\* no ticket has that number yet.  given: the caller names an assignee or a team.
CreateRead(c) ==
    /\ NextFree \in Numbers
    /\ \E byHand \in BOOLEAN : Start(c, [Idle EXCEPT !.op = "create", !.number = NextFree,
                                               !.given = byHand])
    /\ UNCHANGED <<clocks, due, ticketVars>>

\* The row, unless the number has been taken meanwhile (P2002).
Create(c) ==
    LET n == calls[c].number
        new == [NoTicket EXCEPT !.state = "live", !.statusKey = "new"]
    IN
    /\ Doing(c, "create")
    /\ IF Exists(n) THEN End(c) /\ UNCHANGED <<tickets, due>>
       ELSE /\ \E assignee \in IF calls[c].given THEN {"hand", "nobody"} ELSE {"nobody"} :
                tickets' = [tickets EXCEPT ![n] = [new EXCEPT !.assignee = assignee]]
            /\ due' = IF kind = "incident" THEN due \cup {n} ELSE due
            /\ IF kind = "incident" /\ ~calls[c].given
               THEN WriteAnd(c, [Idle EXCEPT !.op = "route", !.number = n, !.row = {new}])
               ELSE Write(c)
    /\ UNCHANGED <<kind, clocks>>

\* createIncident goes on: the lead of a team of the category's name, if there is one.
AutoAssign(c) ==
    /\ Doing(c, "route")
    /\ tickets' = [tickets EXCEPT
                    ![calls[c].number].assignee = "lead",
                    ![calls[c].number].response =
                        IF Before(calls[c]).response = Never THEN now ELSE Before(calls[c]).response]
    /\ Write(c)
    /\ UNCHANGED <<kind, clocks, due>>
NoTeam(c) ==
    /\ Doing(c, "route")
    /\ End(c)
    /\ UNCHANGED <<clocks, due, ticketVars>>

\* findIncidentOrThrow and its like.  given: the caller names the time himself.
Find(c) ==
    /\ \E n \in Numbers, op \in Operations[kind], given \in BOOLEAN :
        /\ tickets[n].state = "live"
        /\ given => op \in {"implement", "complete", "close"}
        /\ Start(c, [Idle EXCEPT !.op = op, !.number = n, !.row = {tickets[n]},
                              !.given = given])
    /\ UNCHANGED <<clocks, due, ticketVars>>

\* What input.time ?? before.time ?? now leaves.
KeptOrNow(call, time) == IF ~call.given /\ time # Never THEN time ELSE now

\* Mutation: the first response is dated by every assignment.
AssignedAnew(call, row, assignee) ==
    [row EXCEPT !.assignee = assignee,
                !.response = IF kind = "incident" THEN now ELSE @]

Assigned(call, row, assignee) ==
    [row EXCEPT !.assignee = assignee,
                !.response = IF kind = "incident" /\ Before(call).response = Never
                             THEN now ELSE @]

\* metadata is written as a whole, with the escalations that were read.
Escalated(call, row) == [row EXCEPT !.escalations = Before(call).escalations + 1]
Resolved(call, row) ==
    [row EXCEPT !.statusKey = "resolved", !.ended = now,
                !.response = IF kind = "incident" THEN KeptOrNow(call, Before(call).response)
                             ELSE @]
Reopened(row) ==
    [row EXCEPT !.statusKey = "reopened", !.ended = Never, !.closed = Never, !.reopened = TRUE]

\* Who a body may assign: somebody, nobody, or only a team.
Assignees(row) == {"hand", "nobody", row.assignee}

\* A body may name any status, replaces an incident's metadata, and assigns the rest.
Updated(row, status, escalations, assignee) ==
    [row EXCEPT !.statusKey = status, !.escalations = escalations, !.assignee = assignee]
Updates(row) ==
    {Updated(row, status, escalations, assignee) :
        status \in {"new", row.statusKey},
        escalations \in {row.escalations, IF kind = "incident" THEN 0 ELSE row.escalations},
        assignee \in IF kind = "incident" THEN {row.assignee} ELSE Assignees(row)}
Deleted(row) == [row EXCEPT !.state = "deleted"]

Decided(row, decision, status) == [row EXCEPT !.approval = decision, !.statusKey = status]
Implemented(call, row) ==
    [row EXCEPT !.statusKey = "implementing", !.begun = KeptOrNow(call, Before(call).begun)]
Completed(call, row) ==
    [row EXCEPT !.statusKey = IF call.op = "close" THEN "closed" ELSE "completed",
                !.ended = KeptOrNow(call, Before(call).ended),
                !.closed = IF call.op = "close" THEN now ELSE Before(call).closed]
RolledBack(row) == [row EXCEPT !.statusKey = "rolled_back", !.ended = now]
Fulfilled(row) == [row EXCEPT !.statusKey = "fulfilled", !.ended = now]
Cancelled(row) == [row EXCEPT !.statusKey = "cancelled", !.closed = now]

\* The rows a call may leave.
Outcomes(call, row) ==
    CASE call.op = "assign" -> {Assigned(call, row, who) : who \in Assignees(row)}
      [] call.op = "escalate" -> {Escalated(call, row)}
      [] call.op = "resolve" -> {Resolved(call, row)}
      [] call.op = "reopen" -> {Reopened(row)}
      [] call.op = "update" -> Updates(row)
      [] call.op = "delete" -> {Deleted(row)}
      [] call.op = "approve" -> {Decided(row, "APPROVED", "approved")}
      [] call.op = "reject" -> {Decided(row, "REJECTED", "rejected")}
      [] call.op = "implement" -> {Implemented(call, row)}
      [] call.op \in {"complete", "close"} -> {Completed(call, row)}
      [] call.op = "rollback" -> {RolledBack(row)}
      [] call.op = "fulfill" -> {Fulfilled(row)}
      [] call.op = "cancel" -> {Cancelled(row)}

Apply(c) ==
    /\ calls[c].op \in Operations[kind]
    /\ \E row \in Outcomes(calls[c], tickets[calls[c].number]) :
        tickets' = [tickets EXCEPT ![calls[c].number] = row]
    /\ Write(c)
    /\ UNCHANGED <<kind, clocks, due>>

TicketStep(c) ==
    CreateRead(c) \/ Create(c) \/ AutoAssign(c) \/ NoTeam(c) \/ Find(c) \/ Apply(c)
================================================================================
