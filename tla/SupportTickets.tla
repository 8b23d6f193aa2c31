---------------------------- MODULE SupportTickets ----------------------------
(***************************************************************************)
(* Support tickets, which the platform's staff and the organizations work  *)
(* on at the same time (services/saasadmin/support.service.ts and          *)
(* services/itsm/support.service.ts): their status with its two dates, and *)
(* their numbers.  A call of the staff reads the ticket and then writes    *)
(* what follows from the status it read; the organization's transitions    *)
(* ask for nothing but the ticket.  Tickets are never deleted.  Replies,   *)
(* assignees and the edited columns are data; one year's numbers are       *)
(* followed, since a create reads the year once.                           *)
(***************************************************************************)
EXTENDS Naturals, FiniteSets

CONSTANTS
    Tickets,                     \* ids of tickets, 1..n, given out in order
    Requests,                    \* requests under way
    TICKET_NUMBER_MAX_ATTEMPTS,
    MaxSupportCalls              \* calls started in all

ASSUME SupportAssumption ==
    /\ Tickets \subseteq Nat \ {0} /\ IsFiniteSet(Tickets)
    /\ TICKET_NUMBER_MAX_ATTEMPTS \in Nat \ {0}
    /\ MaxSupportCalls \in Nat

VARIABLES
    support,   \* the tickets
    work,      \* what each request is doing
    begun,     \* calls started so far
    failed     \* creates without a number: the series, and how many of it were made meanwhile

supportVars == <<support, work, begun, failed>>

RESOLVABLE_STATUSES == {"OPEN", "IN_PROGRESS", "PENDING", "REOPENED"}
REOPENABLE_STATUSES == {"RESOLVED", "CLOSED"}

(***************************************************************************)
(* A ticket.  series: numbered by the platform (SUP) or by an organization *)
(* (ST).  owned: it is an organization's.  torn: its status was written by *)
(* a call that had read another one.                                       *)
(***************************************************************************)
NotMade == [status |-> "none", resolvedAt |-> FALSE, closedAt |-> FALSE,
            series |-> "none", number |-> 0, owned |-> FALSE, torn |-> FALSE]
AtRest == [op |-> "none", ticket |-> 0, saw |-> "none", count |-> 0, attempt |-> 0,
           made |-> 0]

Filed == {t \in Tickets : support[t].status # "none"}
Of(series) == {t \in Filed : support[t].series = series}
Taken(series) == {support[t].number : t \in Of(series)}

Begin(a, call) ==
    /\ work[a] = AtRest /\ begun < MaxSupportCalls
    /\ work' = [work EXCEPT ![a] = call]
    /\ begun' = begun + 1
    /\ UNCHANGED <<support, failed>>
End(a) == work' = [work EXCEPT ![a] = AtRest]

-----------------------------------------------------------------------------
\* Mutation: the platform's count is not kept to its own prefix.
CountedAll(series) == Cardinality(Filed)

\* createTicket counts the year's tickets, nextTicketNumber all of them.
Counted(series) == IF series = "SUP" THEN Cardinality(Of("SUP")) ELSE Cardinality(Filed)
CountTickets(a) ==
    \E series \in {"SUP", "ST"} :
        Begin(a, [AtRest EXCEPT !.op = series, !.count = Counted(series),
                                !.made = Cardinality(Of(series))])

\* Mutation: a retry comes to the same number again.
NumberAgain(call) == call.count + 1

\* The number a create comes to, and how often it tries.
Number(call) == call.count + 1 + call.attempt
Attempts(series) == IF series = "SUP" THEN TICKET_NUMBER_MAX_ATTEMPTS ELSE 1

CreateTicket(a) ==
    LET call == work[a] IN
    /\ call.op \in {"SUP", "ST"} /\ Number(call) \notin Taken(call.op)
    /\ \E t \in Tickets \ Filed, owned \in IF call.op = "SUP" THEN BOOLEAN ELSE {TRUE} :
        /\ \A s \in Tickets \ Filed : t <= s
        /\ support' = [support EXCEPT ![t] =
                [NotMade EXCEPT !.status = "OPEN", !.series = call.op,
                                !.number = Number(call), !.owned = owned]]
    /\ End(a)
    /\ UNCHANGED <<begun, failed>>
\* The unique index refuses the number (P2002): the next one, while attempts are left.
NumberTaken(a) ==
    LET call == work[a] IN
    /\ call.op \in {"SUP", "ST"} /\ Number(call) \in Taken(call.op)
    /\ IF call.attempt + 1 < Attempts(call.op)
       THEN /\ work' = [work EXCEPT ![a].attempt = @ + 1]
            /\ UNCHANGED failed
       ELSE /\ End(a)
            /\ failed' = failed \cup
                    {[series |-> call.op, since |-> Cardinality(Of(call.op)) - call.made]}
    /\ UNCHANGED <<support, begun>>

-----------------------------------------------------------------------------
\* findTicketOrThrow, and the statuses that a call of the staff goes on with.
Accepts(op, status) ==
    CASE op = "assign" -> TRUE
      [] op = "reply" -> status # "CLOSED"
      [] op = "resolve" -> status \in RESOLVABLE_STATUSES
      [] op = "reopen" -> status \in REOPENABLE_STATUSES
FindTicket(a) ==
    \E t \in Filed, op \in {"assign", "reply", "resolve", "reopen"} :
        /\ Accepts(op, support[t].status)
        /\ Begin(a, [AtRest EXCEPT !.op = op, !.ticket = t, !.saw = support[t].status])

\* Mutation: an assignment or a reply moves any ticket on that is not closed.
MovesAny(op, saw) == op \in {"assign", "reply"} /\ saw # "CLOSED"
\* An assignment moves a new ticket on, a reply one that is new or waits.
Moves(op, saw) ==
    (op = "assign" /\ saw = "OPEN") \/ (op = "reply" /\ saw \in {"OPEN", "PENDING"})

\* Mutation: reopening leaves the date of the closing.
ReopenedDated(ticket) == [ticket EXCEPT !.status = "REOPENED", !.resolvedAt = FALSE, !.torn = FALSE]
Reopened(ticket) ==
    [ticket EXCEPT !.status = "REOPENED", !.resolvedAt = FALSE, !.closedAt = FALSE,
                   !.torn = FALSE]
Result(call, ticket) ==
    LET torn == ticket.status # call.saw IN
    CASE Moves(call.op, call.saw) ->
            [ticket EXCEPT !.status = "IN_PROGRESS", !.torn = torn]
      [] call.op = "resolve" ->
            [ticket EXCEPT !.status = "RESOLVED", !.resolvedAt = TRUE, !.torn = torn]
      [] call.op = "reopen" -> Reopened(ticket)
      [] OTHER -> ticket
WriteTicket(a) ==
    LET call == work[a] IN
    /\ call.op \in {"assign", "reply", "resolve", "reopen"}
    /\ support' = [support EXCEPT ![call.ticket] = Result(call, support[call.ticket])]
    /\ End(a)
    /\ UNCHANGED <<begun, failed>>

\* A request ends before its write, with an error or the server.
CutShort(a) ==
    /\ work[a] # AtRest
    /\ End(a)
    /\ UNCHANGED <<support, begun, failed>>

\* transition, which the organization's resolve, close and reopen share.
transition(ticket, status) ==
    CASE status = "RESOLVED" -> [ticket EXCEPT !.status = status, !.resolvedAt = TRUE, !.torn = FALSE]
      [] status = "CLOSED" -> [ticket EXCEPT !.status = status, !.closedAt = TRUE, !.torn = FALSE]
      [] status = "REOPENED" -> Reopened(ticket)
Transition ==
    /\ begun < MaxSupportCalls
    /\ \E t \in Filed, status \in {"RESOLVED", "CLOSED", "REOPENED"} :
        /\ support[t].owned
        /\ support' = [support EXCEPT ![t] = transition(support[t], status)]
    /\ begun' = begun + 1
    /\ UNCHANGED <<work, failed>>

SupportInit ==
    /\ support = [t \in Tickets |-> NotMade]
    /\ work = [a \in Requests |-> AtRest]
    /\ begun = 0 /\ failed = {}
SupportNext ==
    \/ Transition
    \/ \E a \in Requests :
        CountTickets(a) \/ CreateTicket(a) \/ NumberTaken(a)
        \/ FindTicket(a) \/ WriteTicket(a) \/ CutShort(a)
SupportSpec == SupportInit /\ [][SupportNext]_supportVars

-----------------------------------------------------------------------------
\* A resolved ticket has the date it was resolved at and a closed one that of its
\* closing, and one that is being worked on has neither, unless an assignment or a
\* reply wrote its status after another call had changed it: the lists and reports
\* that go by the status agree with those that go by the date.
DatesFollowStatus ==
    \A t \in Filed :
        /\ support[t].status = "RESOLVED" => support[t].resolvedAt
        /\ support[t].status = "CLOSED" => support[t].closedAt
        /\ support[t].status \in RESOLVABLE_STATUSES
              /\ (support[t].resolvedAt \/ support[t].closedAt) => support[t].torn

\* A ticket that is resolved or closed is worked on again only when somebody reopens
\* it, or by a call that had read it before that (replyToTicket, assignTicket).
DoneUntilReopened ==
    [][\A t \in Tickets :
        support[t].status \in REOPENABLE_STATUSES
        => \/ support'[t].status \in REOPENABLE_STATUSES \cup {"REOPENED"}
           \/ support'[t].torn]_supportVars

\* The platform's tickets are numbered 1 to n without a gap, although creates count
\* first and number later and each of them may try several numbers; and no
\* organization's number is above the number of tickets.
NumbersFollow ==
    /\ Taken("SUP") = 1..Cardinality(Of("SUP"))
    /\ \A n \in Taken("ST") : n <= Cardinality(Filed)

\* Counting, trying a number and trying the next one implements giving numbers out: each
\* ticket of the platform gets the number after the last one, in one step, whoever creates
\* at the same time, and no number moves or comes back (createTicket, nextTicketNumber).
Promised == INSTANCE Numbering WITH platform <- Taken("SUP"), organizations <- Taken("ST"),
                                    filed <- Cardinality(Filed)
ImplementsNumbering == Promised!Spec

\* A create fails for want of a number only when as many tickets of its series as it
\* has attempts were made since it counted them (TICKET_NUMBER_MAX_ATTEMPTS, or one).
RefusedByOthers == \A f \in failed : f.since >= Attempts(f.series)
===============================================================================
