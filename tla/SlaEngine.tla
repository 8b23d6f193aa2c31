------------------------------- MODULE SlaEngine -------------------------------
(***************************************************************************)
(* The SLA clocks of incidents (services/itsm/slaEngine.service.ts): two   *)
(* for an incident, for the response and for the resolution.  The events   *)
(* that follow each write are a log that no code reads: left out.          *)
(***************************************************************************)
EXTENDS ConcurrentCalls

CONSTANTS
    Numbers,   \* the numbers tickets may get, 1..n
    Target     \* the minutes a service level allows for each milestone

ASSUME SlaAssumption ==
    /\ Numbers \subseteq Nat \ {0} /\ Target \in [{"response", "resolution"} -> Nat]

VARIABLES
    clocks,    \* the clock of each incident and milestone
    due        \* incidents whose clocks have not been started yet

Milestones == DOMAIN Target
Clocks == Numbers \X Milestones

NoClock == [status |-> "none", deadline |-> Never, pausedAt |-> Never,
            pausedDuration |-> 0, breachedAt |-> Never]

InitClocks == clocks = [k \in Clocks |-> NoClock] /\ due = {}

ClockIs(k, status) == clocks[k].status = status

\* createSlaInstancesForIncident, which createIncident does not wait for.  A level
\* without minutes for a milestone makes a clock without a deadline.
StartClocks(n) ==
    /\ n \in due
    /\ clocks' = [k \in Clocks |->
                    IF k[1] # n THEN clocks[k]
                    ELSE [NoClock EXCEPT
                            !.status = "RUNNING",
                            !.deadline = IF Target[k[2]] = 0 THEN Never
                                         ELSE now + Target[k[2]]]]
    /\ due' = due \ {n}
    /\ UNCHANGED callVars

\* No assignment of a policy is active, or it has no level for the priority, or
\* the transaction fails.
NoClocks(n) ==
    /\ n \in due
    /\ due' = due \ {n}
    /\ UNCHANGED <<clocks, callVars>>

\* The look-ups of completeResponseSla, pauseSlaClock and resumeSlaClock; a pause is dated, and
\* a pause that ends is measured, when the clock is found.
AboutClock(op, k) == [Idle EXCEPT !.op = op, !.number = k[1], !.milestone = k[2]]
FindClock(c) ==
    /\ \E k \in Clocks :
        \/ ClockIs(k, "RUNNING") /\ k[2] = "response" /\ Start(c, AboutClock("complete", k))
        \/ ClockIs(k, "RUNNING") /\ Start(c, [AboutClock("pause", k) EXCEPT !.time = now])
        \/ /\ ClockIs(k, "PAUSED")
           /\ Start(c, [AboutClock("resume", k) EXCEPT !.minutes = now - clocks[k].pausedAt])
    /\ UNCHANGED <<clocks, due>>

Found(c) == clocks[<<calls[c].number, calls[c].milestone>>]
SetClock(c, clock) ==
    /\ clocks' = [clocks EXCEPT ![<<calls[c].number, calls[c].milestone>>] = clock]
    /\ Write(c)
    /\ due' = due

CompleteResponse(c) ==
    /\ Doing(c, "complete")
    /\ SetClock(c, [Found(c) EXCEPT !.status = "MET"])

Pause(c) ==
    /\ Doing(c, "pause")
    /\ SetClock(c, [Found(c) EXCEPT !.status = "PAUSED", !.pausedAt = calls[c].time])

\* The deadline stays where it was.
Resume(c) ==
    /\ Doing(c, "resume")
    /\ SetClock(c, [Found(c) EXCEPT !.status = "RUNNING", !.pausedAt = Never,
                                    !.pausedDuration = @ + calls[c].minutes])

\* Mutation: the sweep lists every clock whose deadline has passed.
OverdueOfAnyStatus == {k \in Clocks : clocks[k].deadline # Never /\ clocks[k].deadline < now}

\* detectSlaBreaches: the list of a sweep, and then one write after the other.
Overdue ==
    {k \in Clocks :
        ClockIs(k, "RUNNING") /\ clocks[k].deadline # Never /\ clocks[k].deadline < now}

ListOverdue(c) ==
    /\ Start(c, [Idle EXCEPT !.op = "breach", !.clocks = Overdue, !.time = now])
    /\ UNCHANGED <<clocks, due>>

MarkBreached(c) ==
    /\ Doing(c, "breach")
    /\ \E k \in calls[c].clocks :
        /\ clocks' = [clocks EXCEPT ![k].status = "BREACHED", ![k].breachedAt = calls[c].time]
        /\ WriteAnd(c, [calls[c] EXCEPT !.clocks = @ \ {k}])
    /\ due' = due

EndSweep(c) ==
    /\ Doing(c, "breach") /\ calls[c].clocks = {}
    /\ End(c)
    /\ UNCHANGED <<clocks, due>>

ClockStep(c) ==
    \/ FindClock(c) \/ CompleteResponse(c) \/ Pause(c) \/ Resume(c)
    \/ ListOverdue(c) \/ MarkBreached(c) \/ EndSweep(c)
================================================================================
