---------------------------- MODULE ConcurrentCalls ----------------------------
(***************************************************************************)
(* Calls of an organization's users.  A handler looks its row up, awaits,  *)
(* and writes by id what it has worked out; other calls write in between.  *)
(* A call whose look-up or references fail changes nothing: left out.      *)
(***************************************************************************)
EXTENDS Integers, FiniteSets

CONSTANTS Callers, MaxCalls, MaxTime

VARIABLES
    calls,   \* what each caller is doing
    started, \* calls started so far
    now      \* the clock, in minutes

callVars == <<calls, started, now>>

Never == 0   \* a time that is null

(***************************************************************************)
(* A call: its operation, what it is about, and what it has read: the row  *)
(* of a ticket, the minutes of a pause, the overdue clocks and the time of *)
(* their list, a verdict and what it rests on.  given: the caller names    *)
(* what the code would fill in.  overtaken: another call has written since *)
(* this one has read.                                                      *)
(***************************************************************************)
Idle == [op |-> "idle", number |-> 0, milestone |-> "none", approver |-> "none",
         row |-> {}, minutes |-> 0, clocks |-> {}, time |-> Never,
         decision |-> "none", min |-> 0, approvals |-> {},
         given |-> FALSE, overtaken |-> FALSE]

InitCalls == calls = [c \in Callers |-> Idle] /\ started = 0 /\ now = 1

Busy(c) == calls[c].op # "idle"
Doing(c, op) == calls[c].op = op

Start(c, call) ==
    /\ ~Busy(c) /\ started < MaxCalls
    /\ calls' = [calls EXCEPT ![c] = call]
    /\ started' = started + 1 /\ now' = now

\* A write after which the call goes on with call.
WriteAnd(c, call) ==
    /\ calls' = [d \in Callers |->
                    IF d = c THEN call
                    ELSE IF Busy(d) THEN [calls[d] EXCEPT !.overtaken = TRUE] ELSE Idle]
    /\ UNCHANGED <<started, now>>
Write(c) == WriteAnd(c, Idle)

\* A read after which the call goes on, and an end that writes nothing.
ReadAnd(c, call) == calls' = [calls EXCEPT ![c] = call] /\ UNCHANGED <<started, now>>
End(c) == ReadAnd(c, Idle)

Tick == now < MaxTime /\ now' = now + 1 /\ UNCHANGED <<calls, started>>
================================================================================
