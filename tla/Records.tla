-------------------------------- MODULE Records --------------------------------
(***************************************************************************)
(* The record services of an organization: one service and one of its      *)
(* checks, its rows and the rows that own them, and callers whose creates, *)
(* updates and deletes each read first and write later.                    *)
(*                                                                         *)
(* A call first makes the checks of its handler (findOrThrow, validate,    *)
(* beforeDelete, mapInput) and then writes by id.  Nothing holds the rows  *)
(* in between, so that what the checks saw may have changed.  A call the   *)
(* checks refuse changes nothing and is left out.                          *)
(***************************************************************************)
EXTENDS OrganizationRecords, FiniteSets, Integers

CONSTANTS
    Rows,      \* ids of the service's rows, 1..n, given out in order
    Uppers,    \* ids of the rows that own them, when another service keeps those
    Keys,      \* values of the checked columns, 1..k
    Numbers,   \* values of a generated one, 1..n with n above the rows and callers
    Callers,
    MaxCalls   \* calls started in all

ASSUME RecordsAssumption ==
    /\ Rows \subseteq Nat \ {0} /\ Keys \cup Numbers \subseteq Nat \ {0}
    /\ Uppers \subseteq Nat \ {0} /\ Uppers \cap Rows = {}
    /\ MaxCalls \in Nat

VARIABLES
    service,   \* the name of the service
    check,     \* the check of it that is followed
    rows,      \* the rows of the service and the rows that own them
    calls,     \* what each caller is doing
    started,   \* calls started so far
    refused,   \* writes that an index refused, with what their call had seen
    unanswered \* the part of the contract that the last request failed on

vars == <<service, check, rows, calls, started, refused, unanswered>>

NoRow == 0
NoKey == 0
NoCheck == Check({}, "stored")
Contract == Contracts[service]

(***************************************************************************)
(* A row.  torn: it was last written by a call that another write had      *)
(* overtaken.  named: its value came from an update that named only part   *)
(* of the columns.  claimed: a plain create or update made it the default. *)
(* Its state is none, live, deleted (softly) or gone.                      *)
(***************************************************************************)
NoneYet == [state |-> "none", key |-> NoKey, parent |-> NoRow, default |-> FALSE,
            torn |-> FALSE, named |-> FALSE, claimed |-> FALSE]

Idle == [op |-> "idle", row |-> NoRow, key |-> NoKey, parent |-> NoRow, default |-> FALSE,
         partly |-> FALSE, phase |-> "idle", seen |-> {}, overtaken |-> FALSE]

Live(r) == rows[r].state = "live"
Stored(r) == rows[r].state \in {"live", "deleted"}

\* A checked value, which is one owner's alone where the service says so.
Value(parent, key) == <<IF Contract.within THEN parent ELSE NoRow, key>>

\* Mutation: only rows that are not deleted are read.
HoldersLive(own, parent, key) ==
    {r \in Rows \ {own} :
        key # NoKey /\ Live(r) /\ Value(rows[r].parent, rows[r].key) = Value(parent, key)}

(***************************************************************************)
(* assertUnique, assertUniqueCode and the duplicate checks written by      *)
(* hand: the rows other than the row itself that hold the value.           *)
(***************************************************************************)
Holders(own, parent, key) ==
    {r \in Rows \ {own} :
        /\ key # NoKey
        /\ IF check.reads = "live" THEN Live(r) ELSE Stored(r)
        /\ Value(rows[r].parent, rows[r].key) = Value(parent, key)}

\* The unique index over the checked columns, where the table has one.
Indexed == check.columns \in Contract.table.unique
Clashes(own, parent, key) ==
    Indexed /\ key # NoKey
    /\ \E r \in Rows \ {own} :
        Stored(r) /\ Value(rows[r].parent, rows[r].key) = Value(parent, key)

\* generateTicketNumber and generateUniqueSlug: from one more than the rows there
\* are (a slug from its own base), the next value that no row holds.
NextNumber ==
    LET count == Cardinality({r \in Rows : Stored(r)})
        free == {n \in Numbers : n > count /\ Holders(NoRow, NoRow, n) = {}}
    IN  {n \in free : \A m \in free : n <= m}

NewKeys == IF check = NoCheck THEN {NoKey}
           ELSE IF Contract.numbered THEN NextNumber ELSE Keys

\* Mutation: the look-up does not ask for deletedAt: null.
OwnerAcceptedDeleted(r, parent) ==
    parent # NoRow /\ Contract.asserted # "never"
    => Stored(parent) /\ (parent # r \/ Contract.itself)

\* The rows that may own a row, and the look-up of the one given.
Owners == CASE Contract.parent = "own" -> Rows
            [] Contract.parent = "other" -> Uppers
            [] OTHER -> {}
OwnerChoices == IF Contract.by \in Contract.table.needed THEN Owners ELSE Owners \cup {NoRow}
OwnerAccepted(r, parent) ==
    parent # NoRow /\ Contract.asserted # "never"
    => Live(parent) /\ (parent # r \/ Contract.itself)

Children(r) == {s \in Rows : Live(s) /\ rows[s].parent = r}
Defaults == IF Contract.default = "none" THEN {FALSE} ELSE BOOLEAN

Start(c, call) ==
    /\ calls[c] = Idle /\ started < MaxCalls
    /\ calls' = [calls EXCEPT ![c] = call]
    /\ started' = started + 1
    /\ unanswered' = {}
    /\ UNCHANGED <<service, check, rows, refused>>

Call(op, r) == [Idle EXCEPT !.op = op, !.row = r, !.phase = "checked"]

Free == {r \in Rows : rows[r].state = "none" /\ \A c \in Callers : calls[c].row # r}

Create(c) ==
    \E r \in Free, key \in NewKeys, parent \in OwnerChoices, default \in Defaults :
        /\ \A s \in Free : r <= s
        /\ Holders(r, parent, key) = {} /\ OwnerAccepted(r, parent)
        /\ Start(c, [Call("create", r) EXCEPT
                        !.key = key, !.parent = parent, !.default = default])

\* createCustomerContact: a deleted row with the value is taken over.
Revive(c) ==
    \E parent \in Uppers, key \in Keys :
        /\ Contract.revives /\ OwnerAccepted(NoRow, parent)
        /\ \E r \in Holders(NoRow, parent, key) :
            /\ \A s \in Holders(NoRow, parent, key) : rows[s].state = "deleted"
            /\ Start(c, Call("revive", r))

\* Updates of a row that findOrThrow finds, one changed part at a time.
Rekey(c) ==
    \E r \in Rows, key \in Keys, partly \in {Contract.partly, FALSE} :
        /\ Live(r) /\ check.columns \cap Changed(Contract) # {}
        /\ ~Contract.numbered /\ key # rows[r].key
        /\ partly \/ Holders(r, rows[r].parent, key) = {}
        /\ Contract.asserted = "always" => OwnerAccepted(r, rows[r].parent)
        /\ Start(c, [Call("rekey", r) EXCEPT
                        !.key = key, !.partly = partly])

Reparent(c) ==
    \E r \in Rows, parent \in OwnerChoices :
        /\ Live(r) /\ parent # rows[r].parent /\ Contract.by \in Changed(Contract)
        /\ OwnerAccepted(r, parent)
        /\ Contract.within => Holders(r, parent, rows[r].key) = {}
        /\ Start(c, [Call("reparent", r) EXCEPT !.parent = parent])

Flag(c) ==
    \E r \in Rows :
        /\ Live(r) /\ Contract.default # "none" /\ ~rows[r].default
        /\ Start(c, [Call("flag", r) EXCEPT !.default = TRUE])

SetDefault(c) ==
    \E r \in Rows :
        /\ Live(r) /\ Contract.default = "chosen"
        /\ Start(c, [Call("setDefault", r) EXCEPT !.default = TRUE])

\* remove and beforeDelete; the owner's own service has the same guard.
Remove(c) ==
    \E r \in Rows :
        /\ Live(r) /\ Contract.removed
        /\ Contract.parent = "own" /\ Contract.guarded => Children(r) = {}
        /\ Start(c, Call("remove", r))
RemoveUpper(c) ==
    \E u \in Uppers :
        /\ Live(u) /\ Contract.parent = "other"
        /\ Contract.guarded => Children(u) = {}
        /\ Start(c, Call("removeUpper", u))

\* Mutation: a write that makes its row the default leaves the other ones.
ClearsWhenChosen(call) == call.default /\ call.op = "setDefault"

(***************************************************************************)
(* A transaction that clears the default of the other rows and then sets   *)
(* one.  Under READ COMMITTED the clearing statement finds the rows that   *)
(* are the default when it starts; what it writes shows at the commit.     *)
(***************************************************************************)
Clears(call) ==
    call.default /\ (call.op = "setDefault" \/ Contract.default = "kept")
FindDefaults(c) ==
    /\ calls[c].phase = "checked" /\ Clears(calls[c])
    /\ calls' = [calls EXCEPT ![c].phase = "found",
                              ![c].seen = {r \in Rows :
                                  /\ IF Contract.default = "kept" THEN Live(r) ELSE Stored(r)
                                  /\ rows[r].default}]
    /\ unanswered' = {}
    /\ UNCHANGED <<service, check, rows, started, refused>>

\* The row a call leaves, and the rows whose default it clears.
Written(call) ==
    LET row == rows[call.row] IN
    CASE call.op = "create" ->
            [NoneYet EXCEPT !.state = "live", !.key = call.key, !.parent = call.parent,
                            !.default = call.default, !.torn = call.overtaken,
                            !.claimed = call.default /\ Contract.default = "chosen"]
      [] call.op = "revive" ->
            [row EXCEPT !.state = "live", !.torn = @ \/ call.overtaken]
      [] call.op = "rekey" ->
            [row EXCEPT !.key = call.key, !.torn = @ \/ call.overtaken, !.named = call.partly]
      [] call.op = "reparent" ->
            [row EXCEPT !.parent = call.parent, !.torn = @ \/ call.overtaken]
      [] call.op \in {"flag", "setDefault"} ->
            [row EXCEPT !.default = TRUE, !.torn = @ \/ call.overtaken,
                        !.claimed = call.op = "flag" /\ Contract.default = "chosen"]
      [] OTHER ->
            [row EXCEPT !.state = IF Contract.soft THEN "deleted" ELSE "gone",
                        !.torn = @ \/ call.overtaken]
Cleared(call) == IF Clears(call) THEN call.seen \ {call.row} ELSE {}

Refused(call) ==
    /\ call.op \in {"create", "rekey", "reparent"} /\ rows[call.row].state # "gone"
    /\ Clashes(call.row, Written(call).parent, Written(call).key)

(***************************************************************************)
(* The write: refused by an index (P2002), lost because a row deleted for  *)
(* good is not found (P2025), or made; every other call has been overtaken *)
(* then.                                                                   *)
(***************************************************************************)
Write(c) ==
    LET call == calls[c] IN
    /\ call.phase = IF Clears(call) THEN "found" ELSE "checked"
    /\ IF Refused(call) THEN
            /\ refused' = refused \cup
                    {[overtaken |-> call.overtaken, partly |-> call.partly,
                      narrow |-> check.reads = "live"]}
            /\ calls' = [calls EXCEPT ![c] = Idle]
            /\ rows' = rows
       ELSE /\ rows' = IF rows[call.row].state = "gone" THEN rows
                       ELSE [r \in DOMAIN rows |->
                                IF r = call.row THEN Written(call)
                                ELSE IF r \in Cleared(call)
                                THEN [rows[r] EXCEPT !.default = FALSE]
                                ELSE rows[r]]
            /\ calls' = [d \in Callers |->
                            IF d = c THEN Idle
                            ELSE IF calls[d] = Idle THEN Idle
                            ELSE [calls[d] EXCEPT !.overtaken = TRUE]]
            /\ refused' = refused
    /\ unanswered' = {}
    /\ UNCHANGED <<service, check, started>>

(***************************************************************************)
(* What the routes of a service offer: the searches, sorts, filters and    *)
(* orders of its list, the fields its bodies let through and the columns   *)
(* its operations set.  Prisma refuses a request that names a column the   *)
(* table has not, compares a column that is not text with a text, or makes *)
(* a row without a column it needs.                                        *)
(***************************************************************************)
Offers ==
    LET s == Contract IN
    {<<"list", f>> : f \in s.search \cup s.filter \cup s.status}
        \cup {<<"sort", f>> : f \in s.sort \cup {s.order}}
        \cup {<<"write", f>> : f \in Created(s) \cup Changed(s)}
        \cup {<<"need", f>> : f \in IF HasCreate(s) THEN s.table.needed ELSE {}}
Answered(offer) ==
    LET s == Contract IN
    CASE offer[1] = "list" -> offer[2] \in s.table.text
      [] offer[1] = "need" -> offer[2] \in s.create.required \cup s.supplied
      [] OTHER -> offer[2] \in s.table.columns
Ask ==
    /\ started = 0
    /\ \E offer \in Offers :
        unanswered' = IF Answered(offer) THEN {} ELSE {offer}
    /\ UNCHANGED <<service, check, rows, calls, started, refused>>

Init ==
    /\ service \in DOMAIN Contracts
    /\ check \in IF Contract.checks = {} THEN {NoCheck} ELSE Contract.checks
    /\ rows = [r \in Rows \cup Uppers |->
                IF r \in Uppers /\ Contract.parent = "other"
                THEN [NoneYet EXCEPT !.state = "live"] ELSE NoneYet]
    /\ calls = [c \in Callers |-> Idle]
    /\ started = 0 /\ refused = {} /\ unanswered = {}

Next ==
    \/ Ask
    \/ \E c \in Callers :
        \/ Create(c) \/ Revive(c) \/ Rekey(c) \/ Reparent(c)
        \/ Flag(c) \/ SetDefault(c) \/ Remove(c) \/ RemoveUpper(c)
        \/ FindDefaults(c) \/ Write(c)

Spec == Init /\ [][Next]_vars

(***************************************************************************)
(* Properties                                                              *)
(***************************************************************************)

\* Requests that the code at hand makes the database refuse: two fields that
\* customFieldService names and the status of two services are not columns, and
\* a filter on a flag arrives as a text.
KnownUnanswered ==
    {<<"customFieldService", <<use, f>>>> : use \in {"list", "sort"}, f \in {"label", "sortOrder"}}
        \cup {<<s, <<"list", "status">>>> : s \in {"ciRelationshipService", "businessCalendarService"}}
        \cup {<<"announcementService", <<"list", "pinned">>>>,
              <<"serviceDeskQueueService", <<"list", "isDefault">>>>}
        \cup {<<s, <<"list", "isEnabled">>>> :
                s \in {"automationRuleService", "notificationTemplateService",
                       "notificationRuleService", "routingRuleService",
                       "escalationRuleService"}}

\* Apart from those, every list that a route offers is answered, and every
\* body that a validator lets through, with what the service adds to it, is a
\* row the table takes (createItsmCrudService passes both on as they are).
NothingOfferedFails == \A offer \in unanswered : <<service, offer>> \in KnownUnanswered

\* Two live rows share a checked value, and an index refuses a value the check
\* found free, only after another call's write came between the check and the
\* write; otherwise the check was told only part of the value, or did not read
\* the deleted rows that the index keeps (assertUnique and its like).
KeysApart ==
    /\ \A r, s \in Rows :
        r # s /\ Live(r) /\ Live(s) /\ rows[r].key # NoKey
              /\ Value(rows[r].parent, rows[r].key) = Value(rows[s].parent, rows[s].key)
        => \E t \in {r, s} : rows[t].torn \/ rows[t].named
    /\ \A w \in refused : w.overtaken \/ w.partly \/ w.narrow

\* Where both sides look, a live row's owner is live, unless one of the two was
\* written after another call had overtaken it (validate and beforeDelete).
ChildrenKeepParents ==
    Contract.guarded /\ Contract.asserted # "never" =>
        \A r \in Rows :
            Live(r) /\ rows[r].parent # NoRow /\ ~Live(rows[r].parent)
            => rows[r].torn \/ rows[rows[r].parent].torn

\* There is one default row, unless a plain create or update claimed it too, or
\* the transaction that made one the default was overtaken (setDefault).
DefaultStandsAlone ==
    \A r, s \in Rows :
        r # s /\ Live(r) /\ Live(s) /\ rows[r].default /\ rows[s].default
        => \E t \in {r, s} : rows[t].torn \/ rows[t].claimed
================================================================================
