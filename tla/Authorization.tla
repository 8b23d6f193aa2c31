---------------------------- MODULE Authorization ----------------------------
(***************************************************************************)
(* Who holds which role on one side of the system, the platform's staff    *)
(* or the members of one organization, and the cache of what a user may    *)
(* do (services/saasadmin/staff.service.ts and roles.service.ts,           *)
(* services/tenantadmin/users.service.ts and roles.service.ts,             *)
(* services/auth/tenant-access.service.ts, api/middleware/authenticate.ts).*)
(* A call takes a step per statement it awaits; any step may be its last.  *)
(* The cache is one store, as with Redis.                                  *)
(***************************************************************************)
EXTENDS Naturals, FiniteSets

CONSTANTS Users, Calls, Roles,
          Grantable,    \* the permission codes roles may grant
          AdminRole,    \* platform-owner, or org-admin: the system role that is guarded
          MaxChanges    \* bound: how many changes begin in one behaviour
ASSUME AuthorizationAssumption == AdminRole \in Roles /\ MaxChanges \in Nat

VARIABLES realm,       \* "platform" or "tenant", for good
          status,      \* of a member; "NONE" as long as the user is none
          invitation,  \* the member's invitation to the organization
          assigned,    \* the roles of a user
          state,       \* of a role: "none", "live" or "deleted"
          grants,      \* the codes of a role
          cache,       \* what is cached of a user's codes: Nothing or <<codes>>
          missed,      \* history: the users whose entry a call left behind as it was
          call,        \* what each call has in its hands
          begun        \* bound: the changes begun so far
vars == <<realm, status, invitation, assigned, state, grants, cache, missed, call, begun>>
rows == <<status, invitation, assigned, state, grants>>

MembershipStatus == {"NONE", "INVITED", "ACTIVE", "SUSPENDED", "DEACTIVATED"}
InvitationStatus == {"NONE", "PENDING", "ACCEPTED", "REVOKED"}
Nothing == <<>>
NoRole == "no role"
NoCall == [op |-> "none", pc |-> "idle", user |-> "nobody", role |-> NoRole, status |-> "NONE",
           set |-> {}, admin |-> FALSE, others |-> {}, rest |-> {}]

Live == {r \in Roles : state[r] = "live"}
\* What the database says a user may do; on the platform the account's status is not part of it.
Granted(u) ==
    IF realm = "tenant" /\ status[u] # "ACTIVE" THEN {}
    ELSE UNION {grants[r] : r \in assigned[u] \intersect Live}
Admins == {u \in Users : status[u] = "ACTIVE" /\ AdminRole \in assigned[u]}

Init ==
    /\ realm \in {"platform", "tenant"}
    /\ status \in [Users -> {"NONE", "ACTIVE"}]
    /\ invitation = [u \in Users |-> "NONE"]
    /\ assigned = [u \in Users |-> IF status[u] = "ACTIVE" THEN {AdminRole} ELSE {}]
    /\ Admins # {}
    /\ state = [r \in Roles |-> IF r = AdminRole THEN "live" ELSE "none"]
    /\ grants = [r \in Roles |-> IF r = AdminRole THEN Grantable ELSE {}]
    /\ cache = [u \in Users |-> Nothing] /\ missed = {}
    /\ call = [c \in Calls |-> NoCall] /\ begun = 0

-----------------------------------------------------------------------------
Become(c, next) == call' = [call EXCEPT ![c] = next]
Finish(c) == Become(c, NoCall)
Begin(c, next) ==
    /\ call[c].op = "none" /\ begun < MaxChanges
    /\ begun' = begun + 1
    /\ Become(c, next)
    /\ UNCHANGED <<realm, rows, cache, missed>>
At(c, op, pc) == call[c].op = op /\ call[c].pc = pc

\* A request finds no entry; it reads the codes, and puts them in the cache for a minute.  The
\* codes of a membership are asked for once it was seen to be usable; those of staff of whatever
\* status, by the member's own requests, by a sign-in that ends an invitation, and by whoever
\* looks up what a member may do.
Loadable == IF realm = "tenant" THEN {"ACTIVE"} ELSE MembershipStatus \ {"NONE"}
LoadMiss(c, u) ==
    /\ call[c].op = "none"
    /\ status[u] \in Loadable /\ cache[u] = Nothing
    /\ Become(c, [NoCall EXCEPT !.op = "load", !.pc = "read", !.user = u])
    /\ UNCHANGED <<realm, rows, cache, missed, begun>>
LoadRead(c) ==
    /\ At(c, "load", "read")
    /\ Become(c, [call[c] EXCEPT !.pc = "put", !.set = Granted(call[c].user)])
    /\ UNCHANGED <<realm, rows, cache, missed, begun>>
LoadPut(c) ==
    LET u == call[c].user
    IN  /\ At(c, "load", "put")
        /\ cache' = [cache EXCEPT ![u] = <<call[c].set>>]
        /\ missed' = IF call[c].set = Granted(u) THEN missed \ {u} ELSE missed \union {u}
        /\ Finish(c)
        /\ UNCHANGED <<realm, rows, begun>>
EntryExpires(u) ==
    /\ cache[u] # Nothing
    /\ cache' = [cache EXCEPT ![u] = Nothing] /\ missed' = missed \ {u}
    /\ UNCHANGED <<realm, rows, call, begun>>

-----------------------------------------------------------------------------
\* setMembershipStatus, and suspendStaff, deactivateStaff and activateStaff: who is not let in
\* any more must not be the last administrator.
Settable(from, to) ==
    IF realm = "tenant" THEN from \notin {to, "NONE"}
    ELSE CASE to = "ACTIVE" -> from \in {"INVITED", "SUSPENDED"}
           [] to = "SUSPENDED" -> from \notin {"NONE", "SUSPENDED", "DEACTIVATED"}
           [] to = "DEACTIVATED" -> from \notin {"NONE", "DEACTIVATED"}
StatusRead(c, u, to) ==
    /\ Settable(status[u], to)
    /\ Begin(c, [NoCall EXCEPT !.op = "status", !.user = u, !.status = to,
                               !.pc = IF to = "ACTIVE" THEN "write" ELSE "count"])

\* setUserRoles and replaceStaffRoles: the guard is asked when the role is among the current
\* ones and not among the next.
RolesRead(c, u, next) ==
    /\ status[u] # "NONE" /\ next \subseteq Live
    /\ Begin(c, [NoCall EXCEPT !.op = "roles", !.user = u, !.set = next,
                   !.pc = IF AdminRole \in assigned[u] \ next THEN "count" ELSE "write"])

\* assertNotLastPlatformOwner and assertNotLastOrgAdmin.
Others(u) == Admins \ {u}
CountUnchecked(c) ==   \* a mutation: the count is taken and nothing is made of it
    /\ call[c].op \in {"status", "roles"} /\ call[c].pc = "count"
    /\ Become(c, [call[c] EXCEPT !.pc = "write", !.admin = AdminRole \in assigned[call[c].user],
                                 !.others = Others(call[c].user)])
    /\ UNCHANGED <<realm, rows, cache, missed, begun>>
Count(c) ==
    LET u == call[c].user
        admin == AdminRole \in assigned[u]
    IN  /\ call[c].op \in {"status", "roles"} /\ call[c].pc = "count"
        /\ IF admin /\ Others(u) = {} THEN Finish(c)
           ELSE Become(c, [call[c] EXCEPT !.pc = "write", !.admin = admin, !.others = Others(u)])
        /\ UNCHANGED <<realm, rows, cache, missed, begun>>

\* The members whose entry is deleted after a write, one by one; a member's new status leaves
\* the cache of the platform as it is.
Invalidate(c, users) ==
    IF users = {} THEN Finish(c)
    ELSE Become(c, [call[c] EXCEPT !.pc = "invalidate", !.rest = users])
\* Rows of a user that are deleted, for good or to be written again, are gone for a
\* removeRoleMember that has read one of them.
Replace(c, u, roles) ==
    call' = [d \in Calls |->
        IF d = c THEN [call[d] EXCEPT !.pc = "invalidate", !.rest = {u}]
        ELSE IF call[d].op = "remove" /\ call[d].user = u /\ call[d].role \in roles
        THEN [call[d] EXCEPT !.role = NoRole] ELSE call[d]]
StatusWrite(c) ==
    LET u == call[c].user
    IN  /\ At(c, "status", "write")
        /\ status' = [status EXCEPT ![u] = call[c].status]
        /\ Invalidate(c, IF realm = "tenant" THEN {u} ELSE {})
        /\ UNCHANGED <<realm, invitation, assigned, state, grants, cache, missed, begun>>
RolesWrite(c) ==
    LET u == call[c].user
    IN  /\ At(c, "roles", "write")
        /\ assigned' = [assigned EXCEPT ![u] = call[c].set]
        /\ Replace(c, u, Roles)
        /\ UNCHANGED <<realm, status, invitation, state, grants, cache, missed, begun>>
InvalidateOne(c, u) ==
    /\ call[c].pc = "invalidate" /\ u \in call[c].rest
    /\ cache' = [cache EXCEPT ![u] = Nothing] /\ missed' = missed \ {u}
    /\ Invalidate(c, call[c].rest \ {u})
    /\ UNCHANGED <<realm, rows, begun>>

-----------------------------------------------------------------------------
\* addRoleMembers and removeRoleMember, of organizations only: neither asks for the guard.
MemberRead(c, op, u, r) ==
    /\ realm = "tenant" /\ op \in {"add", "remove"}
    /\ r \in Live /\ status[u] # "NONE"
    /\ op = "remove" => r \in assigned[u]
    /\ Begin(c, [NoCall EXCEPT !.op = op, !.pc = "write", !.user = u, !.role = r])
MemberWrite(c) ==
    LET u == call[c].user r == call[c].role
    IN  /\ \/ /\ At(c, "add", "write")
              /\ assigned' = [assigned EXCEPT ![u] = @ \union {r}]
              /\ Invalidate(c, {u})
           \/ /\ At(c, "remove", "write") /\ r = NoRole   \* the deletion fails
              /\ Finish(c) /\ UNCHANGED assigned
           \/ /\ At(c, "remove", "write") /\ r # NoRole
              /\ assigned' = [assigned EXCEPT ![u] = @ \ {r}]
              /\ Replace(c, u, {r})
        /\ UNCHANGED <<realm, status, invitation, state, grants, cache, missed, begun>>

\* setRolePermissions: the codes are replaced, then the members are read.
PermissionsRead(c, r, codes) ==
    /\ r \in Live
    /\ Begin(c, [NoCall EXCEPT !.op = "permissions", !.pc = "write", !.role = r, !.set = codes])
PermissionsWriteAlone(c) ==   \* a mutation: the members' entries are left to expire
    /\ At(c, "permissions", "write")
    /\ grants' = [grants EXCEPT ![call[c].role] = call[c].set]
    /\ Finish(c)
    /\ UNCHANGED <<realm, status, invitation, assigned, state, cache, missed, begun>>
PermissionsWrite(c) ==
    /\ At(c, "permissions", "write")
    /\ grants' = [grants EXCEPT ![call[c].role] = call[c].set]
    /\ Become(c, [call[c] EXCEPT !.pc = "members"])
    /\ UNCHANGED <<realm, status, invitation, assigned, state, cache, missed, begun>>
Members(r) == {u \in Users : r \in assigned[u]}
MembersRead(c) ==
    /\ At(c, "permissions", "members")
    /\ Invalidate(c, Members(call[c].role))
    /\ UNCHANGED <<realm, rows, cache, missed, begun>>

\* createRole; deleteRole counts the members first, and no entry is deleted after it.
CreateRole(r, codes) ==
    /\ state[r] = "none" /\ begun < MaxChanges
    /\ state' = [state EXCEPT ![r] = "live"] /\ grants' = [grants EXCEPT ![r] = codes]
    /\ begun' = begun + 1
    /\ UNCHANGED <<realm, status, invitation, assigned, cache, missed, call>>
DeleteRoleRead(c, r) ==
    /\ r \in Live \ {AdminRole} /\ Members(r) = {}
    /\ Begin(c, [NoCall EXCEPT !.op = "delete", !.pc = "write", !.role = r])
DeleteRoleWrite(c) ==
    /\ At(c, "delete", "write")
    /\ state' = [state EXCEPT ![call[c].role] = "deleted"]
    /\ Finish(c)
    /\ UNCHANGED <<realm, status, invitation, assigned, grants, cache, missed, begun>>

-----------------------------------------------------------------------------
\* inviteUser; createTenantOrgUser with a password, whose member is ACTIVE at once; importUsers
\* without invitations, and createStaff, whose member is INVITED with no row of an invitation
\* (staff who accept become ACTIVE as with activateStaff).  A member that has come to be in
\* between makes the insertion fail.
InviteRead(c, u, to, roles) ==
    /\ status[u] = "NONE" /\ roles \subseteq Live
    /\ to \in IF realm = "tenant" THEN {"PENDING", "INVITED", "ACTIVE"} ELSE {"INVITED"}
    /\ Begin(c, [NoCall EXCEPT !.op = "invite", !.pc = "write", !.user = u, !.status = to, !.set = roles])
InviteWrite(c) ==
    LET u == call[c].user to == call[c].status
    IN  /\ At(c, "invite", "write")
        /\ IF status[u] # "NONE" THEN UNCHANGED <<status, invitation, assigned>>
           ELSE /\ status' = [status EXCEPT ![u] = IF to = "ACTIVE" THEN to ELSE "INVITED"]
                /\ invitation' = [invitation EXCEPT ![u] = IF to = "PENDING" THEN to ELSE "NONE"]
                /\ assigned' = [assigned EXCEPT ![u] = call[c].set]
        /\ Finish(c)
        /\ UNCHANGED <<realm, state, grants, cache, missed, begun>>

\* acceptInvitation and revokeInvitation: both look for a pending invitation, and write the
\* outcome whatever it has become; the membership is moved on only from INVITED.
AnswerRead(c, op, u) ==
    /\ op \in {"accept", "revoke"} /\ invitation[u] = "PENDING"
    /\ Begin(c, [NoCall EXCEPT !.op = op, !.pc = "write", !.user = u])
AcceptAlways(u) ==   \* a mutation: the membership is moved on whatever it is
    /\ invitation' = [invitation EXCEPT ![u] = "ACCEPTED"]
    /\ status' = [status EXCEPT ![u] = "ACTIVE"]
Accept(u) ==
    /\ invitation' = [invitation EXCEPT ![u] = "ACCEPTED"]
    /\ status' = [status EXCEPT ![u] = IF @ = "INVITED" THEN "ACTIVE" ELSE @]
Revoke(u) ==
    /\ invitation' = [invitation EXCEPT ![u] = "REVOKED"]
    /\ status' = [status EXCEPT ![u] = IF @ = "INVITED" THEN "DEACTIVATED" ELSE @]
AnswerWrite(c) ==
    /\ call[c].op \in {"accept", "revoke"} /\ call[c].pc = "write"
    /\ IF call[c].op = "accept" THEN Accept(call[c].user) ELSE Revoke(call[c].user)
    /\ Finish(c)
    /\ UNCHANGED <<realm, assigned, state, grants, cache, missed, begun>>

-----------------------------------------------------------------------------
\* A call is cut short: what it has written stays, what it has not invalidated is missed.
Pending(c) ==
    IF call[c].pc = "invalidate" THEN call[c].rest
    ELSE IF call[c].pc = "members" THEN Members(call[c].role) ELSE {}
Abort(c) ==
    /\ call[c].op # "none"
    /\ missed' = missed \union {u \in Pending(c) : cache[u] # Nothing}
    /\ Finish(c)
    /\ UNCHANGED <<realm, rows, cache, begun>>

CallStep(c) ==
    \/ \E u \in Users :
          \/ LoadMiss(c, u)
          \/ \E to \in MembershipStatus \ {"NONE", "INVITED"} : StatusRead(c, u, to)
          \/ \E next \in SUBSET Roles : RolesRead(c, u, next)
          \/ InvalidateOne(c, u)
          \/ \E op \in {"add", "remove"}, r \in Roles : MemberRead(c, op, u, r)
          \/ \E to \in {"PENDING", "INVITED", "ACTIVE"}, roles \in SUBSET Roles :
                InviteRead(c, u, to, roles)
          \/ \E op \in {"accept", "revoke"} : AnswerRead(c, op, u)
    \/ \E r \in Roles :
          \/ \E codes \in SUBSET Grantable : PermissionsRead(c, r, codes)
          \/ DeleteRoleRead(c, r)
    \/ LoadRead(c) \/ LoadPut(c) \/ Count(c) \/ StatusWrite(c) \/ RolesWrite(c) \/ MemberWrite(c)
    \/ PermissionsWrite(c) \/ MembersRead(c) \/ DeleteRoleWrite(c) \/ InviteWrite(c)
    \/ AnswerWrite(c) \/ Abort(c)
Next ==
    \/ \E c \in Calls : CallStep(c)
    \/ \E u \in Users : EntryExpires(u)
    \/ \E r \in Roles, codes \in SUBSET Grantable : CreateRole(r, codes)
Spec == Init /\ [][Next]_vars

-----------------------------------------------------------------------------
\* Whoever is suspended, deactivated or given other roles is not the last administrator: when
\* one of these changes ends the last one all the same, the others it counted have ceased to be
\* administrators since, or the user was none when the call looked.  removeRoleMember is not
\* guarded (users.service.ts:135, staff.service.ts:140).
LosesLast(c) ==
    \/ At(c, "remove", "write")
    \/ call[c].pc = "write" /\ ~ call[c].admin
    \/ call[c].pc = "write" /\ call[c].others # {} /\ call[c].others \intersect Admins = {}
LastAdministratorGuarded ==
    [][Admins # {} /\ Admins' = {} => \E c \in Calls : call'[c] # call[c] /\ LosesLast(c)]_vars

\* Whatever changes what a user may do has the user's entry deleted once it is written: an entry
\* that is out of date is one a change under way has yet to delete, one that was missed (read
\* before a change and put after it, or left by a call that was cut short), or names the codes
\* of a role that was deleted while it was being assigned (tenant-access.service.ts:157).
EntriesFollowChanges ==
    \A u \in Users :
        cache[u] # Nothing /\ cache[u] # <<Granted(u)>> =>
            \/ u \in missed
            \/ \E c \in Calls : u \in Pending(c)
            \/ \E r \in assigned[u] : state[r] = "deleted"

\* An invitation that was revoked lets nobody in, although it may have been found pending
\* before: only activateUser makes a member of its user (users.service.ts:749).
RevokedAdmitsNobody ==
    [][\A u \in Users :
          invitation[u] = "REVOKED" /\ status[u] # "ACTIVE" /\ status'[u] = "ACTIVE" =>
              \E c \in Calls : At(c, "status", "write") /\ call[c].user = u]_vars
=============================================================================
