-------------------------- MODULE AuthorizationProofs --------------------------
(***************************************************************************)
(* The three properties of Authorization, for any number of users, roles,  *)
(* codes and concurrent calls.  The invariant says what each call carries  *)
(* from its reads to its write, what a membership's status and invitation  *)
(* may be together, and that nobody who has not been let in is cached.     *)
(* Then the properties of HttpSurface, for any callers: what the layers a  *)
(* request has passed made sure of, and how far on its way it may be.      *)
(***************************************************************************)
EXTENDS Authorization, HttpSurface, RouteFacts, WellFoundedInduction, TLAPS

Ops == {"none", "load", "status", "roles", "add", "remove", "permissions", "delete",
        "invite", "accept", "revoke"}
Pcs == {"idle", "read", "put", "count", "write", "invalidate", "members"}
CallRecord ==
    [op : Ops, pc : Pcs, user : Users \union {"nobody"}, role : Roles \union {NoRole},
     status : MembershipStatus \union {"PENDING"}, set : SUBSET (Roles \union Grantable),
     admin : BOOLEAN, others : SUBSET Users, rest : SUBSET Users]

TypeOK ==
    /\ realm \in {"platform", "tenant"}
    /\ status \in [Users -> MembershipStatus]
    /\ invitation \in [Users -> InvitationStatus]
    /\ assigned \in [Users -> SUBSET Roles]
    /\ state \in [Roles -> {"none", "live", "deleted"}]
    /\ grants \in [Roles -> SUBSET Grantable]
    /\ cache \in [Users -> Seq(SUBSET Grantable)]
    /\ missed \in SUBSET Users
    /\ call \in [Calls -> CallRecord]
    /\ begun \in Nat

\* What a call k knows to be so until it writes.
Outside(side) == {"NONE"} \union (IF side = "tenant" THEN {"INVITED"} ELSE {})
Sound(k) ==
    /\ k.op = "none" => k.pc = "idle"
    /\ k.pc = "members" => k.op = "permissions"
    /\ k.op = "load" =>
          k.user \in Users /\ status[k.user] \notin Outside(realm) /\ (k.pc = "put" => k.set \subseteq Grantable)
    /\ k.op = "status" => k.user \in Users /\ k.status \in {"ACTIVE", "SUSPENDED", "DEACTIVATED"}
    /\ k.op \in {"roles", "invite"} =>
          k.user \in Users /\ k.set \subseteq Roles /\ \A r \in k.set : state[r] # "none"
    /\ k.op \in {"status", "roles"} /\ k.pc = "write" /\ k.admin =>
          k.others # {} /\ k.user \notin k.others
    /\ k.op = "invite" => k.status \in {"PENDING", "INVITED", "ACTIVE"}
    /\ k.op \in {"accept", "revoke"} => k.user \in Users /\ status[k.user] # "NONE"
    /\ k.op \in {"add", "remove"} => k.user \in Users
    /\ k.op = "add" \/ (k.op = "remove" /\ k.role # NoRole) => k.role \in Roles /\ state[k.role] # "none"
    /\ k.op \in {"permissions", "delete"} => k.role \in Roles
    /\ k.op = "permissions" => k.set \subseteq Grantable
CallsSound == \A c \in Calls : Sound(call[c])

MemberSound(u) ==
    /\ status[u] = "NONE" => invitation[u] = "NONE"
    /\ invitation[u] \in {"ACCEPTED", "REVOKED"} => status[u] # "INVITED"
    /\ status[u] \in Outside(realm) => cache[u] = Nothing
    /\ \A r \in assigned[u] : state[r] # "none"
MembersSound == \A u \in Users : MemberSound(u)

\* EntriesFollowChanges, of one user.
PendingOf(k) ==
    IF k.pc = "invalidate" THEN k.rest ELSE IF k.pc = "members" THEN Members(k.role) ELSE {}
Followed(u) ==
    cache[u] # Nothing /\ cache[u] # <<Granted(u)>> =>
        \/ u \in missed
        \/ \E c \in Calls : u \in PendingOf(call[c])
        \/ \E r \in assigned[u] : state[r] = "deleted"

IInv == TypeOK /\ CallsSound /\ MembersSound /\ EntriesFollowChanges

--------------------------------------------------------------------------------
\* Nobody is put back outside, and no role is made not to have been.
Onward ==
    /\ realm' = realm
    /\ \A u \in Users : /\ status[u] # "NONE" => status'[u] # "NONE"
                        /\ status[u] \notin Outside(realm) => status'[u] \notin Outside(realm)
    /\ \A r \in Roles : state[r] # "none" => state'[r] # "none"

\* Statuses, roles and the calls in flight of the model are of their types.
LEMMA NoCallTyped == NoCall \in CallRecord /\ NoCall.op = "none" /\ NoCall.pc = "idle"
BY DEF NoCall, CallRecord, Ops, Pcs, MembershipStatus

\* What EntriesFollowChanges says is what it says of each user.
LEMMA EachFollowed == EntriesFollowChanges <=> \A u \in Users : Followed(u)
BY DEF EntriesFollowChanges, Followed, Pending, PendingOf

LEMMA EachFollowedNext == EntriesFollowChanges' <=> \A u \in Users : Followed(u)'
BY DEF EntriesFollowChanges, Followed, Pending, PendingOf

\* The idle call knows nothing.
LEMMA IdleSound == Sound(NoCall)
BY DEF Sound, NoCall

\* What a call knows stays so while the rows move on.
LEMMA SoundStays ==
    ASSUME NEW k \in CallRecord, Sound(k), Onward
    PROVE  Sound(k)'
<1>1. k.op = "load" => status'[k.user] \notin Outside(realm)
  BY DEF Sound, Onward
<1>2. k.op \in {"accept", "revoke"} => status'[k.user] # "NONE"
  BY DEF Sound, Onward
<1>3. k.op \in {"roles", "invite"} => \A r \in k.set : state'[r] # "none"
  BY DEF Sound, Onward
<1>4. k.op = "add" \/ (k.op = "remove" /\ k.role # NoRole) => state'[k.role] # "none"
  BY DEF Sound, Onward
<1>5. Outside(realm') = Outside(realm)
  BY DEF Onward
<1> QED BY <1>1, <1>2, <1>3, <1>4, <1>5 DEF Sound, NoRole

\* A call that goes on soundly leaves all calls sound.
LEMMA BecomeSound ==
    ASSUME TypeOK, CallsSound, Onward, NEW c \in Calls, NEW k \in CallRecord, Sound(k)', Become(c, k)
    PROVE  call' \in [Calls -> CallRecord] /\ CallsSound'
<1>1. call' \in [Calls -> CallRecord] /\ call'[c] = k /\ \A d \in Calls \ {c} : call'[d] = call[d]
  BY DEF TypeOK, Become
<1>2. \A d \in Calls \ {c} : Sound(call[d])'
  <2> TAKE d \in Calls \ {c}
  <2>1. call[d] \in CallRecord /\ Sound(call[d])
    BY DEF TypeOK, CallsSound
  <2>2. \A x \in CallRecord : Sound(x) => Sound(x)'
    BY SoundStays
  <2> QED BY <1>1, <2>1, <2>2
<1> QED BY <1>1, <1>2 DEF CallsSound

\* The codes of a user whose roles, and on the tenant's side whose status, stay.
LEMMA SameGranted ==
    ASSUME TypeOK, NEW u \in Users, realm' = realm, assigned'[u] = assigned[u],
           status'[u] = status[u] \/ realm # "tenant",
           \A r \in assigned[u] : grants'[r] = grants[r] /\ (state'[r] = "live" <=> state[r] = "live")
    PROVE  Granted(u)' = Granted(u)
<1>1. assigned[u] \subseteq Roles
  BY DEF TypeOK
<1>2. (assigned[u] \intersect Live)' = assigned[u] \intersect Live
  BY <1>1 DEF Live
<1>3. {grants'[r] : r \in assigned[u] \intersect Live} = {grants[r] : r \in assigned[u] \intersect Live}
  OBVIOUS
<1> QED BY <1>2, <1>3 DEF Granted

\* A user whom a step does not concern.
LEMMA FollowedStays ==
    ASSUME NEW u \in Users, Followed(u), Granted(u)' = Granted(u), cache'[u] = cache[u],
           u \in missed => u \in missed',
           \A c \in Calls : u \in PendingOf(call[c]) => \E d \in Calls : u \in PendingOf(call[d])',
           \A r \in assigned[u] : state[r] = "deleted" => r \in assigned'[u] /\ state'[r] = "deleted"
    PROVE  Followed(u)'
BY DEF Followed

\* A user without an entry.
LEMMA NothingFollowed ==
    ASSUME NEW u \in Users, cache'[u] = Nothing PROVE Followed(u)'
BY DEF Followed

\* Steps that read, count, or end without having written.
LEMMA ReadStep ==
    ASSUME IInv, NEW c \in Calls, NEW k \in CallRecord, Sound(k), Become(c, k),
           PendingOf(call[c]) \subseteq PendingOf(k),
           UNCHANGED <<realm, rows, cache, missed>>, begun' \in Nat
    PROVE  IInv'
<1> USE DEF IInv
<1>1. Onward
  BY DEF Onward, rows
<1>2. Sound(k)'
  BY <1>1, SoundStays
<1>3. call' \in [Calls -> CallRecord] /\ CallsSound'
  BY <1>1, <1>2, BecomeSound
<1>4. TypeOK'
  BY <1>3 DEF TypeOK, rows
<1>5. MembersSound'
  BY DEF MembersSound, MemberSound, rows
<1>6. EntriesFollowChanges'
  <2>1. ASSUME NEW u \in Users PROVE Followed(u)'
    <3>1. Followed(u)
      BY EachFollowed
    <3>2. Granted(u)' = Granted(u)
      BY SameGranted DEF rows
    <3>3. ASSUME NEW d \in Calls, u \in PendingOf(call[d]) PROVE u \in PendingOf(call[d])'
      <4>1. call'[d] = IF d = c THEN k ELSE call[d]
        BY DEF Become, TypeOK
      <4>2. PendingOf(call[d])' = PendingOf(call'[d])
        BY DEF PendingOf, Members, rows
      <4> QED BY <4>1, <4>2, <3>3
    <3> QED BY <3>1, <3>2, <3>3, FollowedStays DEF rows
  <2> QED BY <2>1, EachFollowedNext
<1> QED BY <1>3, <1>4, <1>5, <1>6

\* The first steps of all calls.
LEMMA BeginStep ==
    ASSUME IInv, NEW c \in Calls, NEW k \in CallRecord, Sound(k), Begin(c, k)
    PROVE  IInv'
<1>1. PendingOf(call[c]) = {}
  BY DEF IInv, CallsSound, Sound, PendingOf, Begin
<1>2. begun' \in Nat
  BY DEF Begin, IInv, TypeOK
<1> QED BY <1>1, <1>2, ReadStep DEF Begin

\* Finish, of a call that has nothing to invalidate.
LEMMA FinishStep ==
    ASSUME IInv, NEW c \in Calls, PendingOf(call[c]) = {}, Finish(c),
           UNCHANGED <<realm, rows, cache, missed, begun>>
    PROVE  IInv'
<1>1. begun' \in Nat
  BY DEF IInv, TypeOK
<1> QED BY <1>1, NoCallTyped, IdleSound, ReadStep DEF Finish

LEMMA LoadMissStep == ASSUME IInv, NEW c \in Calls, NEW u \in Users, LoadMiss(c, u) PROVE IInv'
<1> DEFINE k == [NoCall EXCEPT !.op = "load", !.pc = "read", !.user = u]
<1>1. k \in CallRecord /\ k.op = "load" /\ k.pc = "read" /\ k.user = u
  BY DEF NoCall, CallRecord, Ops, Pcs, MembershipStatus
<1>2. Sound(k)
  <2> HIDE DEF k
  <2> QED BY <1>1 DEF Sound, LoadMiss, Loadable, Outside, MembershipStatus
<1>3. PendingOf(call[c]) = {}
  BY DEF IInv, CallsSound, Sound, PendingOf, LoadMiss
<1>4. begun' \in Nat /\ Become(c, k) /\ UNCHANGED <<realm, rows, cache, missed>>
  BY DEF LoadMiss, IInv, TypeOK
<1> HIDE DEF k
<1> QED BY <1>1, <1>2, <1>3, <1>4, ReadStep

LEMMA LoadReadStep == ASSUME IInv, NEW c \in Calls, LoadRead(c) PROVE IInv'
<1> DEFINE k == [call[c] EXCEPT !.pc = "put", !.set = Granted(call[c].user)]
<1>1. call[c] \in CallRecord /\ Sound(call[c]) /\ call[c].op = "load" /\ call[c].pc = "read"
  BY DEF IInv, TypeOK, CallsSound, LoadRead, At
<1>2. Granted(call[c].user) \subseteq Grantable
  BY <1>1 DEF Granted, IInv, TypeOK, Live, Sound
<1>3. k \in CallRecord /\ k.op = "load" /\ k.pc = "put" /\ k.user = call[c].user
      /\ k.set \subseteq Grantable
  BY <1>1, <1>2 DEF CallRecord, Pcs
<1>4. Sound(k)
  <2> HIDE DEF k
  <2> QED BY <1>1, <1>3 DEF Sound
<1>5. PendingOf(call[c]) = {}
  BY <1>1 DEF PendingOf
<1>6. begun' \in Nat /\ Become(c, k) /\ UNCHANGED <<realm, rows, cache, missed>>
  BY DEF LoadRead, IInv, TypeOK
<1> HIDE DEF k
<1> QED BY <1>3, <1>4, <1>5, <1>6, ReadStep

LEMMA StatusReadStep ==
    ASSUME IInv, NEW c \in Calls, NEW u \in Users, NEW to \in MembershipStatus \ {"NONE", "INVITED"},
           StatusRead(c, u, to)
    PROVE  IInv'
<1> DEFINE k == [NoCall EXCEPT !.op = "status", !.user = u, !.status = to,
                               !.pc = IF to = "ACTIVE" THEN "write" ELSE "count"]
<1>1. k \in CallRecord /\ k.op = "status" /\ k.pc \in {"write", "count"} /\ k.user = u
      /\ k.status = to /\ ~ k.admin
  BY DEF NoCall, CallRecord, Ops, Pcs, MembershipStatus
<1>2. Sound(k)
  <2> HIDE DEF k
  <2> QED BY <1>1 DEF Sound, MembershipStatus
<1> QED BY <1>1, <1>2, BeginStep DEF StatusRead

LEMMA RolesReadStep ==
    ASSUME IInv, NEW c \in Calls, NEW u \in Users, NEW next \in SUBSET Roles, RolesRead(c, u, next)
    PROVE  IInv'
<1> DEFINE k == [NoCall EXCEPT !.op = "roles", !.user = u, !.set = next,
                   !.pc = IF AdminRole \in assigned[u] \ next THEN "count" ELSE "write"]
<1>1. k \in CallRecord /\ k.op = "roles" /\ k.pc \in {"write", "count"} /\ k.user = u
      /\ k.set = next /\ ~ k.admin
  BY DEF NoCall, CallRecord, Ops, Pcs, MembershipStatus
<1>2. \A r \in next : state[r] # "none"
  BY DEF RolesRead, Live
<1>3. Sound(k)
  <2> HIDE DEF k
  <2> QED BY <1>1, <1>2 DEF Sound
<1> QED BY <1>1, <1>3, BeginStep DEF RolesRead

LEMMA CountStep == ASSUME IInv, NEW c \in Calls, Count(c) PROVE IInv'
<1> DEFINE u == call[c].user
           a == AdminRole \in assigned[u]
           k == [call[c] EXCEPT !.pc = "write", !.admin = a, !.others = Others(u)]
<1>1. call[c] \in CallRecord /\ Sound(call[c]) /\ call[c].op \in {"status", "roles"}
      /\ call[c].pc = "count"
  BY DEF IInv, TypeOK, CallsSound, Count
<1>2. PendingOf(call[c]) = {}
  BY <1>1 DEF PendingOf
<1>3. CASE a /\ Others(u) = {}
  BY <1>2, <1>3, FinishStep DEF Count
<1>4. CASE ~ (a /\ Others(u) = {})
  <2>1. Others(u) \in SUBSET Users /\ a \in BOOLEAN
    BY DEF Others, Admins
  <2>2. k \in CallRecord /\ k.op = call[c].op /\ k.pc = "write" /\ k.admin = a /\ k.others = Others(u)
        /\ k.user = u /\ k.status = call[c].status /\ k.set = call[c].set
    BY <1>1, <2>1 DEF CallRecord, Pcs
  <2>3. k.admin => k.others # {} /\ k.user \notin k.others
    BY <1>4, <2>2 DEF Others
  <2>4. Become(c, k) /\ UNCHANGED <<realm, rows, cache, missed>> /\ begun' \in Nat
    BY <1>4 DEF Count, IInv, TypeOK
  <2> HIDE DEF k
  <2>5. Sound(k)
    BY <1>1, <2>2, <2>3 DEF Sound
  <2> QED BY <1>2, <2>2, <2>4, <2>5, ReadStep
<1> QED BY <1>3, <1>4

LEMMA MemberReadStep ==
    ASSUME IInv, NEW c \in Calls, NEW u \in Users, NEW r \in Roles, NEW op \in {"add", "remove"},
           MemberRead(c, op, u, r)
    PROVE  IInv'
<1> DEFINE k == [NoCall EXCEPT !.op = op, !.pc = "write", !.user = u, !.role = r]
<1>1. k \in CallRecord /\ k.op = op /\ k.pc = "write" /\ k.user = u /\ k.role = r
  BY DEF NoCall, CallRecord, Ops, Pcs, MembershipStatus
<1>2. Sound(k)
  <2>1. state[r] # "none"
    BY DEF MemberRead, Live
  <2> HIDE DEF k
  <2> QED BY <1>1, <2>1 DEF Sound
<1> QED BY <1>1, <1>2, BeginStep DEF MemberRead

LEMMA PermissionsReadStep ==
    ASSUME IInv, NEW c \in Calls, NEW r \in Roles, NEW codes \in SUBSET Grantable,
           PermissionsRead(c, r, codes)
    PROVE  IInv'
<1> DEFINE k == [NoCall EXCEPT !.op = "permissions", !.pc = "write", !.role = r, !.set = codes]
<1>1. k \in CallRecord /\ k.op = "permissions" /\ k.pc = "write" /\ k.role = r /\ k.set = codes
  BY DEF NoCall, CallRecord, Ops, Pcs, MembershipStatus
<1>2. Sound(k)
  <2> HIDE DEF k
  <2> QED BY <1>1 DEF Sound
<1> QED BY <1>1, <1>2, BeginStep DEF PermissionsRead

LEMMA DeleteRoleReadStep ==
    ASSUME IInv, NEW c \in Calls, NEW r \in Roles, DeleteRoleRead(c, r) PROVE IInv'
<1> DEFINE k == [NoCall EXCEPT !.op = "delete", !.pc = "write", !.role = r]
<1>1. k \in CallRecord /\ k.op = "delete" /\ k.pc = "write" /\ k.role = r
  BY DEF NoCall, CallRecord, Ops, Pcs, MembershipStatus
<1>2. Sound(k)
  <2> HIDE DEF k
  <2> QED BY <1>1 DEF Sound
<1> QED BY <1>1, <1>2, BeginStep DEF DeleteRoleRead

LEMMA InviteReadStep ==
    ASSUME IInv, NEW c \in Calls, NEW u \in Users, NEW to \in {"PENDING", "INVITED", "ACTIVE"},
           NEW roles \in SUBSET Roles, InviteRead(c, u, to, roles)
    PROVE  IInv'
<1> DEFINE k == [NoCall EXCEPT !.op = "invite", !.pc = "write", !.user = u, !.status = to,
                               !.set = roles]
<1>1. k \in CallRecord /\ k.op = "invite" /\ k.pc = "write" /\ k.user = u /\ k.status = to
      /\ k.set = roles
  BY DEF NoCall, CallRecord, Ops, Pcs, MembershipStatus
<1>2. Sound(k)
  <2>1. \A r \in roles : state[r] # "none"
    BY DEF InviteRead, Live
  <2> HIDE DEF k
  <2> QED BY <1>1, <2>1 DEF Sound
<1> QED BY <1>1, <1>2, BeginStep DEF InviteRead

LEMMA AnswerReadStep ==
    ASSUME IInv, NEW c \in Calls, NEW u \in Users, NEW op \in {"accept", "revoke"},
           AnswerRead(c, op, u)
    PROVE  IInv'
<1> DEFINE k == [NoCall EXCEPT !.op = op, !.pc = "write", !.user = u]
<1>1. k \in CallRecord /\ k.op = op /\ k.pc = "write" /\ k.user = u
  BY DEF NoCall, CallRecord, Ops, Pcs, MembershipStatus
<1>2. Sound(k)
  <2>1. status[u] # "NONE"
    BY DEF IInv, MembersSound, MemberSound, AnswerRead
  <2> HIDE DEF k
  <2> QED BY <1>1, <2>1 DEF Sound
<1> QED BY <1>1, <1>2, BeginStep DEF AnswerRead

\* Invalidate: the call goes on with the users whose entries it is to delete.
LEMMA InvalidateBecomes ==
    ASSUME NEW c \in Calls, call[c] \in CallRecord, NEW users \in SUBSET Users,
           Invalidate(c, users), call[c].op # "none"
    PROVE  \E k \in CallRecord :
               /\ Become(c, k)
               /\ k.pc = IF users = {} THEN "idle" ELSE "invalidate"
               /\ users # {} => k.rest = users
               /\ Sound(call[c]) => Sound(k)
               /\ call[c].pc # "invalidate" => k # call[c]
<1>1. CASE users = {}
  BY <1>1, NoCallTyped, IdleSound DEF Invalidate, Finish
<1>2. CASE users # {}
  <2> DEFINE e == [call[c] EXCEPT !.pc = "invalidate", !.rest = users]
  <2>1. e \in CallRecord /\ e.pc = "invalidate" /\ e.rest = users /\ e.op = call[c].op
        /\ e.user = call[c].user /\ e.role = call[c].role /\ e.set = call[c].set
        /\ e.status = call[c].status
    BY DEF CallRecord, Pcs
  <2>2. Become(c, e)
    BY <1>2 DEF Invalidate
  <2> HIDE DEF e
  <2>3. ASSUME Sound(call[c]) PROVE Sound(e)
    BY <2>1, <2>3 DEF Sound
  <2> QED BY <1>2, <2>1, <2>2, <2>3
<1> QED BY <1>1, <1>2

--------------------------------------------------------------------------------
\* What a call has yet to invalidate stays, or stays for u.
StaysPending(d) ==
    /\ call'[d].pc = call[d].pc /\ call'[d].rest = call[d].rest
    /\ call[d].pc = "members" => call'[d].role = call[d].role

\* A user whom a write does not concern.
LEMMA Unconcerned ==
    ASSUME IInv, NEW u \in Users, Granted(u)' = Granted(u), assigned'[u] = assigned[u],
           cache'[u] = cache[u], u \in missed => u \in missed',
           \A r \in Roles : state[r] = "deleted" => state'[r] = "deleted",
           \A d \in Calls : \/ StaysPending(d)
                            \/ u \in PendingOf(call[d]) => u \in PendingOf(call[d])'
    PROVE  Followed(u)'
<1>1. Followed(u)
  BY EachFollowed DEF IInv
<1>2. ASSUME NEW d \in Calls, u \in PendingOf(call[d]), StaysPending(d)
      PROVE  u \in PendingOf(call[d])'
  BY <1>2 DEF StaysPending, PendingOf, Members
<1>3. \A d \in Calls : u \in PendingOf(call[d]) => u \in PendingOf(call[d])'
  BY <1>2
<1>4. assigned[u] \subseteq Roles
  BY DEF IInv, TypeOK
<1> QED BY <1>1, <1>3, <1>4, FollowedStays

\* A step of one call.
LEMMA OneMoves ==
    ASSUME TypeOK, NEW c \in Calls, NEW k \in CallRecord, Become(c, k)
    PROVE  call'[c] = k /\ \A d \in Calls \ {c} : StaysPending(d)
BY DEF TypeOK, Become, StaysPending

LEMMA LoadPutStep == ASSUME IInv, NEW c \in Calls, LoadPut(c) PROVE IInv'
<1>0. PICK u \in Users : u = call[c].user
  BY DEF IInv, CallsSound, Sound, LoadPut, At
<1>1. /\ TypeOK /\ CallsSound /\ call[c] \in CallRecord /\ Sound(call[c])
      /\ call[c].op = "load" /\ call[c].pc = "put" /\ call[c].set \subseteq Grantable
      /\ status[u] \notin Outside(realm)
  BY <1>0 DEF IInv, TypeOK, CallsSound, Sound, LoadPut, At
<1>2. Become(c, NoCall) /\ UNCHANGED <<realm, rows, begun>>
  BY DEF LoadPut, Finish
<1>3. Onward
  BY <1>2 DEF Onward, rows
<1>4. call' \in [Calls -> CallRecord] /\ CallsSound'
  <2>1. Sound(NoCall)'
    BY <1>3, NoCallTyped, IdleSound, SoundStays
  <2> QED BY <1>1, <1>2, <1>3, <2>1, NoCallTyped, BecomeSound
<1>5. cache' = [cache EXCEPT ![u] = <<call[c].set>>] /\ cache' \in [Users -> Seq(SUBSET Grantable)]
  BY <1>0, <1>1 DEF LoadPut, TypeOK
<1>6. missed' \in SUBSET Users
  BY <1>0, <1>1 DEF LoadPut, TypeOK
<1>7. TypeOK'
  BY <1>1, <1>2, <1>4, <1>5, <1>6 DEF TypeOK, rows
<1>8. MembersSound'
  BY <1>1, <1>2, <1>5 DEF IInv, TypeOK, MembersSound, MemberSound, rows
<1>9. EntriesFollowChanges'
  <2>1. ASSUME NEW v \in Users PROVE Granted(v)' = Granted(v)
    BY <1>1, <1>2, SameGranted DEF rows
  <2>2. Followed(u)'
    <3>1. cache'[u] = <<call[c].set>>
      BY <1>1, <1>5 DEF TypeOK
    <3>2. u \in missed' \/ call[c].set = Granted(u)
      BY <1>0 DEF LoadPut
    <3>3. u \in missed' \/ cache'[u] = <<Granted(u)'>>
      BY <1>1, <2>1, <3>1, <3>2
    <3> QED BY <3>3 DEF Followed
  <2>3. \A v \in Users \ {u} : cache'[v] = cache[v] /\ (v \in missed => v \in missed')
    BY <1>0, <1>1, <1>5 DEF LoadPut, TypeOK
  <2>4. PendingOf(call[c]) = {}
    BY <1>1 DEF PendingOf
  <2>5. \A d \in Calls \ {c} : StaysPending(d)
    BY <1>1, <1>2, NoCallTyped, OneMoves
  <2>6. ASSUME NEW v \in Users \ {u} PROVE Followed(v)'
    BY <1>2, <2>1, <2>3, <2>4, <2>5, Unconcerned DEF rows
  <2> QED BY <1>1, <2>2, <2>6, EachFollowedNext
<1> QED BY <1>4, <1>7, <1>8, <1>9 DEF IInv

LEMMA EntryExpiresStep == ASSUME IInv, NEW u \in Users, EntryExpires(u) PROVE IInv'
<1>1. TypeOK' /\ cache'[u] = Nothing /\ \A v \in Users \ {u} : cache'[v] = cache[v]
  BY DEF EntryExpires, IInv, TypeOK, rows, Nothing
<1>2. CallsSound'
  BY DEF EntryExpires, IInv, CallsSound, Sound, rows
<1>3. MembersSound'
  BY <1>1 DEF EntryExpires, IInv, MembersSound, MemberSound, rows
<1>4. EntriesFollowChanges'
  <2>1. ASSUME NEW v \in Users PROVE Granted(v)' = Granted(v)
    BY SameGranted DEF EntryExpires, IInv, rows
  <2>2. Followed(u)'
    BY <1>1, NothingFollowed
  <2>3. ASSUME NEW v \in Users \ {u} PROVE Followed(v)'
    BY <1>1, <2>1, Unconcerned DEF EntryExpires, rows, StaysPending
  <2> QED BY <2>2, <2>3, EachFollowedNext
<1> QED BY <1>1, <1>2, <1>3, <1>4 DEF IInv

LEMMA CreateRoleStep ==
    ASSUME IInv, NEW r \in Roles, NEW codes \in SUBSET Grantable, CreateRole(r, codes) PROVE IInv'
<1>1. TypeOK'
  BY DEF CreateRole, IInv, TypeOK
<1>2. Onward /\ \A q \in Roles : state[q] = "deleted" => state'[q] = "deleted"
  BY DEF CreateRole, Onward, IInv, TypeOK
<1>3. CallsSound'
  <2>1. ASSUME NEW c \in Calls PROVE Sound(call[c])'
    <3>1. PICK k \in CallRecord : k = call[c] /\ Sound(k)
      BY DEF IInv, TypeOK, CallsSound
    <3>2. Sound(k)'
      BY <1>2, <3>1, SoundStays
    <3> QED BY <3>1, <3>2 DEF CreateRole
  <2> QED BY <2>1 DEF CallsSound
<1>4. MembersSound'
  BY <1>2 DEF CreateRole, IInv, TypeOK, MembersSound, MemberSound, Onward
<1>5. EntriesFollowChanges'
  <2>1. ASSUME NEW v \in Users PROVE Granted(v)' = Granted(v)
    <3>1. \A q \in assigned[v] : q \in Roles /\ q # r
      BY DEF CreateRole, IInv, TypeOK, MembersSound, MemberSound
    <3> QED BY <3>1, SameGranted DEF CreateRole, IInv, TypeOK
  <2>2. ASSUME NEW v \in Users PROVE Followed(v)'
    BY <1>2, <2>1, Unconcerned DEF CreateRole, StaysPending
  <2> QED BY <2>2, EachFollowedNext
<1> QED BY <1>1, <1>3, <1>4, <1>5 DEF IInv

\* A write after which the entries of users are to be deleted.
LEMMA WriteThenInvalidate ==
    ASSUME IInv, Onward, NEW c \in Calls, NEW users \in SUBSET Users, call[c].op # "none",
           Invalidate(c, users)
    PROVE  /\ call' \in [Calls -> CallRecord] /\ CallsSound'
           /\ \A d \in Calls \ {c} : StaysPending(d)
           /\ \A u \in users : u \in PendingOf(call[c])'
<1>1. TypeOK /\ CallsSound /\ call[c] \in CallRecord /\ Sound(call[c])
  BY DEF IInv, TypeOK, CallsSound
<1>2. PICK k \in CallRecord :
         /\ Become(c, k) /\ Sound(k)
         /\ k.pc = IF users = {} THEN "idle" ELSE "invalidate"
         /\ users # {} => k.rest = users
  BY <1>1, InvalidateBecomes
<1>3. Sound(k)'
  BY <1>2, SoundStays
<1>4. call'[c] = k /\ \A d \in Calls \ {c} : StaysPending(d)
  BY <1>1, <1>2, OneMoves
<1> QED BY <1>1, <1>2, <1>3, <1>4, BecomeSound DEF PendingOf

LEMMA StatusWriteStep == ASSUME IInv, NEW c \in Calls, StatusWrite(c) PROVE IInv'
<1>0. PICK u \in Users : u = call[c].user
  BY DEF IInv, CallsSound, Sound, StatusWrite, At
<1>1. /\ TypeOK /\ call[c] \in CallRecord
      /\ call[c].op = "status" /\ call[c].pc = "write"
      /\ call[c].status \in {"ACTIVE", "SUSPENDED", "DEACTIVATED"}
  BY DEF IInv, TypeOK, CallsSound, Sound, StatusWrite, At
<1>2. /\ status' = [status EXCEPT ![u] = call[c].status]
      /\ UNCHANGED <<realm, invitation, assigned, state, grants, cache, missed, begun>>
  BY <1>0 DEF StatusWrite
<1>3. Onward
  BY <1>1, <1>2 DEF Onward, TypeOK, Outside
<1>4. PICK users \in SUBSET Users : users = (IF realm = "tenant" THEN {u} ELSE {})
                                    /\ Invalidate(c, users)
  BY <1>0 DEF StatusWrite
<1>5. /\ call' \in [Calls -> CallRecord] /\ CallsSound'
      /\ \A d \in Calls \ {c} : StaysPending(d)
      /\ \A v \in users : v \in PendingOf(call[c])'
  BY <1>1, <1>3, <1>4, WriteThenInvalidate
<1>6. TypeOK'
  BY <1>1, <1>2, <1>5 DEF TypeOK, MembershipStatus
<1>7. MembersSound'
  BY <1>1, <1>2 DEF IInv, TypeOK, MembersSound, MemberSound, Outside
<1>8. EntriesFollowChanges'
  <2>1. ASSUME NEW v \in Users \ users PROVE Followed(v)'
    <3>1. status'[v] = status[v] \/ realm # "tenant"
      BY <1>1, <1>2, <1>4 DEF TypeOK
    <3>2. Granted(v)' = Granted(v)
      BY <1>1, <1>2, <3>1, SameGranted
    <3>3. PendingOf(call[c]) = {}
      BY <1>1 DEF PendingOf
    <3> QED BY <1>2, <1>5, <3>2, <3>3, Unconcerned
  <2>2. \A v \in users : Followed(v)'
    BY <1>5 DEF Followed
  <2> QED BY <2>1, <2>2, EachFollowedNext
<1> QED BY <1>5, <1>6, <1>7, <1>8 DEF IInv

\* Replace: the caller has the user's entry to delete, and the rows of the user that others
\* were to remove are gone.
LEMMA ReplaceMoves ==
    ASSUME IInv, Onward, NEW c \in Calls, NEW u \in Users, NEW roles \in SUBSET Roles,
           call[c].op \in {"roles", "remove"}, Replace(c, u, roles)
    PROVE  /\ call' \in [Calls -> CallRecord] /\ CallsSound'
           /\ \A d \in Calls \ {c} : StaysPending(d)
           /\ u \in PendingOf(call[c])'
           /\ call'[c].pc = "invalidate"
<1>1. ASSUME NEW d \in Calls PROVE call[d] \in CallRecord /\ Sound(call[d])
  BY DEF IInv, TypeOK, CallsSound
<1>2. \A k \in CallRecord : Sound(k) => Sound(k)'
  BY SoundStays
<1>3. call' = [d \in Calls |-> call'[d]]
  BY DEF Replace
<1>4. ASSUME NEW d \in Calls \ {c}
      PROVE  call'[d] \in CallRecord /\ Sound(call[d])' /\ StaysPending(d)
  <2> DEFINE gone == call[d].op = "remove" /\ call[d].user = u /\ call[d].role \in roles
  <2>1. call'[d] = IF gone THEN [call[d] EXCEPT !.role = NoRole] ELSE call[d]
    BY DEF Replace
  <2>2. CASE ~ gone
    <3>1. PICK k \in CallRecord : k = call[d] /\ k = call'[d] /\ Sound(k)
      BY <1>1, <2>1, <2>2
    <3> QED BY <1>2, <3>1 DEF StaysPending
  <2>3. CASE gone
    <3> DEFINE e == [call[d] EXCEPT !.role = NoRole]
    <3>1. e \in CallRecord /\ e.op = "remove" /\ e.role = NoRole /\ e.user = call[d].user
          /\ e.pc = call[d].pc /\ e.rest = call[d].rest
      BY <1>1, <2>3 DEF CallRecord
    <3>2. Sound(call[d]) /\ call[d].op = "remove" /\ call'[d] = e
      BY <1>1, <2>1, <2>3
    <3> HIDE DEF e
    <3>3. PICK k \in CallRecord : k = e
      BY <3>1
    <3>4. Sound(k)
      BY <3>1, <3>2, <3>3 DEF Sound
    <3>5. call[d].pc # "members"
      BY <3>2 DEF Sound
    <3> QED BY <1>2, <3>1, <3>2, <3>3, <3>4, <3>5 DEF StaysPending
  <2> QED BY <2>2, <2>3
<1>5. call'[c] \in CallRecord /\ Sound(call[c])' /\ u \in PendingOf(call[c])'
      /\ call'[c].pc = "invalidate"
  <2> DEFINE e == [call[c] EXCEPT !.pc = "invalidate", !.rest = {u}]
  <2>1. e \in CallRecord /\ e.pc = "invalidate" /\ e.rest = {u} /\ e.op = call[c].op
        /\ e.user = call[c].user /\ e.role = call[c].role /\ e.set = call[c].set
    BY <1>1 DEF CallRecord, Pcs
  <2>2. call'[c] = e
    BY DEF Replace
  <2> HIDE DEF e
  <2>3. PICK k \in CallRecord : k = e
    BY <2>1
  <2>4. Sound(k)
    BY <1>1, <2>1, <2>3 DEF Sound
  <2> QED BY <1>2, <2>1, <2>2, <2>3, <2>4 DEF PendingOf
<1> QED BY <1>3, <1>4, <1>5 DEF CallsSound

\* setUserRoles and removeRoleMember, by what they make of the roles of u.
LEMMA RolesReplaced ==
    ASSUME IInv, NEW c \in Calls, NEW u \in Users, NEW roles \in SUBSET Roles,
           call[c].op \in {"roles", "remove"}, call[c].pc = "write",
           NEW next \in SUBSET Roles, \A r \in next : state[r] # "none",
           assigned' = [assigned EXCEPT ![u] = next], Replace(c, u, roles),
           UNCHANGED <<realm, status, invitation, state, grants, cache, missed, begun>>
    PROVE  IInv'
<1>1. Onward
  BY DEF Onward
<1>2. /\ call' \in [Calls -> CallRecord] /\ CallsSound'
      /\ \A d \in Calls \ {c} : StaysPending(d)
      /\ u \in PendingOf(call[c])'
  BY <1>1, ReplaceMoves
<1>3. TypeOK'
  BY <1>2 DEF IInv, TypeOK
<1>4. MembersSound'
  BY DEF IInv, TypeOK, MembersSound, MemberSound
<1>5. EntriesFollowChanges'
  <2>1. ASSUME NEW v \in Users \ {u} PROVE Followed(v)'
    <3>1. assigned'[v] = assigned[v]
      BY DEF IInv, TypeOK
    <3>2. Granted(v)' = Granted(v)
      BY <3>1, SameGranted DEF IInv
    <3>3. PendingOf(call[c]) = {}
      BY DEF PendingOf
    <3> QED BY <1>2, <3>1, <3>2, <3>3, Unconcerned
  <2>2. Followed(u)'
    BY <1>2 DEF Followed
  <2> QED BY <2>1, <2>2, EachFollowedNext
<1> QED BY <1>2, <1>3, <1>4, <1>5 DEF IInv

LEMMA RolesWriteStep == ASSUME IInv, NEW c \in Calls, RolesWrite(c) PROVE IInv'
<1>1. PICK u \in Users : u = call[c].user
  BY DEF IInv, CallsSound, Sound, RolesWrite, At
<1>2. PICK next \in SUBSET Roles : next = call[c].set
  BY DEF IInv, CallsSound, Sound, RolesWrite, At
<1>3. \A r \in next : state[r] # "none"
  BY <1>2 DEF IInv, CallsSound, Sound, RolesWrite, At
<1> QED BY <1>1, <1>2, <1>3, RolesReplaced DEF RolesWrite, At

LEMMA InvalidateOneStep ==
    ASSUME IInv, NEW c \in Calls, NEW u \in Users, InvalidateOne(c, u) PROVE IInv'
<1>1. TypeOK /\ call[c] \in CallRecord /\ Sound(call[c]) /\ call[c].pc = "invalidate"
  BY DEF IInv, TypeOK, CallsSound, InvalidateOne
<1>2. PICK users \in SUBSET Users : users = call[c].rest \ {u} /\ Invalidate(c, users)
  BY <1>1 DEF InvalidateOne, CallRecord
<1>3. Onward
  BY DEF Onward, InvalidateOne, rows
<1>4. call[c].op # "none"
  BY <1>1 DEF Sound
<1>5. /\ call' \in [Calls -> CallRecord] /\ CallsSound'
      /\ \A d \in Calls \ {c} : StaysPending(d)
      /\ \A v \in users : v \in PendingOf(call[c])'
  BY <1>2, <1>3, <1>4, WriteThenInvalidate
<1>6. cache'[u] = Nothing /\ \A v \in Users \ {u} : cache'[v] = cache[v]
  BY <1>1 DEF InvalidateOne, TypeOK
<1>7. TypeOK'
  BY <1>1, <1>5 DEF InvalidateOne, TypeOK, rows, Nothing
<1>8. MembersSound'
  BY <1>6 DEF IInv, MembersSound, MemberSound, InvalidateOne, rows
<1>9. EntriesFollowChanges'
  <2>1. ASSUME NEW v \in Users \ {u} PROVE Followed(v)'
    <3>1. Granted(v)' = Granted(v)
      BY <1>1, SameGranted DEF InvalidateOne, rows
    <3>2. v \in PendingOf(call[c]) => v \in users
      BY <1>1, <1>2 DEF PendingOf
    <3>3. v \in missed => v \in missed'
      BY DEF InvalidateOne
    <3> QED BY <1>5, <1>6, <3>1, <3>2, <3>3, Unconcerned DEF InvalidateOne, rows
  <2>2. Followed(u)'
    BY <1>6, NothingFollowed
  <2> QED BY <2>1, <2>2, EachFollowedNext
<1> QED BY <1>5, <1>7, <1>8, <1>9 DEF IInv

LEMMA MemberWriteStep == ASSUME IInv, NEW c \in Calls, MemberWrite(c) PROVE IInv'
<1>1. call[c].op \in {"add", "remove"} /\ call[c].pc = "write" /\ TypeOK /\ Sound(call[c])
  BY DEF IInv, CallsSound, MemberWrite, At
<1>2. PICK u \in Users : u = call[c].user
  BY <1>1 DEF Sound
<1>3. UNCHANGED <<realm, status, invitation, state, grants, cache, missed, begun>>
  BY DEF MemberWrite
<1>4. PendingOf(call[c]) = {}
  BY <1>1 DEF PendingOf
<1>5. CASE At(c, "add", "write")
  <2>0. call[c].op = "add" /\ call[c].role \in Roles /\ state[call[c].role] # "none"
    BY <1>1, <1>5 DEF Sound, At
  <2>1. PICK r \in Roles : r = call[c].role /\ state[r] # "none"
    BY <2>0
  <2>2. assigned' = [assigned EXCEPT ![u] = @ \union {r}] /\ Invalidate(c, {u})
    BY <1>2, <1>5, <2>1 DEF MemberWrite, At
  <2>3. Onward
    BY <1>3 DEF Onward
  <2>4. /\ call' \in [Calls -> CallRecord] /\ CallsSound'
        /\ \A d \in Calls \ {c} : StaysPending(d)
        /\ \A v \in {u} : v \in PendingOf(call[c])'
    BY <1>1, <2>2, <2>3, WriteThenInvalidate
  <2>5. TypeOK'
    BY <1>1, <1>3, <2>2, <2>4 DEF TypeOK
  <2>6. MembersSound'
    BY <1>1, <1>3, <2>1, <2>2 DEF IInv, TypeOK, MembersSound, MemberSound
  <2>7. EntriesFollowChanges'
    <3>1. ASSUME NEW v \in Users \ {u} PROVE Followed(v)'
      <4>1. assigned'[v] = assigned[v]
        BY <1>1, <2>2 DEF TypeOK
      <4>2. Granted(v)' = Granted(v)
        BY <1>1, <1>3, <4>1, SameGranted
      <4> QED BY <1>3, <1>4, <2>4, <4>1, <4>2, Unconcerned
    <3>2. Followed(u)'
      BY <2>4 DEF Followed
    <3> QED BY <3>1, <3>2, EachFollowedNext
  <2> QED BY <2>4, <2>5, <2>6, <2>7 DEF IInv
<1>6. CASE At(c, "remove", "write") /\ call[c].role = NoRole
  BY <1>3, <1>4, <1>6, FinishStep DEF MemberWrite, At, rows
<1>7. CASE At(c, "remove", "write") /\ call[c].role # NoRole
  <2>1. PICK r \in Roles : r = call[c].role
    BY <1>1, <1>7 DEF Sound, At
  <2>2. assigned' = [assigned EXCEPT ![u] = @ \ {r}] /\ Replace(c, u, {r})
    BY <1>2, <1>7, <2>1 DEF MemberWrite, At
  <2>3. PICK next \in SUBSET Roles : next = assigned[u] \ {r}
    BY <1>1 DEF TypeOK
  <2>4. assigned' = [assigned EXCEPT ![u] = next] /\ \A q \in next : state[q] # "none"
    BY <2>2, <2>3 DEF IInv, MembersSound, MemberSound
  <2>5. call[c].op \in {"roles", "remove"} /\ {r} \in SUBSET Roles
    BY <1>7 DEF At
  <2> QED BY <1>1, <1>3, <2>2, <2>3, <2>4, <2>5, RolesReplaced
<1> QED BY <1>5, <1>6, <1>7 DEF MemberWrite

LEMMA PermissionsWriteStep == ASSUME IInv, NEW c \in Calls, PermissionsWrite(c) PROVE IInv'
<1>1. TypeOK /\ call[c] \in CallRecord /\ Sound(call[c])
      /\ call[c].op = "permissions" /\ call[c].pc = "write"
  BY DEF IInv, TypeOK, CallsSound, PermissionsWrite, At
<1>2. PICK r \in Roles : r = call[c].role
  BY <1>1 DEF Sound
<1>3. call[c].set \in SUBSET Grantable
  BY <1>1 DEF Sound
<1>4. /\ grants' = [grants EXCEPT ![r] = call[c].set]
      /\ UNCHANGED <<realm, status, invitation, assigned, state, cache, missed, begun>>
  BY <1>2 DEF PermissionsWrite
<1>5. Onward
  BY <1>4 DEF Onward
<1>6. PICK k \in CallRecord : Become(c, k) /\ Sound(k) /\ k.pc = "members" /\ k.role = r
  <2> DEFINE e == [call[c] EXCEPT !.pc = "members"]
  <2>1. e \in CallRecord /\ e.pc = "members" /\ e.op = "permissions" /\ e.role = r
        /\ e.set = call[c].set
    BY <1>1, <1>2 DEF CallRecord, Pcs
  <2>2. Become(c, e)
    BY DEF PermissionsWrite
  <2> HIDE DEF e
  <2>3. Sound(e)
    BY <1>1, <1>2, <2>1 DEF Sound
  <2> QED BY <2>1, <2>2, <2>3
<1>7. Sound(k)'
  BY <1>5, <1>6, SoundStays
<1>8. call' \in [Calls -> CallRecord] /\ CallsSound'
  BY <1>1, <1>5, <1>6, <1>7, BecomeSound DEF IInv
<1>9. call'[c] = k /\ \A d \in Calls \ {c} : StaysPending(d)
  BY <1>1, <1>6, OneMoves
<1>10. TypeOK'
  BY <1>1, <1>3, <1>4, <1>8 DEF TypeOK
<1>11. MembersSound'
  BY <1>4 DEF IInv, MembersSound, MemberSound
<1>12. EntriesFollowChanges'
  <2>1. ASSUME NEW v \in Users, r \notin assigned[v] PROVE Followed(v)'
    <3>1. \A q \in assigned[v] : grants'[q] = grants[q]
      BY <1>1, <1>4, <2>1 DEF TypeOK
    <3>2. Granted(v)' = Granted(v)
      BY <1>1, <1>4, <3>1, SameGranted
    <3>3. PendingOf(call[c]) = {}
      BY <1>1 DEF PendingOf
    <3> QED BY <1>4, <1>9, <3>2, <3>3, Unconcerned
  <2>2. ASSUME NEW v \in Users, r \in assigned[v] PROVE Followed(v)'
    <3>1. v \in PendingOf(call[c])'
      BY <1>4, <1>6, <1>9, <2>2 DEF PendingOf, Members
    <3> QED BY <3>1 DEF Followed
  <2> QED BY <2>1, <2>2, EachFollowedNext
<1> QED BY <1>8, <1>10, <1>11, <1>12 DEF IInv

LEMMA MembersReadStep == ASSUME IInv, NEW c \in Calls, MembersRead(c) PROVE IInv'
<1>1. TypeOK /\ call[c] \in CallRecord /\ Sound(call[c])
      /\ call[c].op = "permissions" /\ call[c].pc = "members"
  BY DEF IInv, TypeOK, CallsSound, MembersRead, At
<1>2. PICK users \in SUBSET Users : users = Members(call[c].role) /\ Invalidate(c, users)
  BY DEF MembersRead, Members
<1>3. PICK k \in CallRecord :
         /\ Become(c, k) /\ Sound(k)
         /\ k.pc = IF users = {} THEN "idle" ELSE "invalidate"
         /\ users # {} => k.rest = users
  BY <1>1, <1>2, InvalidateBecomes
<1>4. PendingOf(call[c]) = users /\ PendingOf(k) = users
  BY <1>1, <1>2, <1>3 DEF PendingOf
<1>5. begun' \in Nat /\ UNCHANGED <<realm, rows, cache, missed>>
  BY <1>1 DEF MembersRead, TypeOK
<1> QED BY <1>3, <1>4, <1>5, ReadStep

LEMMA DeleteRoleWriteStep == ASSUME IInv, NEW c \in Calls, DeleteRoleWrite(c) PROVE IInv'
<1>1. TypeOK /\ CallsSound /\ call[c].op = "delete" /\ call[c].pc = "write"
  BY DEF IInv, DeleteRoleWrite, At
<1>2. PICK r \in Roles : r = call[c].role
  BY <1>1 DEF CallsSound, Sound
<1>3. /\ state' = [state EXCEPT ![r] = "deleted"] /\ Become(c, NoCall)
      /\ UNCHANGED <<realm, status, invitation, assigned, grants, cache, missed, begun>>
  BY <1>2 DEF DeleteRoleWrite, Finish
<1>4. Onward /\ \A q \in Roles : state[q] = "deleted" => state'[q] = "deleted"
  BY <1>1, <1>3 DEF Onward, TypeOK
<1>5. Sound(NoCall)'
  BY <1>4, NoCallTyped, IdleSound, SoundStays
<1>6. call' \in [Calls -> CallRecord] /\ CallsSound' /\ \A d \in Calls \ {c} : StaysPending(d)
  BY <1>1, <1>3, <1>4, <1>5, NoCallTyped, BecomeSound, OneMoves
<1>7. TypeOK'
  BY <1>1, <1>3, <1>6 DEF TypeOK
<1>8. MembersSound'
  BY <1>1, <1>3, <1>4 DEF IInv, TypeOK, MembersSound, MemberSound, Onward
<1>9. EntriesFollowChanges'
  <2>1. ASSUME NEW v \in Users, r \notin assigned[v] PROVE Followed(v)'
    <3>1. Granted(v)' = Granted(v)
      BY <1>1, <1>3, <2>1, SameGranted DEF TypeOK
    <3>2. PendingOf(call[c]) = {}
      BY <1>1 DEF PendingOf
    <3> QED BY <1>3, <1>4, <1>6, <3>1, <3>2, Unconcerned
  <2>2. ASSUME NEW v \in Users, r \in assigned[v] PROVE Followed(v)'
    BY <1>1, <1>3, <2>2 DEF Followed, TypeOK
  <2> QED BY <2>1, <2>2, EachFollowedNext
<1> QED BY <1>6, <1>7, <1>8, <1>9 DEF IInv

LEMMA InviteWriteStep == ASSUME IInv, NEW c \in Calls, InviteWrite(c) PROVE IInv'
<1>1. /\ TypeOK /\ CallsSound /\ Sound(call[c]) /\ call[c].op = "invite" /\ call[c].pc = "write"
      /\ call[c].status \in {"PENDING", "INVITED", "ACTIVE"}
  BY DEF IInv, CallsSound, Sound, InviteWrite, At
<1>2. PICK u \in Users : u = call[c].user
  BY <1>1 DEF Sound
<1>3. Finish(c) /\ UNCHANGED <<realm, state, grants, cache, missed, begun>>
  BY DEF InviteWrite
<1>4. PendingOf(call[c]) = {}
  BY <1>1 DEF PendingOf
<1>5. CASE status[u] # "NONE"
  <2>1. UNCHANGED <<status, invitation, assigned>>
    BY <1>2, <1>5 DEF InviteWrite
  <2> QED BY <1>3, <1>4, <2>1, FinishStep DEF rows
<1>6. CASE status[u] = "NONE"
  <2>1. PICK next \in SUBSET Roles :
          next = call[c].set /\ \A r \in next : state[r] # "none"
    BY <1>1 DEF Sound
  <2>2. PICK s \in {"INVITED", "ACTIVE"}, i \in {"PENDING", "NONE"} :
          /\ status' = [status EXCEPT ![u] = s] /\ invitation' = [invitation EXCEPT ![u] = i]
    BY <1>2, <1>6 DEF InviteWrite
  <2>3. assigned' = [assigned EXCEPT ![u] = next]
    BY <1>2, <1>6, <2>1 DEF InviteWrite
  <2>4. Onward
    BY <1>1, <1>3, <1>6, <2>2 DEF Onward, TypeOK, Outside
  <2>5. Sound(NoCall)'
    BY <2>4, NoCallTyped, IdleSound, SoundStays
  <2>6. call' \in [Calls -> CallRecord] /\ CallsSound' /\ \A d \in Calls \ {c} : StaysPending(d)
    BY <1>1, <1>3, <2>4, <2>5, NoCallTyped, BecomeSound, OneMoves DEF Finish
  <2>7. TypeOK'
    BY <1>1, <1>3, <2>2, <2>3, <2>6 DEF TypeOK, MembershipStatus, InvitationStatus
  <2>8. cache[u] = Nothing
    BY <1>6 DEF IInv, MembersSound, MemberSound, Outside
  <2>9. MembersSound'
    BY <1>1, <1>3, <2>1, <2>2, <2>3, <2>8 DEF IInv, TypeOK, MembersSound, MemberSound
  <2>10. EntriesFollowChanges'
    <3>1. ASSUME NEW v \in Users \ {u} PROVE Followed(v)'
      <4>1. assigned'[v] = assigned[v] /\ status'[v] = status[v]
        BY <1>1, <2>2, <2>3 DEF TypeOK
      <4>2. Granted(v)' = Granted(v)
        BY <1>1, <1>3, <4>1, SameGranted
      <4> QED BY <1>3, <1>4, <2>6, <4>1, <4>2, Unconcerned
    <3>2. Followed(u)'
      BY <1>3, <2>8, NothingFollowed
    <3> QED BY <3>1, <3>2, EachFollowedNext
  <2> QED BY <2>6, <2>7, <2>9, <2>10 DEF IInv
<1> QED BY <1>5, <1>6

LEMMA AnswerWriteStep == ASSUME IInv, NEW c \in Calls, AnswerWrite(c) PROVE IInv'
<1>1. /\ TypeOK /\ CallsSound /\ Sound(call[c]) /\ call[c].op \in {"accept", "revoke"}
      /\ call[c].pc = "write"
  BY DEF IInv, CallsSound, AnswerWrite
<1>2. PICK u \in Users : u = call[c].user /\ status[u] # "NONE"
  BY <1>1 DEF Sound
<1>3. Finish(c) /\ UNCHANGED <<realm, assigned, state, grants, cache, missed, begun>>
  BY DEF AnswerWrite
<1>4. PICK s \in {"ACTIVE", "DEACTIVATED"}, i \in {"ACCEPTED", "REVOKED"} :
        /\ invitation' = [invitation EXCEPT ![u] = i]
        /\ status' = [status EXCEPT ![u] = IF @ = "INVITED" THEN s ELSE @]
  BY <1>1, <1>2 DEF AnswerWrite, Accept, Revoke
<1>5. Onward
  BY <1>1, <1>3, <1>4 DEF Onward, TypeOK, Outside
<1>6. Sound(NoCall)'
  BY <1>5, NoCallTyped, IdleSound, SoundStays
<1>7. call' \in [Calls -> CallRecord] /\ CallsSound' /\ \A d \in Calls \ {c} : StaysPending(d)
  BY <1>1, <1>3, <1>5, <1>6, NoCallTyped, BecomeSound, OneMoves DEF Finish
<1>8. TypeOK'
  BY <1>1, <1>3, <1>4, <1>7 DEF TypeOK, MembershipStatus, InvitationStatus
<1>9. MembersSound'
  BY <1>1, <1>2, <1>3, <1>4 DEF IInv, TypeOK, MembersSound, MemberSound, Outside
<1>10. EntriesFollowChanges'
  <2>1. ASSUME NEW v \in Users, status'[v] = status[v] PROVE Followed(v)'
    <3>1. Granted(v)' = Granted(v)
      BY <1>1, <1>3, <2>1, SameGranted
    <3>2. PendingOf(call[c]) = {}
      BY <1>1 DEF PendingOf
    <3> QED BY <1>3, <1>7, <3>1, <3>2, Unconcerned
  <2>2. ASSUME NEW v \in Users, status'[v] # status[v] PROVE Followed(v)'
    <3>1. status[v] = "INVITED"
      BY <1>1, <1>4, <2>2 DEF TypeOK
    <3>2. CASE realm = "tenant"
      <4>1. cache'[v] = Nothing
        BY <1>3, <3>1, <3>2 DEF IInv, MembersSound, MemberSound, Outside
      <4> QED BY <4>1, NothingFollowed
    <3>3. CASE realm # "tenant"
      <4>1. Granted(v)' = Granted(v)
        BY <1>3, <3>3 DEF Granted, Live
      <4>2. PendingOf(call[c]) = {}
        BY <1>1 DEF PendingOf
      <4> QED BY <1>3, <1>7, <4>1, <4>2, Unconcerned
    <3> QED BY <3>2, <3>3
  <2> QED BY <2>1, <2>2, EachFollowedNext
<1> QED BY <1>7, <1>8, <1>9, <1>10 DEF IInv

LEMMA AbortStep == ASSUME IInv, NEW c \in Calls, Abort(c) PROVE IInv'
<1>1. TypeOK /\ CallsSound /\ call[c] \in CallRecord
  BY DEF IInv, TypeOK
<1>2. Finish(c) /\ UNCHANGED <<realm, rows, cache, begun>>
  BY DEF Abort
<1>3. Onward
  BY <1>2 DEF Onward, rows
<1>4. Sound(NoCall)'
  BY <1>3, NoCallTyped, IdleSound, SoundStays
<1>5. call' \in [Calls -> CallRecord] /\ CallsSound' /\ \A d \in Calls \ {c} : StaysPending(d)
  BY <1>1, <1>2, <1>3, <1>4, NoCallTyped, BecomeSound, OneMoves DEF Finish
<1>6. missed' = missed \union {v \in PendingOf(call[c]) : cache[v] # Nothing}
  BY DEF Abort, Pending, PendingOf
<1>7. PendingOf(call[c]) \subseteq Users
  BY <1>1 DEF PendingOf, Members, CallRecord
<1>8. TypeOK'
  BY <1>1, <1>2, <1>5, <1>6, <1>7 DEF TypeOK, rows
<1>9. MembersSound'
  BY <1>2 DEF IInv, MembersSound, MemberSound, rows
<1>10. EntriesFollowChanges'
  <2>1. ASSUME NEW v \in Users, v \notin PendingOf(call[c]) PROVE Followed(v)'
    <3>1. Granted(v)' = Granted(v)
      BY <1>1, <1>2, SameGranted DEF rows
    <3> QED BY <1>2, <1>5, <1>6, <2>1, <3>1, Unconcerned DEF rows
  <2>2. ASSUME NEW v \in Users, v \in PendingOf(call[c]) PROVE Followed(v)'
    BY <1>2, <1>6, <2>2 DEF Followed
  <2> QED BY <2>1, <2>2, EachFollowedNext
<1> QED BY <1>5, <1>8, <1>9, <1>10 DEF IInv

--------------------------------------------------------------------------------
LEMMA InitIInv == Init => IInv
<1> SUFFICES ASSUME Init PROVE IInv
  OBVIOUS
<1>1. TypeOK
  BY NoCallTyped, AuthorizationAssumption
     DEF Init, TypeOK, MembershipStatus, InvitationStatus, Nothing
<1>2. CallsSound
  BY IdleSound DEF Init, CallsSound
<1>3. MembersSound
  BY AuthorizationAssumption DEF Init, MembersSound, MemberSound
<1>4. EntriesFollowChanges
  BY DEF Init, EntriesFollowChanges
<1> QED BY <1>1, <1>2, <1>3, <1>4 DEF IInv

LEMMA CallStepIInv == ASSUME IInv, NEW c \in Calls, CallStep(c) PROVE IInv'
<1>1. ASSUME NEW u \in Users, LoadMiss(c, u) PROVE IInv'
  BY <1>1, LoadMissStep
<1>2. ASSUME NEW u \in Users, NEW to \in MembershipStatus \ {"NONE", "INVITED"}, StatusRead(c, u, to)
      PROVE  IInv'
  BY <1>2, StatusReadStep
<1>3. ASSUME NEW u \in Users, NEW next \in SUBSET Roles, RolesRead(c, u, next) PROVE IInv'
  BY <1>3, RolesReadStep
<1>4. ASSUME NEW u \in Users, InvalidateOne(c, u) PROVE IInv'
  BY <1>4, InvalidateOneStep
<1>5. ASSUME NEW u \in Users, NEW op \in {"add", "remove"}, NEW r \in Roles, MemberRead(c, op, u, r)
      PROVE  IInv'
  BY <1>5, MemberReadStep
<1>6. ASSUME NEW u \in Users, NEW to \in {"PENDING", "INVITED", "ACTIVE"}, NEW roles \in SUBSET Roles,
             InviteRead(c, u, to, roles)
      PROVE  IInv'
  BY <1>6, InviteReadStep
<1>7. ASSUME NEW u \in Users, NEW op \in {"accept", "revoke"}, AnswerRead(c, op, u) PROVE IInv'
  BY <1>7, AnswerReadStep
<1>8. ASSUME NEW r \in Roles, NEW codes \in SUBSET Grantable, PermissionsRead(c, r, codes) PROVE IInv'
  BY <1>8, PermissionsReadStep
<1>9. ASSUME NEW r \in Roles, DeleteRoleRead(c, r) PROVE IInv'
  BY <1>9, DeleteRoleReadStep
<1>10. CASE LoadRead(c) \/ LoadPut(c) \/ Count(c)
  BY <1>10, LoadReadStep, LoadPutStep, CountStep
<1>11. CASE StatusWrite(c) \/ RolesWrite(c) \/ MemberWrite(c) \/ PermissionsWrite(c)
  BY <1>11, StatusWriteStep, RolesWriteStep, MemberWriteStep, PermissionsWriteStep
<1>12. CASE MembersRead(c) \/ DeleteRoleWrite(c) \/ InviteWrite(c) \/ AnswerWrite(c) \/ Abort(c)
  BY <1>12, MembersReadStep, DeleteRoleWriteStep, InviteWriteStep, AnswerWriteStep, AbortStep
<1> QED BY <1>1, <1>2, <1>3, <1>4, <1>5, <1>6, <1>7, <1>8, <1>9, <1>10, <1>11, <1>12 DEF CallStep

LEMMA NextIInv == IInv /\ [Next]_vars => IInv'
<1> SUFFICES ASSUME IInv, [Next]_vars PROVE IInv'
  OBVIOUS
<1>1. ASSUME NEW c \in Calls, CallStep(c) PROVE IInv'
  BY <1>1, CallStepIInv
<1>2. ASSUME NEW u \in Users, EntryExpires(u) PROVE IInv'
  BY <1>2, EntryExpiresStep
<1>3. ASSUME NEW r \in Roles, NEW codes \in SUBSET Grantable, CreateRole(r, codes) PROVE IInv'
  BY <1>3, CreateRoleStep
<1>4. CASE UNCHANGED vars
  <2>1. TypeOK' /\ CallsSound' /\ MembersSound'
    BY <1>4 DEF IInv, vars, TypeOK, CallsSound, Sound, MembersSound, MemberSound
  <2>2. EntriesFollowChanges'
    BY <1>4 DEF IInv, vars, EntriesFollowChanges, Granted, Live, Pending, Members
  <2> QED BY <2>1, <2>2 DEF IInv
<1> QED BY <1>1, <1>2, <1>3, <1>4 DEF Next

LEMMA Inductive == Spec => []IInv
BY InitIInv, NextIInv, PTL DEF Spec

\* For any users, roles and calls, the cache holds for no user what is out of date without a
\* call that is about to delete it, an entry put too late, or a role deleted while assigned.
THEOREM EntriesFollow == Spec => []EntriesFollowChanges
BY Inductive, PTL DEF IInv

--------------------------------------------------------------------------------
\* The steps that change who is a member, or what roles members have.
LEMMA MemberSteps ==
    ASSUME Next
    PROVE  \/ status' = status /\ assigned' = assigned
           \/ \E c \in Calls : \/ StatusWrite(c) \/ RolesWrite(c) \/ MemberWrite(c)
                               \/ InviteWrite(c) \/ AnswerWrite(c)
<1>1. ASSUME NEW c \in Calls, CallStep(c)
      PROVE  \/ status' = status /\ assigned' = assigned
             \/ StatusWrite(c) \/ RolesWrite(c) \/ MemberWrite(c) \/ InviteWrite(c) \/ AnswerWrite(c)
  BY <1>1 DEF CallStep, LoadMiss, StatusRead, RolesRead, InvalidateOne, MemberRead, InviteRead,
              AnswerRead, PermissionsRead, DeleteRoleRead, LoadRead, LoadPut, Count,
              PermissionsWrite, MembersRead, DeleteRoleWrite, Abort, Begin, rows
<1> QED BY <1>1 DEF Next, EntryExpires, CreateRole, rows

LEMMA GuardStep ==
    ASSUME IInv, Next, Admins # {}, Admins' = {}
    PROVE  \E c \in Calls : call'[c] # call[c] /\ LosesLast(c)
<1>0. TypeOK
  BY DEF IInv
<1>1. status' # status \/ assigned' # assigned
  BY DEF Admins
<1>2. ASSUME NEW c \in Calls, StatusWrite(c) PROVE call'[c] # call[c] /\ LosesLast(c)
  <2>1. PICK u \in Users : u = call[c].user
    BY <1>2 DEF IInv, CallsSound, Sound, StatusWrite, At
  <2>2. call[c] \in CallRecord /\ Sound(call[c]) /\ call[c].op = "status" /\ call[c].pc = "write"
    BY <1>2 DEF IInv, TypeOK, CallsSound, StatusWrite, At
  <2>3. Admins \subseteq {u}
    BY <1>0, <1>2, <2>1 DEF StatusWrite, Admins, TypeOK
  <2>4. LosesLast(c)
    BY <2>1, <2>2, <2>3 DEF LosesLast, Sound, CallRecord
  <2>5. PICK users \in SUBSET Users : Invalidate(c, users)
    BY <1>2, <2>1 DEF StatusWrite
  <2>6. PICK k \in CallRecord : Become(c, k) /\ k # call[c]
    BY <2>2, <2>5, InvalidateBecomes
  <2> QED BY <1>0, <2>4, <2>6, OneMoves
<1>3. ASSUME NEW c \in Calls, RolesWrite(c) PROVE call'[c] # call[c] /\ LosesLast(c)
  <2>1. PICK u \in Users : u = call[c].user
    BY <1>3 DEF IInv, CallsSound, Sound, RolesWrite, At
  <2>2. call[c] \in CallRecord /\ Sound(call[c]) /\ call[c].op = "roles" /\ call[c].pc = "write"
    BY <1>3 DEF IInv, TypeOK, CallsSound, RolesWrite, At
  <2>3. Admins \subseteq {u}
    BY <1>0, <1>3, <2>1 DEF RolesWrite, Admins, TypeOK
  <2>4. LosesLast(c)
    BY <2>1, <2>2, <2>3 DEF LosesLast, Sound, CallRecord
  <2>5. call'[c].pc = "invalidate"
    <3>1. Onward
      BY <1>3 DEF RolesWrite, Onward
    <3> QED BY <1>3, <2>1, <2>2, <3>1, ReplaceMoves, Roles \in SUBSET Roles DEF RolesWrite
  <2> QED BY <2>2, <2>4, <2>5
<1>4. ASSUME NEW c \in Calls, MemberWrite(c) PROVE call'[c] # call[c] /\ LosesLast(c)
  <2>1. call[c].op \in {"add", "remove"} /\ call[c].pc = "write" /\ Sound(call[c])
    BY <1>4 DEF IInv, CallsSound, MemberWrite, At
  <2>2. PICK u \in Users : u = call[c].user
    BY <2>1 DEF Sound
  <2>3. status' = status
    BY <1>4 DEF MemberWrite
  <2>4. ~ At(c, "add", "write")
    <3>1. ASSUME At(c, "add", "write") PROVE Admins \subseteq Admins'
      BY <1>0, <1>4, <2>2, <2>3, <3>1 DEF MemberWrite, Admins, TypeOK, At
    <3> QED BY <3>1
  <2>5. call[c].role # NoRole
    BY <1>1, <1>4, <2>3, <2>4 DEF MemberWrite, At
  <2>6. At(c, "remove", "write")
    BY <2>1, <2>4 DEF At
  <2>7. call'[c].pc = "invalidate"
    <3>1. Onward
      BY <1>4 DEF MemberWrite, Onward
    <3>2. PICK r \in Roles : r = call[c].role
      BY <2>1, <2>5, <2>6 DEF Sound, At
    <3>3. Replace(c, u, {r}) /\ {r} \in SUBSET Roles
      BY <1>4, <2>2, <2>4, <2>5, <3>2 DEF MemberWrite
    <3> QED BY <2>6, <3>1, <3>3, ReplaceMoves DEF At
  <2> QED BY <2>1, <2>6, <2>7 DEF LosesLast
<1>5. ASSUME NEW c \in Calls, InviteWrite(c) PROVE FALSE
  <2>1. PICK u \in Users : u = call[c].user
    BY <1>5 DEF IInv, CallsSound, Sound, InviteWrite, At
  <2>2. Admins \subseteq Admins'
    BY <1>0, <1>5, <2>1 DEF InviteWrite, Admins, TypeOK
  <2> QED BY <2>2
<1>6. ASSUME NEW c \in Calls, AnswerWrite(c) PROVE FALSE
  <2>1. PICK u \in Users : u = call[c].user
    BY <1>6 DEF IInv, CallsSound, Sound, AnswerWrite
  <2>2. Admins \subseteq Admins'
    BY <1>0, <1>6, <2>1 DEF AnswerWrite, Accept, Revoke, Admins, TypeOK
  <2> QED BY <2>2
<1> QED BY <1>1, <1>2, <1>3, <1>4, <1>5, <1>6, MemberSteps

\* Whatever interleaves, the last administrator is lost by a status or a change of roles only
\* when all the others that were counted have been lost meanwhile, or to removeRoleMember.
THEOREM LastAdministrator == Spec => LastAdministratorGuarded
<1>1. IInv /\ [Next]_vars =>
        [Admins # {} /\ Admins' = {} => \E c \in Calls : call'[c] # call[c] /\ LosesLast(c)]_vars
  BY GuardStep
<1> QED BY <1>1, Inductive, PTL DEF Spec, LastAdministratorGuarded

LEMMA RevokedStep ==
    ASSUME IInv, Next, NEW u \in Users, invitation[u] = "REVOKED", status[u] # "ACTIVE",
           status'[u] = "ACTIVE"
    PROVE  \E c \in Calls : At(c, "status", "write") /\ call[c].user = u
<1>1. TypeOK /\ status[u] # "NONE" /\ status[u] # "INVITED"
  BY DEF IInv, MembersSound, MemberSound
<1>2. ASSUME NEW c \in Calls, StatusWrite(c) PROVE At(c, "status", "write") /\ call[c].user = u
  BY <1>1, <1>2 DEF StatusWrite, TypeOK
<1>3. ASSUME NEW c \in Calls, InviteWrite(c) PROVE FALSE
  BY <1>1, <1>3 DEF InviteWrite, TypeOK
<1>4. ASSUME NEW c \in Calls, AnswerWrite(c) PROVE FALSE
  BY <1>1, <1>4 DEF AnswerWrite, Accept, Revoke, TypeOK
<1>5. ASSUME NEW c \in Calls, RolesWrite(c) \/ MemberWrite(c) PROVE FALSE
  BY <1>5 DEF RolesWrite, MemberWrite
<1> QED BY <1>2, <1>3, <1>4, <1>5, MemberSteps

\* A revoked invitation makes no member of its user, even when its acceptance had found it
\* pending: for any number of calls at once.
THEOREM RevokedStaysOut == Spec => RevokedAdmitsNobody
<1>1. IInv /\ [Next]_vars =>
        [\A u \in Users : invitation[u] = "REVOKED" /\ status[u] # "ACTIVE" /\ status'[u] = "ACTIVE"
            => \E c \in Calls : At(c, "status", "write") /\ call[c].user = u]_vars
  BY RevokedStep
<1> QED BY <1>1, Inductive, PTL DEF Spec, RevokedAdmitsNobody

-----------------------------------------------------------------------------
\* The mount a request is in: it begins with the base path, and the middleware let it through.
Within ==
    /\ place[1] \in 1..Len(Mounts)
    /\ Begins(Base(place), request.path)
    /\ \A i \in DOMAIN Mounts[place[1]].before : Admits(request.caller, Mounts[place[1]].before[i])
\* What the layers passed so far have made sure of, and no later one forgets.
SurfaceInv ==
    /\ place \in Nat \X Nat
    /\ pc \in {"mounts", "router"} /\ down => PassesDown(request.caller, request.path)
    /\ pc = "router" => Within
    /\ Reached =>
          /\ Within
          /\ place[2] \in 1..Len(Mounts[place[1]].router) /\ Layer(place).does = "handle"
          /\ Authorized(request.caller, Mounts[place[1]], Layer(place).codes)

\* The first of some numbers is one of them, and no other is before it.
LEMMA FirstIsOne ==
    ASSUME NEW S \in SUBSET Nat, S # {}
    PROVE  First(S) \in S /\ \A j \in S : First(S) <= j
<1>1. \A i, j \in Nat : j < i => <<j, i>> \in OpToRel(<, Nat)
  BY DEF OpToRel
<1>2. PICK i \in S : \A j \in S : ~ (<<j, i>> \in OpToRel(<, Nat))
  BY NatLessThanWellFounded, WFMin, Zenon
<1>3. \A j \in S : ~ (j < i)
  BY <1>1, <1>2, Zenon
<1>4. \A j \in S : i <= j
  BY <1>3
<1> QED
  BY <1>4, Zenon DEF First

\* No code of either catalog is the wildcard, and none belongs to both.
LEMMA PlatformCodesBegin == \A c \in ALL_PERMISSION_CODES : Len(c) >= 2 /\ c[1] = "admin"
<1>1. \A c \in AccessPermissions : Len(c) >= 2 /\ c[1] = "admin"
  BY DEF AccessPermissions, Codes
<1>2. \A c \in ConfigurationPermissions : Len(c) >= 2 /\ c[1] = "admin"
  BY DEF ConfigurationPermissions, Codes
<1>3. \A c \in OperationPermissions : Len(c) >= 2 /\ c[1] = "admin"
  BY DEF OperationPermissions, Codes
<1> QED
  BY <1>1, <1>2, <1>3 DEF ALL_PERMISSION_CODES

LEMMA TenantCodesBegin == \A c \in ALL_TENANT_PERMISSION_CODES : c[1] \notin {"admin", "*"}
<1>1. \A c \in OrganizationCodes \union StructureCodes : c[1] \notin {"admin", "*"}
  BY DEF OrganizationCodes, StructureCodes, Codes
<1>2. \A c \in DeskCodes \union PracticeCodes : c[1] \notin {"admin", "*"}
  BY DEF DeskCodes, PracticeCodes, Codes
<1>3. \A c \in ServiceCodes \union AssetCodes : c[1] \notin {"admin", "*"}
  BY DEF ServiceCodes, AssetCodes, Codes
<1>4. \A c \in ConnectionCodes \union ReportingCodes : c[1] \notin {"admin", "*"}
  BY DEF ConnectionCodes, ReportingCodes, Codes
<1> QED
  BY <1>1, <1>2, <1>3, <1>4 DEF ALL_TENANT_PERMISSION_CODES

\* Nobody holds the wildcard.
LEMMA NobodyHoldsAll == ASSUME NEW c PROVE Wildcard \notin Permissions(c)
<1>1. Wildcard \notin TenantGrants(c.role)
  BY TenantCodesBegin DEF Wildcard, TenantGrants
<1>2. Wildcard \notin PlatformGrants(c.role)
  BY PlatformCodesBegin DEF Wildcard, PlatformGrants
<1> QED
  BY <1>1, <1>2, Zenon DEF Permissions

LEMMA SurfaceInvInit == SurfaceInit => SurfaceInv
  BY DEF SurfaceInit, SurfaceInv, NoPlace, Reached

LEMMA SurfaceStep == ASSUME SurfaceInv, SurfaceNext PROVE SurfaceInv'
<1>1. CASE Arrive
  BY <1>1 DEF SurfaceInv, Arrive, Reached
<1>2. CASE Leave
  BY <1>2 DEF SurfaceInv, Leave, Reached, NoPlace
<1>3. ASSUME NEW read, pc = "gate", GateWith(read),
             UNCHANGED <<request, place>>
      PROVE  SurfaceInv'
  BY <1>3 DEF SurfaceInv, GateWith, Answer, Reached, PassesDown, Exempt, Permissions
<1>4. CASE Gate
  BY <1>3, <1>4, Zenon DEF Gate
<1>5. CASE GateUnread
  BY <1>3, <1>5 DEF GateUnread
<1>6. CASE CacheExpires
  BY <1>6 DEF SurfaceInv, CacheExpires, Reached, Within
<1>7. CASE Enter
  <2>1. CASE After(place[1]) = {}
    BY <1>7, <2>1 DEF SurfaceInv, Enter, Answer, Reached
  <2> SUFFICES ASSUME After(place[1]) # {} PROVE SurfaceInv'
    BY <2>1
  <2> DEFINE m == First(After(place[1]))
             before == Mounts[m].before
             refused == {i \in DOMAIN before : ~ Admits(request.caller, before[i])}
  <2>2. After(place[1]) \in SUBSET Nat
    BY DEF After, SurfaceInv
  <2>3. m \in After(place[1])
    BY <2>2, FirstIsOne, Zenon
  <2>4. m \in Nat /\ m \in 1..Len(Mounts) /\ Begins(Mounts[m].base, request.path)
    BY <2>3 DEF After, SurfaceInv
  <2>5. /\ place' = <<m, 0>> /\ UNCHANGED <<request, down>> /\ pc = "mounts"
        /\ IF refused = {} THEN pc' = "router" /\ UNCHANGED answer
           ELSE pc' = "answered" /\ answer' \in {"unauthorized", "forbidden"}
    BY <1>7, Zenon DEF Enter, Answer
  <2> HIDE DEF m
  <2>6. CASE refused = {}
    <3>1. \A i \in DOMAIN before : Admits(request.caller, before[i])
      BY <2>6
    <3>2. Within'
      BY <2>4, <2>5, <3>1 DEF Within, Base, Admits, Begins
    <3> QED
      BY <2>4, <2>5, <2>6, <3>2 DEF SurfaceInv, Reached, PassesDown, Exempt, Permissions
  <2>7. CASE refused # {}
    BY <2>4, <2>5, <2>7 DEF SurfaceInv, Reached
  <2> QED
    BY <2>6, <2>7
<1>8. CASE FallThrough
  BY <1>8 DEF SurfaceInv, FallThrough, Reached, PassesDown
<1>a. ASSUME pc = "router", NextLayers # {}, place' = Hit, UNCHANGED request
      PROVE  /\ place' \in Nat \X Nat /\ place'[1] = place[1] /\ Within'
             /\ place'[2] \in 1..Len(Mounts[place[1]].router)
  <2>1. NextLayers \in SUBSET Nat
    BY DEF NextLayers, SurfaceInv
  <2>2. First(NextLayers) \in NextLayers
    BY <1>a, <2>1, FirstIsOne, Zenon
  <2>3. First(NextLayers) \in Nat /\ First(NextLayers) \in 1..Len(Mounts[place[1]].router)
    BY <2>2 DEF NextLayers, SurfaceInv
  <2>4. place' = <<place[1], First(NextLayers)>> /\ place[1] \in Nat
    BY <1>a, Zenon DEF Hit, SurfaceInv
  <2>5. Within
    BY <1>a DEF SurfaceInv
  <2>6. Within'
    <3>1. place'[1] = place[1]
      BY <2>4
    <3> QED
      BY <1>a, <2>5, <3>1, Zenon DEF Within, Base
  <2> QED
    BY <2>3, <2>4, <2>6
<1>9. CASE Middleware
  <2>1. /\ place' \in Nat \X Nat /\ Within' /\ UNCHANGED <<request, down>>
        /\ pc = "router"
        /\ \/ pc' = "answered" /\ answer' = "archived"
           \/ UNCHANGED <<pc, answer>>
    BY <1>9, <1>a, Zenon DEF Middleware, Answer
  <2> QED
    BY <2>1 DEF SurfaceInv, Reached, PassesDown
<1>10. CASE Handle
  <2>1. /\ place' \in Nat \X Nat /\ place'[1] = place[1] /\ Within'
        /\ place'[2] \in 1..Len(Mounts[place[1]].router)
        /\ pc' = "answered" /\ UNCHANGED <<request, down>> /\ Layer(place').does = "handle"
        /\ answer' = "handled" => Authorized(request.caller, Mounts[place'[1]], Layer(place').codes)
    BY <1>10, <1>a DEF Handle, Answer
  <2>2. (Layer(place).does)' = "handle"
    BY <2>1 DEF Layer
  <2> QED
    BY <2>1 DEF SurfaceInv, Reached, Layer
<1> QED
  BY <1>1, <1>2, <1>4, <1>5, <1>6, <1>7, <1>8, <1>9, <1>10, Zenon DEF SurfaceNext
LEMMA SurfaceInvAlways == SurfaceSpec => []SurfaceInv
<1>1. ASSUME SurfaceInv, UNCHANGED surfaceVars PROVE SurfaceInv'
  BY <1>1 DEF surfaceVars, SurfaceInv, Reached, Within, Base, Layer, PassesDown, Exempt, Permissions
<1> QED
  BY SurfaceInvInit, SurfaceStep, <1>1, PTL DEF SurfaceSpec

\* A request gets to the side of the API its caller belongs to and to no other, for any caller,
\* any role and any request: the middleware of a mount, or the codes of the platform's routes,
\* of which no role of an organization has one.
THEOREM SidesAlwaysApart == SurfaceSpec => []SidesApart
<1>1. ASSUME SurfaceInv PROVE SidesApart
  <2> SUFFICES ASSUME Reached
               PROVE  CASE request.caller.type = "TENANT_USER" ->
                              Area(place) = "admin" => Base(place) = <<"admin", "my-account">>
                        [] request.caller.type = "anonymous" -> Area(place) \in {"health", "auth"}
                        [] OTHER -> Area(place) \notin {"itsm", "tenant-admin"}
    BY DEF SidesApart
  <2> DEFINE mount == Mounts[place[1]]
             before == Before(mount)
  <2>1. place[1] \in 1..Len(Mounts) /\ place[2] \in 1..Len(mount.router)
    BY <1>1 DEF SurfaceInv, Within
  <2>2. \A b \in before : Admits(request.caller, b)
    BY <1>1 DEF SurfaceInv, Within, Before
  <2>3. /\ mount.base[1] \notin {"health", "auth"} => "authenticate" \in before
        /\ mount.base[1] \in {"itsm", "tenant-admin"} => "requireTenantMembership" \in before
        /\ mount.base[1] = "admin" /\ mount.base # <<"admin", "my-account">> =>
              Layer(place).codes # {} /\ \A code \in Layer(place).codes : code[1] = "admin"
    BY <1>1, <2>1, MountsAssumption DEF SurfaceInv, Layer
  <2>4. CASE request.caller.type = "TENANT_USER"
    <3>1. ASSUME NEW code, code[1] = "admin" PROVE ~ hasPermission(request.caller, code)
      <4>1. Permissions(request.caller) \subseteq ALL_TENANT_PERMISSION_CODES
        BY <2>4 DEF Permissions, TenantGrants
      <4> QED
        BY <3>1, <4>1, TenantCodesBegin, NobodyHoldsAll, Zenon DEF hasPermission
    <3>2. Layer(place).codes = {} \/ \E code \in Layer(place).codes : hasPermission(request.caller, code)
      BY <1>1, Zenon DEF SurfaceInv, Authorized
    <3> QED
      BY <2>3, <2>4, <3>1, <3>2 DEF Area, Base
  <2>5. CASE request.caller.type = "anonymous"
    BY <2>2, <2>3, <2>5 DEF Area, Base, Admits
  <2>6. CASE request.caller.type \notin {"TENANT_USER", "anonymous"}
    BY <2>2, <2>3, <2>6 DEF Area, Base, Admits
  <2> QED
    BY <2>4, <2>5, <2>6
<1> QED
  BY <1>1, SurfaceInvAlways, PTL

\* Maintenance ends only by somebody from a listed address, or past a gate that had not read that
\* it was on, for any caller and any role: the wildcard is in neither catalog, so no role has it.
THEOREM MaintenanceAlwaysEndsFromListed == SurfaceSpec => MaintenanceEndsFromListed
<1>1. ASSUME SurfaceInv, SurfaceNext, maintenance, ~ maintenance'
      PROVE  request.caller.listed \/ ~ down
  <2>1. Handle
    BY <1>1 DEF SurfaceNext, Arrive, Leave, Gate, GateUnread, CacheExpires, Enter, FallThrough, Middleware
  <2>2. /\ pc = "router" /\ place' = <<place[1], First(NextLayers)>> /\ WritesMaintenance(place')
    BY <1>1, <2>1 DEF Handle, Hit
  <2>3. Base(place) \in {<<"admin", "system-administration">>, <<"admin", "platform-settings">>}
    BY <2>2 DEF WritesMaintenance, Base
  <2>4. request.path[1] = "admin"
    BY <1>1, <2>2, <2>3 DEF SurfaceInv, Within, Begins, Segment
  <2>5. down => PassesDown(request.caller, request.path)
    BY <1>1, <2>2 DEF SurfaceInv
  <2> QED
    BY <2>4, <2>5, NobodyHoldsAll DEF PassesDown, Exempt
<1> QED
  BY <1>1, SurfaceInvAlways, PTL DEF SurfaceSpec, MaintenanceEndsFromListed

--------------------------------------------------------------------------------
\* A request that is meant for a route, and one that is meant for none.
Meant ==
    /\ request.target \in Targets
    /\ request.method = Layer(request.target).on /\ request.path = PathTo(request.target)
Lost == request.target = NoPlace /\ request.path = <<"nowhere">>

\* How far a request comes that is meant for the route at p: not past it, and into another mount
\* on its way only where the path begins with that mount's.
OnItsWay(p) ==
    /\ pc \in {"idle", "gate"} => place = NoPlace
    /\ pc = "mounts" => place[1] < p[1]
    /\ pc = "router" =>
          \/ place[1] = p[1] /\ place[2] < p[2]
          \/ place[1] \in 1..(p[1] - 1) /\ Begins(Base(place), PathTo(p))
    /\ pc = "answered" =>
          /\ answer = "handled" => place = p
          /\ Entitled(request.caller, p) => answer \in {"handled", "maintenance", "archived"}
WayInv ==
    /\ place \in Nat \X Nat /\ pc \in {"idle", "gate", "mounts", "router", "answered"}
    /\ pc \in {"idle", "gate"} => place = NoPlace
    /\ pc # "answered" => answer # "handled"
    /\ pc # "idle" =>
          /\ request.caller \in Callers
          /\ \/ Meant /\ OnItsWay(request.target)
             \/ Lost /\ pc # "router" /\ answer # "handled"

\* The places of the routes.
LEMMA TargetPlaced ==
    ASSUME NEW p \in Targets
    PROVE  /\ p[1] \in 1..Len(Mounts) /\ p[2] \in 1..Len(Mounts[p[1]].router)
           /\ p = <<p[1], p[2]>> /\ p[1] \in Nat /\ p[2] \in Nat
           /\ Layer(p).does = "handle"
<1>1. PICK m \in 1..Len(Mounts) : p \in {m} \X (1..Len(Mounts[m].router))
  BY DEF Targets, Places
<1>2. Layer(p).does = "handle"
  BY DEF Targets
<1> QED
  BY <1>1, <1>2

\* Whoever is entitled to a route passes the middleware of its mount, and of those on the way.
LEMMA EntitledAdmitted ==
    ASSUME NEW p \in Targets, NEW c, Entitled(c, p), NEW b \in Before(Mounts[p[1]])
    PROVE  Admits(c, b)
<1>1. p[1] \in 1..Len(Mounts)
  BY TargetPlaced
<1>2. /\ Before(Mounts[p[1]]) \subseteq {"authenticate", "requireTenantMembership"}
      /\ "requireTenantMembership" \in Before(Mounts[p[1]]) => Area(p) \in {"itsm", "tenant-admin"}
      /\ "authenticate" \in Before(Mounts[p[1]]) =>
            Area(p) \in {"itsm", "tenant-admin", "admin"} \/ Base(p) = <<"auth", "sessions">>
  BY <1>1, MiddlewareAssumption DEF Area, Base
<1>3. /\ Area(p) \in {"itsm", "tenant-admin"} => c.type = "TENANT_USER"
      /\ Area(p) = "admin" \/ Base(p) = <<"auth", "sessions">> => c.type # "anonymous"
  BY Zenon DEF Entitled
<1>4. CASE b = "authenticate"
  BY <1>2, <1>3, <1>4 DEF Admits
<1>5. CASE b = "requireTenantMembership"
  BY <1>2, <1>3, <1>5 DEF Admits
<1> QED
  BY <1>2, <1>4, <1>5

\* Whoever is entitled to a route has a code it asks for.
LEMMA EntitledAuthorized ==
    ASSUME NEW p \in Targets, NEW c, Entitled(c, p)
    PROVE  /\ Authorized(c, Mounts[p[1]], Layer(p).codes)
           /\ ~ (Layer(p).signedIn /\ c.type = "anonymous")
<1>1. Cardinality(Layer(p).codes) = 1 => Layer(p).codes \subseteq Known(Mounts[p[1]])
  BY RoutesAssumption, Zenon DEF Meets
<1>2. Layer(p).codes # {} => \E code \in Layer(p).codes : code \in Permissions(c)
  BY Zenon DEF Entitled
<1>3. ~ (Layer(p).signedIn /\ c.type = "anonymous")
  BY Zenon DEF Entitled
<1> QED
  BY <1>1, <1>2, <1>3, Zenon DEF Authorized, hasPermission

\* A request that is meant for a route enters the route's mount, or one before it that asks for no
\* more.
LEMMA EnterOnTheWay == ASSUME WayInv, Meant, OnItsWay(request.target), Enter PROVE OnItsWay(request.target)'
<1> DEFINE p == request.target
           m == First(After(place[1]))
           before == Mounts[m].before
           refused == {i \in DOMAIN before : ~ Admits(request.caller, before[i])}
<1>1. /\ p \in Targets /\ p[1] \in 1..Len(Mounts) /\ p[1] \in Nat /\ p[2] \in 1..Len(Mounts[p[1]].router)
      /\ p[2] \in Nat
  BY TargetPlaced DEF Meant
<1>2. pc = "mounts" /\ place[1] \in Nat /\ place[1] < p[1]
  BY DEF Enter, OnItsWay, WayInv
<1>3. request.path = PathTo(p) /\ Begins(Base(p), PathTo(p))
  BY <1>1, RoutesAssumption, Zenon DEF Meant, Meets
<1>4. p[1] \in After(place[1])
  BY <1>1, <1>2, <1>3 DEF After, Base
<1>5. After(place[1]) \in SUBSET Nat
  BY <1>2 DEF After
<1>6. m \in After(place[1]) /\ m <= p[1]
  BY <1>4, <1>5, FirstIsOne, Zenon
<1>7. m \in 1..p[1] /\ Begins(Mounts[m].base, PathTo(p))
  BY <1>1, <1>2, <1>3, <1>6 DEF After
<1>8. Before(Mounts[m]) \subseteq Before(Mounts[p[1]])
  <2>1. CASE m = p[1]
    BY <2>1
  <2>2. CASE m # p[1]
    <3>1. m \in 1..(p[1] - 1)
      BY <1>1, <1>7, <2>2
    <3> QED
      BY <1>1, <1>7, <3>1, RoutesAssumption, Zenon
  <2> QED
    BY <2>1, <2>2
<1>9. /\ place' = <<m, 0>> /\ UNCHANGED request
      /\ IF refused = {} THEN pc' = "router" /\ UNCHANGED answer
         ELSE pc' = "answered" /\ answer' \in {"unauthorized", "forbidden"}
  BY <1>4, Zenon DEF Enter, Answer
<1>10. Entitled(request.caller, p) => refused = {}
  BY <1>1, <1>8, EntitledAdmitted DEF Before
<1> HIDE DEF m, p
<1>11. p' = p
  BY <1>9 DEF p
<1>12. Base(place') = Mounts[m].base
  BY <1>9 DEF Base
<1>13. Base(place)' = Base(place')
  BY DEF Base
<1>14. CASE refused = {}
  <2>1. \/ place'[1] = p[1] /\ place'[2] < p[2]
        \/ place'[1] \in 1..(p[1] - 1) /\ Begins(Base(place'), PathTo(p))
    BY <1>1, <1>7, <1>9, <1>12
  <2>2. pc' = "router"
    BY <1>9, <1>14
  <2> QED
    BY <1>11, <1>13, <2>1, <2>2 DEF OnItsWay, p
<1>15. CASE refused # {}
  <2>1. pc' = "answered" /\ answer' # "handled" /\ ~ Entitled(request.caller, p)
    BY <1>9, <1>10, <1>15
  <2> QED
    BY <1>9, <1>11, <2>1 DEF OnItsWay, p
<1> QED
  BY <1>14, <1>15

\* In the router of its own mount the first layer that takes it is no later than the route, and no
\* handler unless it is the route; in a router on the way it is no handler.
LEMMA HitOnTheWay ==
    ASSUME WayInv, Meant, OnItsWay(request.target), pc = "router"
    PROVE  /\ NextLayers = {} => place[1] \in 1..(request.target[1] - 1)
           /\ NextLayers # {} =>
                 /\ Hit \in Nat \X Nat
                 /\ Layer(Hit).does = "handle" => Hit = request.target
                 /\ Layer(Hit).on = "use" =>
                       \/ Hit[1] = request.target[1] /\ Hit[2] < request.target[2]
                       \/ Hit[1] \in 1..(request.target[1] - 1) /\ Begins(Base(Hit), PathTo(request.target))
<1> DEFINE p == request.target
           m == place[1]
           l == First(NextLayers)
<1>1. /\ p \in Targets /\ p[1] \in 1..Len(Mounts) /\ p[1] \in Nat /\ p[2] \in 1..Len(Mounts[p[1]].router)
      /\ p[2] \in Nat /\ p = <<p[1], p[2]>>
  BY TargetPlaced DEF Meant
<1>2. /\ m \in Nat /\ place[2] \in Nat
      /\ \/ m = p[1] /\ place[2] < p[2]
         \/ m \in 1..(p[1] - 1) /\ Begins(Base(place), PathTo(p))
  BY DEF OnItsWay, WayInv
<1>3. request.path = PathTo(p) /\ request.method = Layer(p).on /\ Rest = Below(m, PathTo(p))
  BY DEF Meant, Rest
<1>4. NextLayers \in SUBSET Nat
  BY <1>2 DEF NextLayers
<1>5. \A i \in NextLayers :
          /\ i \in 1..Len(Mounts[m].router)
          /\ Takes(Mounts[m].router[i], Layer(p).on, Below(m, PathTo(p)))
  BY <1>2, <1>3 DEF NextLayers
<1>6. Meets(p) /\ LeftAlone(p[1], p[2] - 1, p)
  BY <1>1, RoutesAssumption, Zenon
<1>7. ASSUME NextLayers # {}
      PROVE  l \in NextLayers /\ l \in Nat /\ \A i \in NextLayers : l <= i
  BY <1>4, <1>7, FirstIsOne
<1>8. Hit = <<m, l>> /\ Layer(Hit) = Mounts[m].router[l] /\ Base(Hit) = Base(place)
  BY DEF Hit, Layer, Base
<1> HIDE DEF l
<1>9. CASE m = p[1] /\ place[2] < p[2]
  <2>1. p[2] \in NextLayers
    <3>1. Takes(Mounts[m].router[p[2]], Layer(p).on, Below(m, PathTo(p)))
      BY <1>6, <1>9, Zenon DEF Meets, Layer
    <3>2. p[2] \in (place[2] + 1)..Len(Mounts[m].router)
      BY <1>1, <1>2, <1>9
    <3> QED
      BY <1>3, <3>1, <3>2, Zenon DEF NextLayers
  <2>2. l \in NextLayers /\ l \in Nat /\ l <= p[2]
    BY <1>7, <2>1
  <2>3. l < p[2] => Mounts[m].router[l].does # "handle"
    <3>1. SUFFICES ASSUME l < p[2] PROVE Mounts[m].router[l].does # "handle"
      OBVIOUS
    <3>2. l \in 1..(p[2] - 1)
      BY <1>1, <1>5, <2>2, <3>1
    <3> QED
      BY <1>5, <1>6, <1>9, <2>2, <3>2, Zenon DEF LeftAlone
  <2>4. l = p[2] => Layer(Hit).on # "use"
    BY <1>1, <1>6, <1>8, <1>9 DEF Meets
  <2>5. Hit = <<m, l>> /\ Hit[1] = m /\ Hit[2] = l
    BY <1>8
  <2>6. l = p[2] => Hit = p
    BY <1>1, <1>9, <2>5
  <2> QED
    BY <1>1, <1>2, <1>8, <1>9, <2>1, <2>2, <2>3, <2>4, <2>5, <2>6
<1>10. CASE m \in 1..(p[1] - 1) /\ Begins(Base(place), PathTo(p))
  <2>1. LeftAlone(m, Len(Mounts[m].router), p)
    BY <1>1, <1>10, RoutesAssumption, Zenon DEF Base
  <2>2. \A i \in NextLayers : Mounts[m].router[i].does # "handle"
    BY <1>5, <2>1, Zenon DEF LeftAlone
  <2>3. NextLayers # {} => Layer(Hit).does # "handle"
    BY <1>7, <1>8, <2>2, Zenon
  <2>4. NextLayers # {} => Hit \in Nat \X Nat
    BY <1>2, <1>7, <1>8
  <2>5. Hit[1] = m
    BY <1>8
  <2> QED
    BY <1>8, <1>10, <2>3, <2>4, <2>5
<1> QED
  BY <1>2, <1>9, <1>10

\* Steps of a request that is meant for a route.
LEMMA MeantStep ==
    ASSUME WayInv, Meant, OnItsWay(request.target), pc \in {"gate", "mounts", "router"}, SurfaceNext
    PROVE  pc' # "idle" /\ UNCHANGED request /\ OnItsWay(request.target)'
<1> DEFINE p == request.target
<1>1. ASSUME NEW read, pc = "gate", GateWith(read), UNCHANGED <<request, place>>
      PROVE  pc' # "idle" /\ UNCHANGED request /\ OnItsWay(p)'
  <2>1. place' = NoPlace /\ p' = p /\ p[1] \in 1..Len(Mounts)
    BY <1>1, TargetPlaced DEF OnItsWay, Meant
  <2>2. \/ pc' = "mounts"
        \/ pc' = "answered" /\ answer' = "maintenance"
    BY <1>1 DEF GateWith, Answer
  <2> QED
    BY <1>1, <2>1, <2>2 DEF OnItsWay, NoPlace
<1>2. CASE Gate
  BY <1>1, <1>2, Zenon DEF Gate
<1>3. CASE GateUnread
  BY <1>1, <1>3 DEF GateUnread
<1>4. CASE Enter
  <2>1. pc' # "idle" /\ UNCHANGED request
    BY <1>4 DEF Enter, Answer
  <2> QED
    BY <1>4, <2>1, EnterOnTheWay
<1>5. CASE FallThrough
  <2>1. place[1] \in 1..(p[1] - 1) /\ p[1] \in Nat
    BY <1>5, HitOnTheWay, TargetPlaced DEF FallThrough, Meant
  <2> QED
    BY <1>5, <2>1 DEF FallThrough, OnItsWay
<1>6. CASE Middleware
  <2> USE DEF Middleware
  <2>1. pc = "router" /\ NextLayers # {} /\ place' = Hit /\ UNCHANGED request
    BY <1>6
  <2>2. Layer(Hit).on = "use"
    BY <1>6, <2>1
  <2>3. \/ Hit[1] = p[1] /\ Hit[2] < p[2]
        \/ Hit[1] \in 1..(p[1] - 1) /\ Begins(Base(Hit), PathTo(p))
    BY <2>1, <2>2, HitOnTheWay
  <2>4. \/ pc' = "answered" /\ answer' = "archived"
        \/ UNCHANGED <<pc, answer>>
    BY <1>6 DEF Answer
  <2>5. Base(place)' = Base(Hit)
    BY <2>1 DEF Base
  <2> HIDE DEF Middleware
  <2> QED
    BY <2>1, <2>3, <2>4, <2>5 DEF OnItsWay
<1>7. CASE Handle
  <2>1. pc = "router" /\ NextLayers # {} /\ place' = Hit /\ UNCHANGED request /\ Layer(place').does = "handle"
    BY <1>7 DEF Handle
  <2>2. place' = p
    BY <2>1, HitOnTheWay
  <2>3. /\ pc' = "answered"
        /\ \/ Layer(p).signedIn /\ request.caller.type = "anonymous"
           \/ ~ Authorized(request.caller, Mounts[p[1]], Layer(p).codes)
           \/ answer' = "handled"
    BY <1>7, <2>2 DEF Handle, Answer
  <2>4. Entitled(request.caller, p) => answer' = "handled"
    BY <2>3, EntitledAuthorized DEF Meant
  <2> QED
    BY <2>1, <2>2, <2>3, <2>4 DEF OnItsWay
<1> QED
  BY <1>2, <1>3, <1>4, <1>5, <1>6, <1>7 DEF SurfaceNext, Arrive, Leave, CacheExpires

\* No mount begins with what no route is called.
LEMMA LostStep ==
    ASSUME WayInv, Lost, pc \in {"gate", "mounts"}, answer # "handled", SurfaceNext
    PROVE  /\ pc' \in {"mounts", "answered"} /\ UNCHANGED <<request, place>>
           /\ answer' # "handled"
<1>1. ASSUME NEW read, pc = "gate", GateWith(read)
      PROVE  pc' \in {"mounts", "answered"} /\ answer' # "handled"
  BY <1>1 DEF GateWith, Answer
<1>2. CASE Gate
  BY <1>1, <1>2, Zenon DEF Gate
<1>3. CASE GateUnread
  BY <1>1, <1>3 DEF GateUnread
<1>4. CASE Enter
  <2>1. After(place[1]) \subseteq 1..Len(Mounts)
    BY DEF After, WayInv
  <2>2. \A m \in 1..Len(Mounts) : ~ Begins(Mounts[m].base, request.path)
    BY RoutesAssumption, Zenon DEF Lost
  <2>3. After(place[1]) = {}
    BY <2>1, <2>2 DEF After
  <2> QED
    BY <1>4, <2>3 DEF Enter, Answer
<1> QED
  BY <1>2, <1>3, <1>4 DEF SurfaceNext, Arrive, Leave, CacheExpires, FallThrough, Middleware, Handle

\* A request comes in meant for a route, or for none, and the mounts are before it.
LEMMA ArriveOnTheWay == ASSUME WayInv, Arrive PROVE WayInv'
<1>1. /\ pc' = "gate" /\ place = NoPlace /\ UNCHANGED <<place, answer>>
      /\ answer # "handled" /\ place \in Nat \X Nat
  BY DEF Arrive, WayInv
<1>2. PICK c \in Callers :
          \/ \E p \in Targets : request' = RequestFor(c, p)
          \/ request' = [NoRequest EXCEPT !.caller = c]
  BY DEF Arrive
<1>3. ASSUME NEW p \in Targets, request' = RequestFor(c, p)
      PROVE  request'.caller \in Callers /\ Meant' /\ OnItsWay(request.target)'
  <2>1. /\ request'.caller = c /\ request'.target = p /\ request'.path = PathTo(p)
        /\ request'.method = Layer(p).on
    BY <1>3 DEF RequestFor
  <2>2. Meant'
    BY <2>1 DEF Meant
  <2> QED
    BY <1>1, <2>1, <2>2 DEF OnItsWay
<1>4. ASSUME request' = [NoRequest EXCEPT !.caller = c]
      PROVE  request'.caller \in Callers /\ Lost'
  BY <1>4 DEF NoRequest, Lost
<1>5. /\ request'.caller \in Callers
      /\ (Meant /\ OnItsWay(request.target))' \/ Lost'
  BY <1>2, <1>3, <1>4
<1> QED
  BY <1>1, <1>5 DEF WayInv

LEMMA WayStep == ASSUME WayInv, SurfaceNext PROVE WayInv'
<1>1. CASE Arrive
  BY <1>1, ArriveOnTheWay
<1>2. CASE pc = "answered" \/ Leave
  <2>1. Leave
    BY <1>2 DEF SurfaceNext, Arrive, Gate, GateUnread, CacheExpires, Enter, FallThrough, Middleware, Handle
  <2>2. pc' = "idle" /\ place' = NoPlace /\ answer' = "none"
    BY <2>1, Zenon DEF Leave
  <2> QED
    BY <2>2 DEF WayInv, NoPlace
<1>3. CASE pc = "idle" /\ ~ Arrive
  BY <1>3 DEF WayInv, SurfaceNext, Leave, Gate, GateUnread, CacheExpires, Enter, FallThrough,
              Middleware, Handle
<1>4. CASE pc \in {"gate", "mounts", "router"}
  <2>1. (place \in Nat \X Nat)' /\ pc' \in {"mounts", "router", "answered"}
    <3>1. CASE Gate \/ GateUnread
      BY <3>1 DEF WayInv, Gate, GateUnread, GateWith, Answer
    <3>2. CASE Enter
      <4>1. After(place[1]) \in SUBSET Nat
        BY DEF After, WayInv
      <4>2. After(place[1]) # {} => First(After(place[1])) \in Nat
        BY <4>1, FirstIsOne
      <4>3. /\ place' = place \/ (After(place[1]) # {} /\ place' = <<First(After(place[1])), 0>>)
            /\ pc' \in {"router", "answered"}
        BY <3>2 DEF Enter, Answer
      <4> QED
        BY <4>2, <4>3 DEF WayInv
    <3>3. CASE FallThrough
      BY <3>3 DEF WayInv, FallThrough
    <3>4. CASE Middleware \/ Handle
      <4>1. NextLayers \in SUBSET Nat
        BY DEF NextLayers, WayInv
      <4>2. NextLayers # {} => First(NextLayers) \in Nat
        BY <4>1, FirstIsOne
      <4>3. place' = <<place[1], First(NextLayers)>> /\ NextLayers # {}
        BY <3>4 DEF Middleware, Handle, Hit
      <4>4. pc' \in {"router", "answered"}
        BY <3>4 DEF Middleware, Handle, Answer
      <4> QED
        BY <4>2, <4>3, <4>4 DEF WayInv
    <3> QED
      BY <1>4, <3>1, <3>2, <3>3, <3>4 DEF SurfaceNext, Arrive, Leave, CacheExpires
  <2>2. pc' # "answered" => answer' # "handled"
    BY <1>4 DEF WayInv, SurfaceNext, Arrive, Leave, Gate, GateUnread, GateWith, CacheExpires, Enter,
                FallThrough, Middleware, Handle, Answer
  <2>3. CASE Meant /\ OnItsWay(request.target)
    <3>1. UNCHANGED request /\ OnItsWay(request.target)'
      BY <1>4, <2>3, MeantStep
    <3>2. Meant'
      BY <2>3, <3>1 DEF Meant
    <3> QED
      BY <1>4, <2>1, <2>2, <3>1, <3>2 DEF WayInv
  <2>4. CASE Lost /\ pc # "router" /\ answer # "handled"
    <3>1. /\ pc' \in {"mounts", "answered"} /\ UNCHANGED <<request, place>>
          /\ answer' # "handled"
      BY <1>4, <2>4, LostStep
    <3> QED
      BY <1>4, <2>1, <2>4, <3>1 DEF WayInv, Lost
  <2> QED
    BY <1>4, <2>3, <2>4 DEF WayInv
<1> QED
  BY <1>1, <1>2, <1>3, <1>4 DEF WayInv

LEMMA WayInvAlways == SurfaceSpec => []WayInv
<1>1. SurfaceInit => WayInv
  BY DEF SurfaceInit, WayInv, NoPlace
<1>2. ASSUME WayInv, UNCHANGED surfaceVars PROVE WayInv'
  BY <1>2 DEF surfaceVars, WayInv, Meant, Lost, OnItsWay, Base
<1> QED
  BY <1>1, WayStep, <1>2, PTL DEF SurfaceSpec

\* A request that reaches a handler reaches the one of its route, and who is entitled to a route is
\* kept from it by the maintenance mode or an archived tenant alone, for any callers and however
\* requests, settings and the gate's copy of them follow one another.
THEOREM OwnRouteAlwaysReached == SurfaceSpec => []OwnRouteReached
<1>1. WayInv => OwnRouteReached
  BY DEF WayInv, Meant, Lost, OnItsWay, OwnRouteReached
<1> QED
  BY <1>1, WayInvAlways, PTL

\* More codes let a caller change more.
LEMMA AltersMonotone ==
    ASSUME NEW held, NEW more, held \subseteq more, NEW p, AltersOthers(held, p)
    PROVE  AltersOthers(more, p)
BY DEF AltersOthers

\* A read-only role, a requester or an engineer changes nothing that others have made, for any
\* callers: the route that is reached is the one that was asked for, and a code the route asks for
\* is among those its role was granted.  Cancelling an export is the one exception.
THEOREM LimitedRolesNeverAlter == SurfaceSpec => []LimitedRolesAlterNothing
<1>1. ASSUME SurfaceInv, WayInv PROVE LimitedRolesAlterNothing
  <2> DEFINE c == request.caller
             role == c.role
             codes == Layer(place).codes
  <2> SUFFICES ASSUME Reached, role \in LimitedRoles, AltersOthers(Permissions(c), place)
               PROVE  Address(place) = CancelOfExport
    BY DEF LimitedRolesAlterNothing
  <2>1. c \in Callers /\ place \in Targets
    BY <1>1 DEF WayInv, Reached, Meant, OnItsWay, Lost
  <2>2. c.type = "TENANT_USER" <=> OfOrganization(role)
    BY <2>1, CallersAssumption
  <2>3. Permissions(c) \subseteq GrantsOf(role)
    BY <2>2 DEF Permissions, GrantsOf
  <2>4. codes = {} \/ codes \intersect GrantsOf(role) # {}
    <3>1. codes = {} \/ \E code \in codes : code \in Permissions(c)
      BY <1>1, NobodyHoldsAll, Zenon DEF SurfaceInv, Authorized, hasPermission
    <3> QED
      BY <2>3, <3>1
  <2>5. ASSUME Area(place) \in {"itsm", "tenant-admin"} PROVE OfOrganization(role)
    <3>1. "requireTenantMembership" \in Before(Mounts[place[1]])
      BY <2>1, <2>5, TargetPlaced, MountsAssumption DEF Area, Base
    <3>2. Admits(c, "requireTenantMembership")
      BY <1>1, <3>1 DEF SurfaceInv, Within, Before
    <3> QED
      BY <2>2, <3>2 DEF Admits
  <2>6. AltersOthers(GrantsOf(role), place)
    BY <2>3, AltersMonotone
  <2> QED
    BY <2>1, <2>4, <2>5, <2>6, LimitedAssumption, Zenon
<1> QED
  BY <1>1, SurfaceInvAlways, WayInvAlways, PTL

=============================================================================
