------------------------------- MODULE Accounts -------------------------------
(***************************************************************************)
(* One staff account (services/auth, services/saasadmin/staff): signing in *)
(* with a password and a second factor, rotating refresh tokens, resetting *)
(* the password, and the operations that close the account and revoke its  *)
(* sessions. Requests interleave at every await; each carries the rows as  *)
(* it read them and writes by id.                                          *)
(***************************************************************************)
EXTENDS Naturals, FiniteSets

CONSTANTS
    Calls,        \* requests under way at the same time
    MaxSessions,  \* bound on the sessions issued
    MaxCodes,     \* bound on the recovery codes used
    MaxAborts     \* bound on requests cut short

ASSUME AccountsAssumption ==
    /\ IsFiniteSet(Calls)
    /\ MaxSessions \in Nat
    /\ MaxCodes \in Nat \ {0}   \* enrolling makes recovery codes
    /\ MaxAborts \in Nat

\* Rows in the order of their creation.
Sessions == 1..MaxSessions
Codes == 1..MaxCodes

VARIABLES
    status,     \* User.status
    mfa,        \* User.mfaEnabled, written together with the verified factor
    code,       \* rows of MfaRecoveryCode
    session,    \* rows of Session
    challenge,  \* an MFA challenge token has been issued
    call,       \* progress of each request, and what it read
    aborts,     \* requests cut short
    cut,        \* history: the last closing was cut short of its revocation
    forked,     \* history: sessions two rotations were at work on at once
    doubled     \* history: codes two sign-ins were at work on at once

factors == <<mfa, code, challenge>>
history == <<cut, forked, doubled>>
vars    == <<status, factors, session, call, aborts, history>>

UserStatus == {"INVITED", "ACTIVE", "SUSPENDED", "DEACTIVATED"}

\* A session is revoked by a rotation ("rotated") or by anything else, its
\* expiry included ("ended"). parent and code say what it was issued for, strong
\* that it has mfaVerifiedAt, and stale that its request had begun before the
\* account was last closed; what nobody asks of a row any more is forgotten.
Session == [state : {"absent", "live", "rotated", "ended"}, parent : Sessions \cup {0},
            code : Codes \cup {0}, strong : BOOLEAN, stale : BOOLEAN]
NoSession ==
    [state |-> "absent", parent |-> 0, code |-> 0, strong |-> FALSE, stale |-> FALSE]
Rotated(row) == [row EXCEPT !.state = "rotated", !.stale = FALSE]
Ended(row) == [row EXCEPT !.state = "ended", !.strong = FALSE, !.stale = FALSE]

\* s and k are the rows a request is about; strong is "mfa" in its
\* authentication methods; mfa is the column as it read it, when it will ask.
Pc == {"idle", "factor", "challenge", "code", "touch", "issue", "rotate",
       "revoke", "enroll", "renew", "off", "offCode", "suspend", "deactivate", "activate",
       "accept", "reset", "closing", "signOut"}
Call == [pc : Pc, s : Sessions \cup {0}, k : Codes \cup {0}, strong : BOOLEAN,
         mfa : BOOLEAN, stale : BOOLEAN]

\* The requests that may still issue a session, and those that may still move
\* the account to another status than DEACTIVATED.
SigningIn == {"factor", "challenge", "code", "touch", "issue", "rotate"}
Reopening == {"suspend", "activate", "accept"}

\* A request about a session or a code, and one that may issue a session.
Request(pc, s, k) ==
    [pc |-> pc, s |-> s, k |-> k, strong |-> FALSE, mfa |-> FALSE, stale |-> FALSE]
SignIn(pc, s, strong) ==
    [pc |-> pc, s |-> s, k |-> 0, strong |-> strong, mfa |-> mfa /\ ~strong, stale |-> FALSE]
Holding(request, k) == [request EXCEPT !.pc = "code", !.k = k]
Late(request) == [request EXCEPT !.stale = TRUE]
NoCall == Request("idle", 0, 0)

\* A staff member just invited, or one who has accepted and never signed in. An
\* invited one may sign in as well, once a reset has given it a password.
Init ==
    /\ status \in {"INVITED", "ACTIVE"}
    /\ mfa = FALSE
    /\ code = [k \in Codes |-> "absent"]
    /\ session = [s \in Sessions |-> NoSession]
    /\ challenge = FALSE
    /\ call = [c \in Calls |-> NoCall]
    /\ aborts = 0
    /\ cut = FALSE
    /\ forked = {}
    /\ doubled = {}
-----------------------------------------------------------------------------
At(c, pc) == call[c].pc = pc
Goto(c, pc) == call' = [call EXCEPT ![c].pc = pc]
Return(c) == call' = [call EXCEPT ![c] = NoCall]

Begin(c, request) == At(c, "idle") /\ call' = [call EXCEPT ![c] = request]

\* The row the next create gets.
IsNext(rows, r) == rows[r] = "absent" /\ \A x \in 1..(r - 1) : rows[x] # "absent"

\* The bound on sessions: each request that may create one has a row left.
State == [s \in Sessions |-> session[s].state]
RoomForSession ==
    Cardinality({c \in Calls : call[c].pc \in SigningIn})
        < Cardinality({s \in Sessions : State[s] = "absent"})

\* Mutant: only a deactivated account is refused.
RefusedDeactivated(st) == st = "DEACTIVATED"

\* The statuses sign-in, the MFA challenge, rotation and authenticate refuse.
Refused(st) == st \in {"SUSPENDED", "DEACTIVATED"}

\* authenticate, for the requests a signed-in user makes about the account.
Authenticated ==
    /\ ~Refused(status)
    /\ status # "INVITED"
    /\ \E s \in Sessions : session[s].state = "live"
-----------------------------------------------------------------------------
(* login: verifyCredentials, the second factor, issueSession *)

\* verifyCredentials reads the row and refuses a closed account. A wrong
\* password or a lock refuses as well, here or a few awaits later: the counter
\* and the lock only ever keep sign-ins away, and are left out.
SignInRead(c) ==
    /\ ~Refused(status)
    /\ RoomForSession
    /\ Begin(c, SignIn("factor", 0, FALSE))
    /\ UNCHANGED <<status, factors, session, aborts, history>>

\* That refusal.
SignInRefused(c) ==
    /\ At(c, "factor")
    /\ Return(c)
    /\ UNCHANGED <<status, factors, session, aborts, history>>

\* login reads the verified factor, and answers with a challenge token if the
\* row it has says that MFA is enabled.
FactorRead(c) ==
    /\ At(c, "factor")
    /\ IF call[c].mfa /\ mfa
       THEN challenge' = TRUE /\ Return(c)
       ELSE challenge' = challenge /\ Goto(c, "issue")
    /\ UNCHANGED <<status, mfa, code, session, aborts, history>>

\* issueSession refuses a session without MFA to an account that, as it was
\* read, has it enabled.
IssueSession(c) ==
    /\ At(c, "issue")
    /\ Return(c)
    /\ \/ /\ call[c].mfa /\ ~call[c].strong
          /\ UNCHANGED session
       \/ /\ ~call[c].mfa \/ call[c].strong
          /\ \E s \in Sessions :
                /\ IsNext(State, s)
                /\ session' = [session EXCEPT ![s] =
                      [state |-> "live", parent |-> call[c].s, code |-> call[c].k,
                       strong |-> call[c].strong, stale |-> call[c].stale]]
    /\ UNCHANGED <<status, factors, aborts, history>>
-----------------------------------------------------------------------------
(* verifyMfaChallenge *)

\* A challenge token is good for any number of attempts in its five minutes;
\* a request may always come before they are over.
ChallengeRead(c) ==
    /\ challenge
    /\ ~Refused(status)
    /\ RoomForSession
    /\ Begin(c, SignIn("challenge", 0, TRUE))
    /\ UNCHANGED <<status, factors, session, aborts, history>>

\* Mutant: a code is looked up whether or not it has been used.
FreshEver(k) == code[k] \in {"unused", "used"}

Fresh(k) == code[k] = "unused"

\* The code given is wrong, or the factor has gone; or it is the right time-
\* based code; or a recovery code found unused.
ChallengeCheck(c) ==
    /\ At(c, "challenge")
    /\ \/ Return(c)
       \/ /\ mfa
          /\ \/ Goto(c, "touch")
             \/ \E k \in Codes :
                   /\ Fresh(k)
                   /\ call' = [call EXCEPT ![c] = Holding(@, k)]
    /\ UNCHANGED <<status, factors, session, aborts, history>>

\* consumeRecoveryCode marks the row used by id; a row deleted meanwhile makes
\* the request fail.
ConsumeCode(c, from, to) ==
    LET k == call[c].k IN
    /\ At(c, from)
    /\ IF code[k] = "deleted"
       THEN Return(c) /\ UNCHANGED <<code, doubled>>
       ELSE /\ Goto(c, to)
            /\ code' = [code EXCEPT ![k] = "used"]
            /\ doubled' = IF \E x \in Calls \ {c} : call[x].k = k /\ call[x].pc \in {"code", "offCode"}
                          THEN doubled \cup {k}
                          ELSE doubled
    /\ UNCHANGED <<status, mfa, challenge, session, aborts, cut, forked>>

UseCode(c) == ConsumeCode(c, "code", "touch")

\* The factor's lastUsedAt, by id: a factor deleted meanwhile makes it fail.
TouchFactor(c) ==
    /\ At(c, "touch")
    /\ \/ mfa /\ Goto(c, "issue")
       \/ Return(c)
    /\ UNCHANGED <<status, factors, session, aborts, history>>
-----------------------------------------------------------------------------
(* rotateRefreshToken, revokeSession and revokeAllUserSessions *)

\* Mutant: a rotation accepts a token that has been rotated already.
UsableAgain(s) == session[s].state \in {"live", "rotated"}

Usable(s) == session[s].state = "live"

\* Mutant: the successor is always issued for a password alone.
AmrPassword(s) == session[s].state = "absent"

\* Whether the successor's authentication methods have "mfa".
Amr(s) == session[s].strong

RotateRead(c, s) ==
    /\ Usable(s)
    /\ ~Refused(status)
    /\ RoomForSession
    /\ Begin(c, SignIn("rotate", s, Amr(s)))
    /\ UNCHANGED <<status, factors, session, aborts, history>>

\* The session is revoked as ROTATED, whoever has revoked it since; its
\* successor is issued next.
RotateWrite(c) ==
    LET s == call[c].s IN
    /\ At(c, "rotate")
    /\ session' = [session EXCEPT ![s] = Rotated(@)]
    /\ forked' = IF \E x \in Calls \ {c} : At(x, "rotate") /\ call[x].s = s
                 THEN forked \cup {s}
                 ELSE forked
    /\ Goto(c, "issue")
    /\ UNCHANGED <<status, factors, aborts, cut, doubled>>

\* A logout, or a session revoked by its owner or by an administrator: read
\* live, then revoked by id.
RevokeRead(c, s) ==
    /\ session[s].state = "live"
    /\ Begin(c, Request("revoke", s, 0))
    /\ UNCHANGED <<status, factors, session, aborts, history>>

RevokeWrite(c) ==
    /\ At(c, "revoke")
    /\ session' = [session EXCEPT ![call[c].s] = Ended(@)]
    /\ Return(c)
    /\ UNCHANGED <<status, factors, aborts, history>>

SessionExpires(s) ==
    /\ session[s].state = "live"
    /\ session' = [session EXCEPT ![s] = Ended(@)]
    /\ UNCHANGED <<status, factors, call, aborts, history>>

\* Every row not revoked by now is.
AllEnded ==
    session' = [s \in Sessions |-> IF session[s].state = "live"
                                   THEN Ended(session[s])
                                   ELSE session[s]]

\* revokeStaffSessions, one statement.
RevokeStaffSessions ==
    /\ AllEnded
    /\ cut' = FALSE
    /\ UNCHANGED <<status, factors, call, aborts, forked, doubled>>

\* The same statement at the end of a closing or of a password reset.
RevokeAll(c) ==
    /\ call[c].pc \in {"closing", "signOut"}
    /\ AllEnded
    /\ cut' = FALSE
    /\ Return(c)
    /\ UNCHANGED <<status, factors, aborts, forked, doubled>>
-----------------------------------------------------------------------------
(* suspendStaff, deactivateStaff, activateStaff, acceptInvitation *)

\* Mutant: a deactivated account may be activated.
MayActivate(kind) ==
    \/ kind = "suspend" /\ status \in {"INVITED", "ACTIVE"}
    \/ kind = "deactivate" /\ status # "DEACTIVATED"
    \/ kind = "activate" /\ status # "ACTIVE"
    \/ kind = "accept" /\ status = "INVITED"

\* What each of them requires of the row it reads.
May(kind) ==
    \/ kind = "suspend" /\ status \in {"INVITED", "ACTIVE"}
    \/ kind = "deactivate" /\ status # "DEACTIVATED"
    \/ kind = "activate" /\ status \in {"INVITED", "SUSPENDED"}
    \/ kind = "accept" /\ status = "INVITED"

StatusRead(c, kind) ==
    /\ May(kind)
    /\ Begin(c, Request(kind, 0, 0))
    /\ UNCHANGED <<status, factors, session, aborts, history>>

ClosedStatus(pc) == IF pc = "suspend" THEN "SUSPENDED" ELSE "DEACTIVATED"

\* The update of a suspension or deactivation; the sessions are revoked next.
\* Whatever may still sign in or reopen has read the account before.
CloseWrite(c) ==
    /\ call[c].pc \in {"suspend", "deactivate"}
    /\ status' = ClosedStatus(call[c].pc)
    /\ call' = [x \in Calls |-> IF x = c
                                THEN Request("closing", 0, 0)
                                ELSE IF call[x].pc \in SigningIn \cup Reopening
                                     THEN Late(call[x])
                                     ELSE call[x]]
    /\ UNCHANGED <<factors, session, aborts, history>>

ActivateWrite(c) ==
    /\ At(c, "activate")
    /\ status' = "ACTIVE"
    /\ Return(c)
    /\ UNCHANGED <<factors, session, aborts, history>>

\* After hashing the password, which takes its time.
AcceptWrite(c) ==
    /\ At(c, "accept")
    /\ status' = "ACTIVE"
    /\ Return(c)
    /\ UNCHANGED <<factors, session, aborts, history>>
-----------------------------------------------------------------------------
(* resetPassword *)

\* A reset token is there for whoever asks, unless the account is deactivated.
ResetRead(c) ==
    /\ status # "DEACTIVATED"
    /\ Begin(c, Request("reset", 0, 0))
    /\ UNCHANGED <<status, factors, session, aborts, history>>

\* With the new password written, the sessions are revoked next.
ResetWrite(c) ==
    /\ At(c, "reset")
    /\ Goto(c, "signOut")
    /\ UNCHANGED <<status, factors, session, aborts, history>>
-----------------------------------------------------------------------------
(* verifyEnrollment, regenerateRecoveryCodes, disableMfa *)

\* All recovery codes are deleted, and new ones made (one row stands for the
\* RECOVERY_CODE_COUNT of them; those beyond the bound are never used).
DeleteCodes == [k \in Codes |-> IF code[k] = "absent" THEN "absent" ELSE "deleted"]
RenewCodes == [k \in Codes |-> IF IsNext(code, k) THEN "unused" ELSE DeleteCodes[k]]

FactorOp(c) ==
    /\ Authenticated
    /\ \/ ~mfa /\ Begin(c, Request("enroll", 0, 0))
       \/ mfa /\ Begin(c, Request("renew", 0, 0))
       \/ mfa /\ Begin(c, Request("off", 0, 0))
       \/ /\ mfa
          /\ \E k \in Codes : Fresh(k) /\ Begin(c, Request("offCode", 0, k))
    /\ UNCHANGED <<status, factors, session, aborts, history>>

\* The pending factor may have been deleted by another enrollment or a
\* disabling since it was read: then the transaction fails.
Enroll(c) ==
    /\ At(c, "enroll")
    /\ Return(c)
    /\ \/ mfa' = TRUE /\ code' = RenewCodes
       \/ UNCHANGED <<mfa, code>>
    /\ UNCHANGED <<status, challenge, session, aborts, history>>

Renew(c) ==
    /\ At(c, "renew")
    /\ code' = RenewCodes
    /\ Return(c)
    /\ UNCHANGED <<status, mfa, challenge, session, aborts, history>>

\* disableMfa takes a time-based code, or uses up a recovery code first.
DisableWithCode(c) == ConsumeCode(c, "offCode", "off")

DisableMfa(c) ==
    /\ At(c, "off")
    /\ mfa' = FALSE
    /\ code' = DeleteCodes
    /\ Return(c)
    /\ UNCHANGED <<status, challenge, session, aborts, history>>
-----------------------------------------------------------------------------
\* A crash, or a database error, among the writes of a request: nothing more is
\* written. One cut short before them has done nothing.
Abort(c) ==
    /\ call[c].pc \in {"touch", "issue", "off", "closing", "signOut"}
    /\ aborts < MaxAborts
    /\ aborts' = aborts + 1
    /\ cut' = (cut \/ At(c, "closing"))
    /\ Return(c)
    /\ UNCHANGED <<status, factors, session, forked, doubled>>

SignInStep(c) ==
    \/ SignInRead(c)
    \/ SignInRefused(c)
    \/ FactorRead(c)
    \/ IssueSession(c)
    \/ ChallengeRead(c)
    \/ ChallengeCheck(c)
    \/ UseCode(c)
    \/ TouchFactor(c)

SessionStep(c) ==
    \/ \E s \in Sessions : RotateRead(c, s) \/ RevokeRead(c, s)
    \/ RotateWrite(c)
    \/ RevokeWrite(c)
    \/ RevokeAll(c)

StaffStep(c) ==
    \/ \E kind \in {"suspend", "deactivate", "activate", "accept"} : StatusRead(c, kind)
    \/ CloseWrite(c)
    \/ ActivateWrite(c)
    \/ AcceptWrite(c)

FactorStep(c) ==
    \/ FactorOp(c)
    \/ Enroll(c)
    \/ Renew(c)
    \/ DisableWithCode(c)
    \/ DisableMfa(c)

Next ==
    \/ \E c \in Calls :
          \/ SignInStep(c)
          \/ SessionStep(c)
          \/ StaffStep(c)
          \/ ResetRead(c)
          \/ ResetWrite(c)
          \/ FactorStep(c)
          \/ Abort(c)
    \/ \E s \in Sessions : SessionExpires(s)
    \/ RevokeStaffSessions

Spec == Init /\ [][Next]_vars
-----------------------------------------------------------------------------
(* Properties *)

\* Every variable keeps to the columns and program counters of the code.
TypeOK ==
    /\ status \in UserStatus
    /\ mfa \in BOOLEAN
    /\ code \in [Codes -> {"absent", "unused", "used", "deleted"}]
    /\ session \in [Sessions -> Session]
    /\ challenge \in BOOLEAN
    /\ call \in [Calls -> Call]
    /\ aborts \in 0..MaxAborts
    /\ cut \in BOOLEAN
    /\ forked \subseteq Sessions
    /\ doubled \subseteq Codes

\* Once a closing is over, whoever is still signed in to a closed account came
\* in by a request that had read the account before it was closed.
ClosedMeansLate ==
    status \in {"SUSPENDED", "DEACTIVATED"} /\ ~cut /\ (\A c \in Calls : ~At(c, "closing"))
        => \A s \in Sessions : session[s].state = "live" => session[s].stale

\* A refresh token is good for one successor, unless two rotations had read the
\* session before either of them revoked it.
OneSuccessor ==
    \A s, x, y \in Sessions :
        x # y /\ session[x].parent = s /\ session[y].parent = s => s \in forked

\* A recovery code lets one sign-in through, unless two requests had found it
\* unused before either of them marked it.
OneAdmission ==
    \A k \in Codes : \A x, y \in Sessions :
        x # y /\ session[x].code = k /\ session[y].code = k => k \in doubled

\* A refresh signs nobody out: the session it revoked has a successor, or is
\* still to get one, unless the request was cut short or the session had no
\* MFA and the account has enabled it.
RotationKeepsSignedIn ==
    \A s \in Sessions :
        session[s].state = "rotated" =>
            \/ \E x \in Sessions : session[x].parent = s
            \/ \E c \in Calls : call[c].s = s
            \/ aborts > 0
            \/ ~session[s].strong /\ \E k \in Codes : code[k] # "absent"

\* A deactivation is undone only by a request that had read the account before.
OnlyStaleReopens ==
    [][status = "DEACTIVATED" /\ status' # "DEACTIVATED"
          => \E c \in Calls : call[c].stale /\ call'[c] # call[c]]_vars
=============================================================================
