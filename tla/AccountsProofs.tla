--------------------------- MODULE AccountsProofs ---------------------------
(***************************************************************************)
(* Accounts' invariants, for any number of concurrent requests, sessions,  *)
(* recovery codes and crashes.                                             *)
(***************************************************************************)
EXTENDS Accounts, TLAPS

\* The requests that are ever begun are of type Call.
LEMMA RequestType ==
    /\ NoCall \in Call
    /\ \A pc \in Pc, s \in Sessions \cup {0}, k \in Codes \cup {0} : Request(pc, s, k) \in Call
    /\ mfa \in BOOLEAN =>
          \A pc \in Pc, s \in Sessions \cup {0}, strong \in BOOLEAN : SignIn(pc, s, strong) \in Call
  <1>1. \A pc \in Pc, s \in Sessions \cup {0}, k \in Codes \cup {0} : Request(pc, s, k) \in Call
    BY DEF Request, Call
  <1>2. NoCall \in Call
    BY <1>1 DEF NoCall, Pc
  <1>3. mfa \in BOOLEAN =>
          \A pc \in Pc, s \in Sessions \cup {0}, strong \in BOOLEAN : SignIn(pc, s, strong) \in Call
    BY DEF SignIn, Call
  <1>. QED BY <1>1, <1>2, <1>3

\* The ways in which a step moves a request on keep the type of call.
LEMMA MoveType ==
  ASSUME call \in [Calls -> Call], NEW c \in Calls
  PROVE  /\ Return(c) => call' \in [Calls -> Call]
         /\ \A pc \in Pc : Goto(c, pc) => call' \in [Calls -> Call]
         /\ \A r \in Call : Begin(c, r) => call' \in [Calls -> Call]
  <1>1. Return(c) => call' \in [Calls -> Call]
    BY RequestType DEF Return
  <1>2. \A pc \in Pc : Goto(c, pc) => call' \in [Calls -> Call]
    BY DEF Goto, Call
  <1>3. \A r \in Call : Begin(c, r) => call' \in [Calls -> Call]
    BY DEF Begin
  <1>. QED BY <1>1, <1>2, <1>3

\* A request that finds a code or becomes stale is a request.
LEMMA MarkType ==
    \A r \in Call : /\ \A k \in Codes : Holding(r, k) \in Call
                    /\ Late(r) \in Call
  BY DEF Call, Pc, Holding, Late

\* A revoked row is a row.
LEMMA RowType == \A r \in Session : Rotated(r) \in Session /\ Ended(r) \in Session
  BY DEF Session, Rotated, Ended

\* A new account satisfies the type invariant.
LEMMA InitType == Init => TypeOK
  <1> SUFFICES ASSUME Init PROVE TypeOK
    OBVIOUS
  <1> USE DEF Init
  <1>1. NoCall \in Call /\ NoSession \in Session
    BY RequestType DEF NoSession, Session
  <1>2. call \in [Calls -> Call] /\ session \in [Sessions -> Session]
    BY <1>1
  <1>3. aborts \in 0..MaxAborts
    BY AccountsAssumption
  <1>4. status \in UserStatus /\ code \in [Codes -> {"absent", "unused", "used", "deleted"}]
    BY DEF UserStatus
  <1>. QED BY <1>2, <1>3, <1>4 DEF TypeOK

\* The row a request is about to write is one that exists.
Aimed ==
    \A c \in Calls :
        /\ call[c].pc \in {"code", "offCode"} => call[c].k \in Codes
        /\ call[c].pc \in {"rotate", "revoke"} => call[c].s \in Sessions

\* Using a recovery code up keeps the variables in their types.
LEMMA ConsumeType ==
  ASSUME TypeOK, Aimed, NEW c \in Calls, NEW from \in {"code", "offCode"}, NEW to \in Pc,
         ConsumeCode(c, from, to)
  PROVE  TypeOK'
  <1> USE DEF TypeOK
  <1>1. call' \in [Calls -> Call]
    BY MoveType DEF ConsumeCode
  <1>2. call[c].k \in Codes
    BY DEF ConsumeCode, Aimed, At
  <1>3. code' \in [Codes -> {"absent", "unused", "used", "deleted"}] /\ doubled' \subseteq Codes
    <2>1. CASE code[call[c].k] = "deleted"
      BY <2>1 DEF ConsumeCode
    <2>2. CASE code[call[c].k] # "deleted"
      <3>1. code' = [code EXCEPT ![call[c].k] = "used"]
        BY <2>2 DEF ConsumeCode
      <3>2. doubled' \in {doubled, doubled \cup {call[c].k}}
        BY <2>2 DEF ConsumeCode
      <3>. QED BY <1>2, <3>1, <3>2
    <2>. QED BY <2>1, <2>2
  <1>. QED BY <1>1, <1>3 DEF ConsumeCode

\* Every step of a sign-in keeps the variables in their types.
LEMMA SignInType ==
  ASSUME TypeOK, Aimed, NEW c \in Calls, SignInStep(c)
  PROVE  TypeOK'
  <1> USE RequestType, MoveType DEF TypeOK
  <1>1. CASE SignInRead(c)
    <2>1. SignIn("factor", 0, FALSE) \in Call
      BY DEF Pc
    <2>. QED BY <1>1, <2>1 DEF SignInRead, factors, history
  <1>2. CASE SignInRefused(c)
    BY <1>2 DEF SignInRefused, factors, history
  <1>3. CASE FactorRead(c)
    BY <1>3 DEF FactorRead, Pc, history
  <1>4. CASE IssueSession(c)
    <2>1. session' \in [Sessions -> Session]
      <3>1. [state |-> "live", parent |-> call[c].s, code |-> call[c].k,
             strong |-> call[c].strong, stale |-> call[c].stale] \in Session
        BY DEF Call, Session
      <3>. QED BY <1>4, <3>1 DEF IssueSession
    <2>. QED BY <1>4, <2>1 DEF IssueSession, factors, history
  <1>5. CASE ChallengeRead(c)
    <2>1. SignIn("challenge", 0, TRUE) \in Call
      BY DEF Pc
    <2>. QED BY <1>5, <2>1 DEF ChallengeRead, factors, history
  <1>6. CASE ChallengeCheck(c)
    <2>1. call' \in [Calls -> Call]
      <3>1. \A k \in Codes : Holding(call[c], k) \in Call
        BY MarkType
      <3>. QED BY <1>6, <3>1 DEF ChallengeCheck, Pc
    <2>. QED BY <1>6, <2>1 DEF ChallengeCheck, factors, history
  <1>7. CASE UseCode(c)
    BY <1>7, ConsumeType DEF UseCode, Pc
  <1>8. CASE TouchFactor(c)
    BY <1>8 DEF TouchFactor, Pc, factors, history
  <1>. QED BY <1>1, <1>2, <1>3, <1>4, <1>5, <1>6, <1>7, <1>8 DEF SignInStep

\* Every step of a session keeps the variables in their types.
LEMMA SessionType ==
  ASSUME TypeOK, Aimed, NEW c \in Calls, SessionStep(c)
  PROVE  TypeOK'
  <1> USE RequestType, MoveType, RowType DEF TypeOK
  <1>1. ASSUME NEW s \in Sessions, RotateRead(c, s)
        PROVE  TypeOK'
    <2>1. SignIn("rotate", s, Amr(s)) \in Call
      BY DEF Pc, Amr, Session
    <2>. QED BY <1>1, <2>1 DEF RotateRead, factors, history
  <1>2. ASSUME NEW s \in Sessions, RevokeRead(c, s)
        PROVE  TypeOK'
    <2>1. Request("revoke", s, 0) \in Call
      BY DEF Pc
    <2>. QED BY <1>2, <2>1 DEF RevokeRead, factors, history
  <1>3. CASE RotateWrite(c)
    <2>1. call[c].s \in Sessions
      BY <1>3 DEF RotateWrite, Aimed, At
    <2>2. session' \in [Sessions -> Session]
      BY <1>3, <2>1 DEF RotateWrite
    <2>3. forked' \in {forked, forked \cup {call[c].s}}
      BY <1>3 DEF RotateWrite
    <2>4. call' \in [Calls -> Call]
      BY <1>3 DEF RotateWrite, Pc
    <2>. QED BY <1>3, <2>1, <2>2, <2>3, <2>4 DEF RotateWrite, factors
  <1>4. CASE RevokeWrite(c)
    <2>1. session' \in [Sessions -> Session]
      BY <1>4 DEF RevokeWrite
    <2>. QED BY <1>4, <2>1 DEF RevokeWrite, factors, history
  <1>5. CASE RevokeAll(c)
    <2>1. session' \in [Sessions -> Session]
      BY <1>5 DEF RevokeAll, AllEnded
    <2>. QED BY <1>5, <2>1 DEF RevokeAll, factors
  <1>. QED BY <1>1, <1>2, <1>3, <1>4, <1>5 DEF SessionStep

\* Every step of an operation on the status keeps the variables in their types.
LEMMA StaffType ==
  ASSUME TypeOK, NEW c \in Calls, StaffStep(c) \/ ResetRead(c) \/ ResetWrite(c)
  PROVE  TypeOK'
  <1> USE RequestType, MoveType DEF TypeOK, UserStatus
  <1>1. ASSUME NEW kind \in {"suspend", "deactivate", "activate", "accept"}, StatusRead(c, kind)
        PROVE  TypeOK'
    <2>1. Request(kind, 0, 0) \in Call
      BY DEF Pc
    <2>. QED BY <1>1, <2>1 DEF StatusRead, factors, history
  <1>2. CASE CloseWrite(c)
    <2>1. /\ \A x \in Calls : Late(call[x]) \in Call
          /\ Request("closing", 0, 0) \in Call
      BY MarkType DEF Pc
    <2>2. call' \in [Calls -> Call]
      BY <1>2, <2>1 DEF CloseWrite
    <2>3. status' \in UserStatus
      BY <1>2 DEF CloseWrite, ClosedStatus
    <2>. QED BY <1>2, <2>2, <2>3 DEF CloseWrite, factors, history
  <1>3. CASE ActivateWrite(c)
    BY <1>3 DEF ActivateWrite, factors, history
  <1>4. CASE AcceptWrite(c)
    BY <1>4 DEF AcceptWrite, factors, history
  <1>5. CASE ResetRead(c)
    <2>1. Request("reset", 0, 0) \in Call
      BY DEF Pc
    <2>. QED BY <1>5, <2>1 DEF ResetRead, factors, history
  <1>6. CASE ResetWrite(c)
    BY <1>6 DEF ResetWrite, Pc, factors, history
  <1>. QED BY <1>1, <1>2, <1>3, <1>4, <1>5, <1>6 DEF StaffStep

\* Every step of an operation on the second factor, and every cut, keeps the
\* variables in their types.
LEMMA FactorType ==
  ASSUME TypeOK, Aimed, NEW c \in Calls, FactorStep(c) \/ Abort(c)
  PROVE  TypeOK'
  <1> USE RequestType, MoveType DEF TypeOK
  <1>1. CASE FactorOp(c)
    <2>1. /\ \A pc \in {"enroll", "renew", "off"} : Request(pc, 0, 0) \in Call
          /\ \A k \in Codes : Request("offCode", 0, k) \in Call
      BY DEF Pc
    <2>2. call' \in [Calls -> Call]
      BY <1>1, <2>1 DEF FactorOp
    <2>. QED BY <1>1, <2>2 DEF FactorOp, factors, history
  <1>2. /\ DeleteCodes \in [Codes -> {"absent", "deleted"}]
        /\ RenewCodes \in [Codes -> {"absent", "unused", "used", "deleted"}]
    BY DEF DeleteCodes, RenewCodes
  <1>3. CASE Enroll(c)
    BY <1>2, <1>3 DEF Enroll, history
  <1>4. CASE Renew(c)
    BY <1>2, <1>4 DEF Renew, history
  <1>5. CASE DisableWithCode(c)
    BY <1>5, ConsumeType DEF DisableWithCode, Pc
  <1>6. CASE DisableMfa(c)
    BY <1>2, <1>6 DEF DisableMfa, history
  <1>7. CASE Abort(c)
    <2>1. aborts' \in 0..MaxAborts
      BY <1>7, AccountsAssumption DEF Abort
    <2>2. cut' \in BOOLEAN
      BY <1>7 DEF Abort
    <2>. QED BY <1>7, <2>1, <2>2 DEF Abort, factors
  <1>. QED BY <1>1, <1>3, <1>4, <1>5, <1>6, <1>7 DEF FactorStep
-----------------------------------------------------------------------------
(* What a request may do next depends only on what it has read *)

\* What a request is about: a sign-in by password is about no session, and only
\* one that goes through a recovery code is about a code.
Subject ==
    \A c \in Calls :
        /\ call[c].pc \in {"factor", "challenge", "code", "touch"} => call[c].s = 0
        /\ call[c].pc \in {"factor", "challenge", "rotate"} => call[c].k = 0

\* Requests under way when the account was closed are stale.
StaleSignIns ==
    status \in {"SUSPENDED", "DEACTIVATED"} =>
        \A c \in Calls : call[c].pc \in SigningIn => call[c].stale
StaleReopens ==
    status = "DEACTIVATED" => \A c \in Calls : call[c].pc \in Reopening => call[c].stale

\* How the ways of moving a request on change call, and what they leave alone.
LEMMA MoveFacts ==
  ASSUME call \in [Calls -> Call], NEW c \in Calls
  PROVE  /\ Return(c) => \A x \in Calls :
               IF x = c THEN call'[x].pc = "idle" ELSE call'[x] = call[x]
         /\ \A pc : Goto(c, pc) => \A x \in Calls :
               IF x = c THEN /\ call'[x].pc = pc
                             /\ call'[x].s = call[x].s
                             /\ call'[x].k = call[x].k
                             /\ call'[x].stale = call[x].stale
                        ELSE call'[x] = call[x]
         /\ \A r : Begin(c, r) => \A x \in Calls :
               IF x = c THEN call[x].pc = "idle" /\ call'[x] = r ELSE call'[x] = call[x]
  <1>1. Return(c) => \A x \in Calls :
               IF x = c THEN call'[x].pc = "idle" ELSE call'[x] = call[x]
    BY DEF Return, NoCall, Request
  <1>2. \A pc : Goto(c, pc) => \A x \in Calls :
               IF x = c THEN /\ call'[x].pc = pc
                             /\ call'[x].s = call[x].s
                             /\ call'[x].k = call[x].k
                             /\ call'[x].stale = call[x].stale
                        ELSE call'[x] = call[x]
    BY DEF Goto, Call
  <1>3. \A r : Begin(c, r) => \A x \in Calls :
               IF x = c THEN call[x].pc = "idle" /\ call'[x] = r ELSE call'[x] = call[x]
    BY DEF Begin, At
  <1>. QED BY <1>1, <1>2, <1>3

\* What a request is begun with, and what a sign-in that finds a code becomes.
LEMMA RequestFacts ==
    /\ \A pc, s, k : /\ Request(pc, s, k).pc = pc
                     /\ Request(pc, s, k).s = s
                     /\ Request(pc, s, k).k = k
    /\ \A pc, s, strong : /\ SignIn(pc, s, strong).pc = pc
                          /\ SignIn(pc, s, strong).s = s
                          /\ SignIn(pc, s, strong).k = 0
    /\ \A r \in Call : \A k : /\ Holding(r, k).pc = "code"
                              /\ Holding(r, k).s = r.s
                              /\ Holding(r, k).k = k
                              /\ Holding(r, k).stale = r.stale
  BY DEF Request, SignIn, Holding, Call

\* What CloseWrite does to the requests.
LEMMA CloseFacts ==
  ASSUME TypeOK, NEW c \in Calls, CloseWrite(c)
  PROVE  /\ call[c].pc \in {"suspend", "deactivate"} /\ call'[c].pc = "closing"
         /\ \A x \in Calls \ {c} :
               /\ call'[x].pc = call[x].pc
               /\ call'[x].s = call[x].s
               /\ call'[x].k = call[x].k
               /\ call'[x].pc \in SigningIn \cup Reopening => call'[x].stale
  <1>1. \A x \in Calls : /\ Late(call[x]).pc = call[x].pc
                         /\ Late(call[x]).s = call[x].s
                         /\ Late(call[x]).k = call[x].k
                         /\ Late(call[x]).stale
    <2>1. \A r \in Call : /\ Late(r).pc = r.pc
                          /\ Late(r).s = r.s
                          /\ Late(r).k = r.k
                          /\ Late(r).stale
      BY DEF Call, Late
    <2>. QED BY <2>1 DEF TypeOK
  <1>2. Request("closing", 0, 0).pc = "closing"
    BY DEF Request
  <1>3. call[c].pc \in {"suspend", "deactivate"} /\ call'[c] = Request("closing", 0, 0)
    BY DEF CloseWrite
  <1>4. \A x \in Calls \ {c} :
           call'[x] = IF call[x].pc \in SigningIn \cup Reopening THEN Late(call[x]) ELSE call[x]
    BY DEF CloseWrite
  <1>5. call'[c].pc = "closing"
    BY <1>2, <1>3
  <1>. QED BY <1>1, <1>3, <1>4, <1>5

\* What is known of the requests under way in every state.
RequestInv == Aimed /\ Subject /\ StaleSignIns /\ StaleReopens

\* A sign-in goes on with what it was begun with, and begins only while the account is open.
LEMMA SignInRequests ==
  ASSUME TypeOK, RequestInv, NEW c \in Calls, SignInStep(c)
  PROVE  RequestInv'
  <1> USE MoveFacts, RequestFacts DEF RequestInv, Aimed, Subject, StaleSignIns, StaleReopens,
                                      SigningIn, Reopening, TypeOK
  <1>1. CASE SignInRead(c)
    <2> DEFINE r == SignIn("factor", 0, FALSE)
    <2>1. Begin(c, r) /\ ~Refused(status) /\ UNCHANGED status
      BY <1>1 DEF SignInRead
    <2>2. r.pc = "factor" /\ r.s = 0 /\ r.k = 0
      BY DEF SignIn
    <2> HIDE DEF r
    <2>3. \A x \in Calls : IF x = c THEN call'[x] = r ELSE call'[x] = call[x]
      BY <2>1
    <2>. QED BY <2>1, <2>2, <2>3 DEF Refused
  <1>2. CASE SignInRefused(c)
    BY <1>2 DEF SignInRefused
  <1>3. CASE FactorRead(c)
    BY <1>3 DEF FactorRead, At
  <1>4. CASE IssueSession(c)
    BY <1>4 DEF IssueSession
  <1>5. CASE ChallengeRead(c)
    <2> DEFINE r == SignIn("challenge", 0, TRUE)
    <2>1. Begin(c, r) /\ ~Refused(status) /\ UNCHANGED status
      BY <1>5 DEF ChallengeRead
    <2>2. r.pc = "challenge" /\ r.s = 0 /\ r.k = 0
      BY DEF SignIn
    <2> HIDE DEF r
    <2>3. \A x \in Calls : IF x = c THEN call'[x] = r ELSE call'[x] = call[x]
      BY <2>1
    <2>. QED BY <2>1, <2>2, <2>3 DEF Refused
  <1>6. CASE ChallengeCheck(c)
    <2>1. At(c, "challenge") /\ UNCHANGED status
      BY <1>6 DEF ChallengeCheck
    <2>2. CASE Return(c) \/ Goto(c, "touch")
      BY <2>1, <2>2 DEF At
    <2>3. ASSUME NEW k \in Codes, call' = [call EXCEPT ![c] = Holding(@, k)]
          PROVE  RequestInv'
      <3>1. \A x \in Calls : call'[x] = IF x = c THEN Holding(call[x], k) ELSE call[x]
        BY <2>3
      <3>2. \A x \in Calls : call[x] \in Call
        OBVIOUS
      <3>. QED BY <2>1, <3>1, <3>2 DEF At
    <2>. QED BY <1>6, <2>2, <2>3 DEF ChallengeCheck
  <1>7. CASE UseCode(c)
    BY <1>7 DEF UseCode, ConsumeCode, At
  <1>8. CASE TouchFactor(c)
    BY <1>8 DEF TouchFactor, At
  <1>. QED BY <1>1, <1>2, <1>3, <1>4, <1>5, <1>6, <1>7, <1>8 DEF SignInStep

\* So does a rotation.
LEMMA SessionRequests ==
  ASSUME TypeOK, RequestInv, NEW c \in Calls, SessionStep(c)
  PROVE  RequestInv'
  <1> USE MoveFacts, RequestFacts DEF RequestInv, Aimed, Subject, StaleSignIns, StaleReopens,
                                      SigningIn, Reopening, TypeOK
  <1>1. ASSUME NEW s \in Sessions, RotateRead(c, s)
        PROVE  RequestInv'
    BY <1>1 DEF RotateRead, Refused
  <1>2. ASSUME NEW s \in Sessions, RevokeRead(c, s)
        PROVE  RequestInv'
    BY <1>2 DEF RevokeRead
  <1>3. CASE RotateWrite(c)
    BY <1>3 DEF RotateWrite, At
  <1>4. CASE RevokeWrite(c)
    BY <1>4 DEF RevokeWrite
  <1>5. CASE RevokeAll(c)
    BY <1>5 DEF RevokeAll
  <1>. QED BY <1>1, <1>2, <1>3, <1>4, <1>5 DEF SessionStep

\* Closing the account makes every other request stale, and no request begun on a
\* deactivated account reopens it.
LEMMA StaffRequests ==
  ASSUME TypeOK, RequestInv, NEW c \in Calls, StaffStep(c) \/ ResetRead(c) \/ ResetWrite(c)
  PROVE  RequestInv'
  <1> USE MoveFacts, RequestFacts DEF RequestInv, Aimed, Subject, StaleSignIns, StaleReopens,
                                      SigningIn, Reopening, TypeOK
  <1>1. ASSUME NEW kind \in {"suspend", "deactivate", "activate", "accept"}, StatusRead(c, kind)
        PROVE  RequestInv'
    BY <1>1 DEF StatusRead, May
  <1>2. CASE CloseWrite(c)
    BY <1>2, CloseFacts DEF CloseWrite, ClosedStatus
  <1>3. CASE ActivateWrite(c)
    BY <1>3 DEF ActivateWrite
  <1>4. CASE AcceptWrite(c)
    BY <1>4 DEF AcceptWrite
  <1>5. CASE ResetRead(c)
    BY <1>5 DEF ResetRead
  <1>6. CASE ResetWrite(c)
    BY <1>6 DEF ResetWrite, At
  <1>. QED BY <1>1, <1>2, <1>3, <1>4, <1>5, <1>6 DEF StaffStep

\* The operations on the second factor concern neither.
LEMMA FactorRequests ==
  ASSUME TypeOK, RequestInv, NEW c \in Calls, FactorStep(c) \/ Abort(c)
  PROVE  RequestInv'
  <1> USE MoveFacts, RequestFacts DEF RequestInv, Aimed, Subject, StaleSignIns, StaleReopens,
                                      SigningIn, Reopening, TypeOK
  <1>1. CASE FactorOp(c)
    BY <1>1 DEF FactorOp
  <1>2. CASE Enroll(c)
    BY <1>2 DEF Enroll
  <1>3. CASE Renew(c)
    BY <1>3 DEF Renew
  <1>4. CASE DisableWithCode(c)
    BY <1>4 DEF DisableWithCode, ConsumeCode, At
  <1>5. CASE DisableMfa(c)
    BY <1>5 DEF DisableMfa
  <1>6. CASE Abort(c)
    BY <1>6 DEF Abort
  <1>. QED BY <1>1, <1>2, <1>3, <1>4, <1>5, <1>6 DEF FactorStep

-----------------------------------------------------------------------------
(* Sessions are issued by IssueSession, and otherwise only ever revoked *)

RowsKept ==
    \A x \in Sessions : /\ session'[x].parent = session[x].parent
                        /\ session'[x].code = session[x].code
                        /\ \/ session'[x] = session[x]
                           \/ session'[x].state \in {"rotated", "ended"}

\* A revocation changes neither what a session was issued for nor its code.
LEMMA RowFacts ==
    \A r \in Session : /\ Rotated(r).state = "rotated" /\ Ended(r).state = "ended"
                       /\ Rotated(r).parent = r.parent /\ Ended(r).parent = r.parent
                       /\ Rotated(r).code = r.code /\ Ended(r).code = r.code
  BY DEF Session, Rotated, Ended

\* After the revocation of all sessions none is live.
LEMMA AllEndedFacts ==
  ASSUME TypeOK, AllEnded
  PROVE  RowsKept /\ \A x \in Sessions : session'[x].state # "live"
  <1>1. \A x \in Sessions : session[x] \in Session
    BY DEF TypeOK
  <1>. QED BY <1>1, RowFacts DEF AllEnded, RowsKept

\* Only IssueSession makes a session live.
LEMMA RowsStep ==
  ASSUME TypeOK, RequestInv, Next
  PROVE  RowsKept \/ \E c \in Calls : IssueSession(c)
  <1>1. \A x \in Sessions : session[x] \in Session
    BY DEF TypeOK
  <1>2. UNCHANGED session => RowsKept
    BY DEF RowsKept
  <1>3. ASSUME NEW s \in Sessions, session' = [session EXCEPT ![s] = Ended(@)]
        PROVE  RowsKept
    BY <1>1, <1>3, RowFacts DEF RowsKept, TypeOK
  <1>4. ASSUME NEW s \in Sessions, session' = [session EXCEPT ![s] = Rotated(@)]
        PROVE  RowsKept
    BY <1>1, <1>4, RowFacts DEF RowsKept, TypeOK
  <1>5. ASSUME NEW c \in Calls, SignInStep(c)
        PROVE  UNCHANGED session \/ IssueSession(c)
    BY <1>5 DEF SignInStep, SignInRead, SignInRefused, FactorRead, ChallengeRead, ChallengeCheck,
                UseCode, ConsumeCode, TouchFactor
  <1>6. ASSUME NEW c \in Calls, SessionStep(c)
        PROVE  RowsKept
    <2>1. ASSUME NEW s \in Sessions, RotateRead(c, s) \/ RevokeRead(c, s)
          PROVE  RowsKept
      BY <2>1, <1>2 DEF RotateRead, RevokeRead
    <2>2. CASE RotateWrite(c)
      BY <2>2, <1>4 DEF RotateWrite, At, RequestInv, Aimed
    <2>3. CASE RevokeWrite(c)
      BY <2>3, <1>3 DEF RevokeWrite, At, RequestInv, Aimed
    <2>4. CASE RevokeAll(c)
      BY <2>4, AllEndedFacts DEF RevokeAll
    <2>. QED BY <1>6, <2>1, <2>2, <2>3, <2>4 DEF SessionStep
  <1>7. ASSUME NEW c \in Calls, StaffStep(c) \/ ResetRead(c) \/ ResetWrite(c)
        PROVE  UNCHANGED session
    BY <1>7 DEF StaffStep, StatusRead, CloseWrite, ActivateWrite, AcceptWrite, ResetRead, ResetWrite
  <1>8. ASSUME NEW c \in Calls, FactorStep(c) \/ Abort(c)
        PROVE  UNCHANGED session
    BY <1>8 DEF FactorStep, FactorOp, Enroll, Renew, DisableWithCode, ConsumeCode, DisableMfa, Abort
  <1>9. ASSUME NEW s \in Sessions, SessionExpires(s)
        PROVE  RowsKept
    BY <1>3, <1>9 DEF SessionExpires
  <1>10. RevokeStaffSessions => RowsKept
    BY AllEndedFacts DEF RevokeStaffSessions
  <1>. QED BY <1>2, <1>5, <1>6, <1>7, <1>8, <1>9, <1>10 DEF Next
-----------------------------------------------------------------------------
(* ClosedMeansLate *)

Closed == status \in {"SUSPENDED", "DEACTIVATED"} /\ ~cut /\ \A c \in Calls : ~At(c, "closing")

\* An account is closed by CloseWrite, after which a request is at "closing"
\* until it has revoked every session or is cut short.
LEMMA ClosingStep ==
  ASSUME TypeOK, Next, Closed'
  PROVE  Closed \/ \A x \in Sessions : session'[x].state # "live"
  <1> USE MoveFacts DEF TypeOK
  <1> DEFINE Other(c) == /\ UNCHANGED <<status, cut>>
                         /\ call[c].pc # "closing"
                         /\ \A x \in Calls \ {c} : call'[x] = call[x]
  <1>1. ASSUME NEW c \in Calls, Other(c)
        PROVE  Closed
    BY <1>1 DEF Closed, At
  <1>2. ASSUME NEW c \in Calls, SignInStep(c)
        PROVE  Other(c)
    <2>1. CASE SignInRead(c) \/ ChallengeRead(c)
      <3>1. PICK r : Begin(c, r)
        BY <2>1 DEF SignInRead, ChallengeRead
      <3>2. UNCHANGED <<status, cut>>
        BY <2>1 DEF SignInRead, ChallengeRead, history
      <3>. QED BY <3>1, <3>2
    <2>2. CASE SignInRefused(c) \/ FactorRead(c) \/ IssueSession(c)
      BY <2>2 DEF SignInRefused, FactorRead, IssueSession, history, At
    <2>3. CASE ChallengeCheck(c)
      BY <2>3 DEF ChallengeCheck, history, At
    <2>4. CASE UseCode(c) \/ TouchFactor(c)
      BY <2>4 DEF UseCode, ConsumeCode, TouchFactor, history, At
    <2>. QED BY <1>2, <2>1, <2>2, <2>3, <2>4 DEF SignInStep
  <1>3. ASSUME NEW c \in Calls, SessionStep(c)
        PROVE  Closed \/ \A x \in Sessions : session'[x].state # "live"
    <2>1. ASSUME NEW s \in Sessions, RotateRead(c, s) \/ RevokeRead(c, s)
          PROVE  Other(c)
      BY <2>1 DEF RotateRead, RevokeRead, history
    <2>2. CASE RotateWrite(c) \/ RevokeWrite(c)
      <3>1. Other(c)
        BY <2>2 DEF RotateWrite, RevokeWrite, history, At
      <3>. QED BY <1>1, <3>1
    <2>3. CASE RevokeAll(c)
      BY <2>3, AllEndedFacts DEF RevokeAll
    <2>. QED BY <1>1, <1>3, <2>1, <2>2, <2>3 DEF SessionStep
  <1>4. ASSUME NEW c \in Calls, StaffStep(c) \/ ResetRead(c) \/ ResetWrite(c)
        PROVE  Closed
    <2>1. ASSUME NEW kind \in {"suspend", "deactivate", "activate", "accept"}, StatusRead(c, kind)
          PROVE  Other(c)
      BY <2>1 DEF StatusRead, history
    <2>2. CASE CloseWrite(c)
      BY <2>2, CloseFacts DEF Closed, At
    <2>3. CASE ActivateWrite(c) \/ AcceptWrite(c)
      BY <2>3 DEF ActivateWrite, AcceptWrite, Closed
    <2>4. CASE ResetRead(c) \/ ResetWrite(c)
      <3>1. Other(c)
        BY <2>4 DEF ResetRead, ResetWrite, history, At
      <3>. QED BY <1>1, <3>1
    <2>. QED BY <1>1, <1>4, <2>1, <2>2, <2>3, <2>4 DEF StaffStep
  <1>5. ASSUME NEW c \in Calls, FactorStep(c)
        PROVE  Other(c)
    <2>1. CASE FactorOp(c)
      BY <2>1 DEF FactorOp, history
    <2>2. CASE Enroll(c) \/ Renew(c) \/ DisableMfa(c)
      BY <2>2 DEF Enroll, Renew, DisableMfa, history, At
    <2>3. CASE DisableWithCode(c)
      BY <2>3 DEF DisableWithCode, ConsumeCode, At
    <2>. QED BY <1>5, <2>1, <2>2, <2>3 DEF FactorStep
  <1>6. ASSUME NEW c \in Calls, Abort(c)
        PROVE  Closed
    <2>1. ~At(c, "closing") /\ cut' = cut
      BY <1>6 DEF Abort, Closed
    <2>. QED BY <1>1, <1>6, <2>1 DEF Abort, At
  <1>7. ASSUME NEW s \in Sessions, SessionExpires(s)
        PROVE  Closed
    BY <1>7 DEF SessionExpires, Closed, At, history
  <1>8. CASE RevokeStaffSessions
    BY <1>8, AllEndedFacts DEF RevokeStaffSessions
  <1>. QED BY <1>1, <1>2, <1>3, <1>4, <1>5, <1>6, <1>7, <1>8 DEF Next

\* Whoever is still signed in to a closed account came in by a stale request.
LEMMA ClosedStep ==
  ASSUME TypeOK, RequestInv, ClosedMeansLate, Next
  PROVE  ClosedMeansLate'
  <1> SUFFICES ASSUME Closed', NEW x \in Sessions, session'[x].state = "live"
               PROVE  session'[x].stale
    BY DEF ClosedMeansLate, Closed
  <1>1. Closed
    BY ClosingStep
  <1>2. \A y \in Sessions : session[y].state = "live" => session[y].stale
    BY <1>1 DEF ClosedMeansLate, Closed
  <1>3. CASE RowsKept
    BY <1>2, <1>3 DEF RowsKept
  <1>4. ASSUME NEW c \in Calls, IssueSession(c)
        PROVE  session'[x].stale
    <2>1. call[c].stale
      BY <1>1, <1>4 DEF Closed, RequestInv, StaleSignIns, SigningIn, IssueSession, At
    <2>. QED BY <1>2, <1>4, <2>1 DEF IssueSession, TypeOK
  <1>. QED BY <1>3, <1>4, RowsStep
-----------------------------------------------------------------------------
(* OneSuccessor *)

\* A session and a request at "issue" lay claim to the session they succeed. Two
\* claims, or a claim and a rotation still to come, and it has been forked; and
\* a session is claimed only once it is revoked.
ForkInv ==
    /\ OneSuccessor
    /\ \A x \in Sessions, c \in Calls :
          /\ session[x].parent \in Sessions
          /\ call[c].pc \in {"rotate", "issue"}
          /\ call[c].s = session[x].parent
          => session[x].parent \in forked
    /\ \A c, d \in Calls :
          /\ c # d
          /\ call[c].pc = "issue"
          /\ call[c].s \in Sessions
          /\ call[d].pc \in {"rotate", "issue"}
          /\ call[d].s = call[c].s
          => call[c].s \in forked
    /\ \A x \in Sessions : session[x].parent \in Sessions =>
          session[session[x].parent].state \in {"rotated", "ended"}
    /\ \A c \in Calls : call[c].pc = "issue" /\ call[c].s \in Sessions =>
          session[call[c].s].state \in {"rotated", "ended"}

\* Only RotateRead and RotateWrite bring a request to "rotate", or to "issue" for
\* a session.
RotationsKept ==
    /\ forked \subseteq forked'
    /\ \A c \in Calls :
          call'[c].pc \in {"rotate", "issue"} /\ call'[c].s \in Sessions =>
              call[c].pc = call'[c].pc /\ call[c].s = call'[c].s

\* Every other step leaves the rotations under way as they are.
LEMMA RotationStep ==
  ASSUME TypeOK, RequestInv, Next
  PROVE  \/ RotationsKept
         \/ \E c \in Calls : RotateWrite(c) \/ \E s \in Sessions : RotateRead(c, s)
  <1> USE MoveFacts, RequestFacts DEF TypeOK
  <1>0. 0 \notin Sessions
    BY DEF Sessions
  <1>1. ASSUME NEW c \in Calls, SignInStep(c)
        PROVE  RotationsKept
    <2>1. CASE SignInRead(c) \/ ChallengeRead(c)
      <3>1. PICK r : Begin(c, r) /\ r.pc \in {"factor", "challenge"}
        BY <2>1 DEF SignInRead, ChallengeRead, SignIn
      <3>2. UNCHANGED forked
        BY <2>1 DEF SignInRead, ChallengeRead, history
      <3>. QED BY <3>1, <3>2 DEF RotationsKept
    <2>2. CASE SignInRefused(c) \/ IssueSession(c)
      BY <2>2 DEF SignInRefused, IssueSession, history, RotationsKept
    <2>3. CASE FactorRead(c) \/ TouchFactor(c)
      BY <1>0, <2>3 DEF FactorRead, TouchFactor, history, RotationsKept, At, RequestInv, Subject
    <2>4. CASE ChallengeCheck(c)
      <3>1. call[c].s = 0
        BY <2>4 DEF ChallengeCheck, At, RequestInv, Subject
      <3>2. CASE Return(c) \/ Goto(c, "touch")
        BY <2>4, <3>2 DEF ChallengeCheck, history, RotationsKept
      <3>3. ASSUME NEW k \in Codes, call' = [call EXCEPT ![c] = Holding(@, k)]
            PROVE  RotationsKept
        <4>1. \A x \in Calls : call'[x] = IF x = c THEN Holding(call[x], k) ELSE call[x]
          BY <3>3
        <4>2. \A x \in Calls : call[x] \in Call
          OBVIOUS
        <4>. QED BY <2>4, <4>1, <4>2 DEF ChallengeCheck, history, RotationsKept
      <3>. QED BY <2>4, <3>2, <3>3 DEF ChallengeCheck
    <2>5. CASE UseCode(c)
      BY <2>5 DEF UseCode, ConsumeCode, RotationsKept
    <2>. QED BY <1>1, <2>1, <2>2, <2>3, <2>4, <2>5 DEF SignInStep
  <1>2. ASSUME NEW c \in Calls, NEW s \in Sessions, RevokeRead(c, s)
        PROVE  RotationsKept
    BY <1>2 DEF RevokeRead, history, RotationsKept
  <1>3. ASSUME NEW c \in Calls, RevokeWrite(c) \/ RevokeAll(c)
        PROVE  RotationsKept
    BY <1>3 DEF RevokeWrite, RevokeAll, history, RotationsKept
  <1>4. ASSUME NEW c \in Calls, StaffStep(c) \/ ResetRead(c) \/ ResetWrite(c)
        PROVE  RotationsKept
    <2>1. ASSUME NEW kind \in {"suspend", "deactivate", "activate", "accept"}, StatusRead(c, kind)
          PROVE  RotationsKept
      BY <2>1 DEF StatusRead, history, RotationsKept
    <2>2. CASE CloseWrite(c)
      BY <2>2, CloseFacts DEF CloseWrite, history, RotationsKept
    <2>3. CASE ActivateWrite(c) \/ AcceptWrite(c)
      BY <2>3 DEF ActivateWrite, AcceptWrite, history, RotationsKept
    <2>4. CASE ResetRead(c) \/ ResetWrite(c)
      BY <2>4 DEF ResetRead, ResetWrite, history, RotationsKept
    <2>. QED BY <1>4, <2>1, <2>2, <2>3, <2>4 DEF StaffStep
  <1>5. ASSUME NEW c \in Calls, FactorStep(c) \/ Abort(c)
        PROVE  RotationsKept
    <2>1. CASE FactorOp(c)
      <3>1. PICK r : Begin(c, r) /\ r.pc \in {"enroll", "renew", "off", "offCode"}
        BY <2>1 DEF FactorOp
      <3>. QED BY <2>1, <3>1 DEF FactorOp, history, RotationsKept
    <2>2. CASE Enroll(c) \/ Renew(c) \/ DisableMfa(c) \/ Abort(c)
      BY <2>2 DEF Enroll, Renew, DisableMfa, Abort, history, RotationsKept
    <2>3. CASE DisableWithCode(c)
      BY <2>3 DEF DisableWithCode, ConsumeCode, RotationsKept
    <2>. QED BY <1>5, <2>1, <2>2, <2>3 DEF FactorStep
  <1>6. ASSUME NEW s \in Sessions, SessionExpires(s)
        PROVE  RotationsKept
    BY <1>6 DEF SessionExpires, history, RotationsKept
  <1>7. CASE RevokeStaffSessions
    BY <1>7 DEF RevokeStaffSessions, RotationsKept
  <1>. QED BY <1>1, <1>2, <1>3, <1>4, <1>5, <1>6, <1>7 DEF Next, SessionStep

\* Every step keeps ForkInv: a rotation marks the session forked if another still
\* holds it, and a claimed session is not live, so no new rotation can read it.
LEMMA ForkStep ==
  ASSUME TypeOK, RequestInv, ForkInv, Next
  PROVE  ForkInv'
  <1> USE DEF ForkInv, OneSuccessor
  <1>1. CASE RowsKept /\ RotationsKept
    BY <1>1 DEF RowsKept, RotationsKept
  <1>2. ASSUME NEW c \in Calls, IssueSession(c)
        PROVE  ForkInv'
    <2>1. RotationsKept /\ forked' = forked /\ call'[c].pc = "idle"
      BY <1>2, MoveFacts DEF TypeOK, IssueSession, history, RotationsKept
    <2>2. CASE UNCHANGED session
      BY <2>1, <2>2 DEF RotationsKept
    <2>3. ASSUME NEW x \in Sessions, session[x].state = "absent",
                 session' = [session EXCEPT ![x] =
                    [state |-> "live", parent |-> call[c].s, code |-> call[c].k,
                     strong |-> call[c].strong, stale |-> call[c].stale]]
          PROVE  ForkInv'
      <3> DEFINE s == call[c].s
      <3>1. At(c, "issue")
        BY <1>2 DEF IssueSession
      <3>2. /\ session'[x].parent = s
            /\ \A y \in Sessions \ {x} : session'[y] = session[y]
        BY <2>3 DEF TypeOK
      <3>3. s \in Sessions => session[s].state \in {"rotated", "ended"} /\ session'[s] = session[s]
        BY <2>3, <3>1, <3>2 DEF At
      <3>4. \A y \in Sessions : session[y].parent \in Sessions => session[y].parent # x
        BY <2>3
      <3>5. \A d \in Calls : call[d].pc = "issue" /\ call[d].s \in Sessions => call[d].s # x
        BY <2>3
      <3>6. OneSuccessor'
        BY <2>1, <3>1, <3>2 DEF At
      <3>7. \A y \in Sessions, d \in Calls :
               /\ session'[y].parent \in Sessions
               /\ call'[d].pc \in {"rotate", "issue"}
               /\ call'[d].s = session'[y].parent
               => session'[y].parent \in forked'
        BY <2>1, <3>1, <3>2 DEF At, RotationsKept
      <3>8. \A y \in Sessions : session'[y].parent \in Sessions =>
               session'[session'[y].parent].state \in {"rotated", "ended"}
        BY <3>2, <3>3, <3>4
      <3>9. \A d \in Calls : call'[d].pc = "issue" /\ call'[d].s \in Sessions =>
               session'[call'[d].s].state \in {"rotated", "ended"}
        BY <2>1, <3>2, <3>5 DEF RotationsKept
      <3>. QED BY <2>1, <3>6, <3>7, <3>8, <3>9 DEF RotationsKept
    <2>. QED BY <1>2, <2>2, <2>3 DEF IssueSession, IsNext, State
  <1>3. ASSUME NEW c \in Calls, NEW s \in Sessions, RotateRead(c, s)
        PROVE  ForkInv'
    <2>1. UNCHANGED <<session, forked>> /\ session[s].state = "live"
      BY <1>3 DEF RotateRead, Usable, history
    <2>2. PICK r : Begin(c, r) /\ r.pc = "rotate" /\ r.s = s
      BY <1>3 DEF RotateRead, SignIn
    <2>3. \A d \in Calls : IF d = c THEN call'[d].pc = "rotate" /\ call'[d].s = s
                                    ELSE call'[d] = call[d]
      BY <2>2, MoveFacts DEF TypeOK
    <2>4. /\ \A x \in Sessions : session[x].parent # s
          /\ \A d \in Calls : call[d].pc = "issue" => call[d].s # s
      BY <2>1
    <2>. QED BY <2>1, <2>3, <2>4
  <1>4. ASSUME NEW c \in Calls, RotateWrite(c)
        PROVE  ForkInv'
    <2> DEFINE s == call[c].s
    <2>1. call[c].pc = "rotate" /\ s \in Sessions
      BY <1>4 DEF RotateWrite, At, RequestInv, Aimed
    <2>2. \A d \in Calls : IF d = c THEN call'[d].pc = "issue" /\ call'[d].s = s
                                    ELSE call'[d] = call[d]
      BY <1>4, MoveFacts DEF RotateWrite, TypeOK
    <2>3. session'[s].state = "rotated" /\ RowsKept
      <3>1. \A x \in Sessions : session[x] \in Session
        BY DEF TypeOK
      <3>. QED BY <1>4, <2>1, <3>1, RowFacts DEF RotateWrite, RowsKept, TypeOK
    <2>4. /\ forked \subseteq forked'
          /\ \A d \in Calls \ {c} : call[d].pc = "rotate" /\ call[d].s = s => s \in forked'
      BY <1>4 DEF RotateWrite, At
    <2>5. OneSuccessor'
      BY <2>3, <2>4 DEF RowsKept
    <2>6. \A x \in Sessions, d \in Calls :
             /\ session'[x].parent \in Sessions
             /\ call'[d].pc \in {"rotate", "issue"}
             /\ call'[d].s = session'[x].parent
             => session'[x].parent \in forked'
      BY <2>1, <2>2, <2>3, <2>4 DEF RowsKept
    <2>7. \A d, e \in Calls :
             /\ d # e
             /\ call'[d].pc = "issue"
             /\ call'[d].s \in Sessions
             /\ call'[e].pc \in {"rotate", "issue"}
             /\ call'[e].s = call'[d].s
             => call'[d].s \in forked'
      BY <2>1, <2>2, <2>4
    <2>8. \A x \in Sessions : session'[x].parent \in Sessions =>
             session'[session'[x].parent].state \in {"rotated", "ended"}
      BY <2>3 DEF RowsKept
    <2>9. \A d \in Calls : call'[d].pc = "issue" /\ call'[d].s \in Sessions =>
             session'[call'[d].s].state \in {"rotated", "ended"}
      BY <2>1, <2>2, <2>3 DEF RowsKept
    <2>. QED BY <2>5, <2>6, <2>7, <2>8, <2>9
  <1>. QED BY <1>1, <1>2, <1>3, <1>4, RowsStep, RotationStep
-----------------------------------------------------------------------------
(* OneAdmission *)

\* A session and a sign-in past UseCode lay claim to the recovery code they came
\* in by. Two claims, or a claim and a sign-in still to use the code up, and it
\* has been doubled; and a code is claimed only once it is used.
DoubleInv ==
    /\ OneAdmission
    /\ \A x \in Sessions, c \in Calls :
          /\ session[x].code \in Codes
          /\ call[c].pc \in {"code", "touch", "issue"}
          /\ call[c].k = session[x].code
          => session[x].code \in doubled
    /\ \A c, d \in Calls :
          /\ c # d
          /\ call[c].pc \in {"touch", "issue"}
          /\ call[c].k \in Codes
          /\ call[d].pc \in {"code", "touch", "issue"}
          /\ call[d].k = call[c].k
          => call[c].k \in doubled
    /\ \A x \in Sessions : session[x].code \in Codes =>
          code[session[x].code] \in {"used", "deleted"}
    /\ \A c \in Calls : call[c].pc \in {"touch", "issue"} /\ call[c].k \in Codes =>
          code[call[c].k] \in {"used", "deleted"}

\* A code never becomes unused again; nothing but ChallengeCheck and UseCode
\* gives a sign-in a code or brings it past using it.
CodesKept ==
    /\ doubled \subseteq doubled'
    /\ \A k \in Codes : code[k] \in {"used", "deleted"} => code'[k] \in {"used", "deleted"}
AdmissionsKept ==
    /\ CodesKept
    /\ \A c \in Calls :
          call'[c].pc \in {"code", "touch", "issue"} /\ call'[c].k \in Codes =>
              /\ call[c].k = call'[c].k
              /\ \/ call[c].pc = call'[c].pc
                 \/ {call[c].pc, call'[c].pc} \subseteq {"touch", "issue"}

\* Using a code up leaves it used, and doubled if another sign-in still holds it.
LEMMA ConsumeFacts ==
  ASSUME TypeOK, Aimed, NEW c \in Calls, NEW from \in {"code", "offCode"}, NEW to,
         ConsumeCode(c, from, to)
  PROVE  /\ CodesKept
         /\ call'[c].pc = "idle" \/
            /\ call'[c].pc = to
            /\ call'[c].k = call[c].k
            /\ code'[call[c].k] = "used"
            /\ \A d \in Calls \ {c} :
                  call[d].k = call[c].k /\ call[d].pc = "code" => call[c].k \in doubled'
         /\ \A d \in Calls \ {c} : call'[d] = call[d]
  <1> USE MoveFacts DEF TypeOK
  <1>1. call[c].k \in Codes
    BY DEF ConsumeCode, At, Aimed
  <1>2. CASE code[call[c].k] = "deleted"
    <2>1. Return(c) /\ UNCHANGED <<code, doubled>>
      BY <1>2 DEF ConsumeCode
    <2>. QED BY <2>1 DEF CodesKept
  <1>3. CASE code[call[c].k] # "deleted"
    <2>1. /\ Goto(c, to)
          /\ code' = [code EXCEPT ![call[c].k] = "used"]
          /\ doubled' = IF \E x \in Calls \ {c} :
                              call[x].k = call[c].k /\ call[x].pc \in {"code", "offCode"}
                        THEN doubled \cup {call[c].k}
                        ELSE doubled
      BY <1>3 DEF ConsumeCode
    <2>2. CodesKept
      BY <1>1, <2>1 DEF CodesKept
    <2>3. code'[call[c].k] = "used"
      BY <1>1, <2>1
    <2>. QED BY <2>1, <2>2, <2>3
  <1>. QED BY <1>2, <1>3

\* Every other step leaves the codes used, and the sign-ins with a code as they are.
LEMMA AdmissionStep ==
  ASSUME TypeOK, RequestInv, Next
  PROVE  AdmissionsKept \/ \E c \in Calls : ChallengeCheck(c) \/ UseCode(c)
  <1> USE MoveFacts, RequestFacts DEF TypeOK
  <1>0. 0 \notin Codes
    BY DEF Codes
  <1>1. UNCHANGED <<code, doubled>> => CodesKept
    BY DEF CodesKept
  <1>2. ASSUME NEW c \in Calls, SignInStep(c)
        PROVE  AdmissionsKept \/ ChallengeCheck(c) \/ UseCode(c)
    <2>1. CASE SignInRead(c) \/ ChallengeRead(c)
      <3>1. PICK r : Begin(c, r) /\ r.pc \in {"factor", "challenge"}
        BY <2>1 DEF SignInRead, ChallengeRead, SignIn
      <3>2. CodesKept
        BY <1>1, <2>1 DEF SignInRead, ChallengeRead, factors, history
      <3>. QED BY <3>1, <3>2 DEF AdmissionsKept
    <2>2. CASE SignInRefused(c) \/ IssueSession(c)
      BY <1>1, <2>2 DEF SignInRefused, IssueSession, factors, history, AdmissionsKept
    <2>3. CASE FactorRead(c) \/ TouchFactor(c)
      BY <1>0, <1>1, <2>3 DEF FactorRead, TouchFactor, factors, history, AdmissionsKept, At,
                              RequestInv, Subject
    <2>. QED BY <1>2, <2>1, <2>2, <2>3 DEF SignInStep
  <1>3. ASSUME NEW c \in Calls, SessionStep(c)
        PROVE  AdmissionsKept
    <2>1. ASSUME NEW s \in Sessions, RotateRead(c, s) \/ RevokeRead(c, s)
          PROVE  AdmissionsKept
      <3>1. PICK r : Begin(c, r) /\ r.pc \in {"rotate", "revoke"}
        BY <2>1 DEF RotateRead, RevokeRead, SignIn, Request
      <3>2. CodesKept
        BY <1>1, <2>1 DEF RotateRead, RevokeRead, factors, history
      <3>. QED BY <3>1, <3>2 DEF AdmissionsKept
    <2>2. CASE RotateWrite(c)
      <3>1. call[c].k = 0 /\ Goto(c, "issue") /\ CodesKept
        BY <1>1, <2>2 DEF RotateWrite, At, RequestInv, Subject, factors
      <3>. QED BY <1>0, <3>1 DEF AdmissionsKept
    <2>3. CASE RevokeWrite(c) \/ RevokeAll(c)
      BY <1>1, <2>3 DEF RevokeWrite, RevokeAll, factors, history, AdmissionsKept
    <2>. QED BY <1>3, <2>1, <2>2, <2>3 DEF SessionStep
  <1>4. ASSUME NEW c \in Calls, StaffStep(c) \/ ResetRead(c) \/ ResetWrite(c)
        PROVE  AdmissionsKept
    <2>1. ASSUME NEW kind \in {"suspend", "deactivate", "activate", "accept"}, StatusRead(c, kind)
          PROVE  AdmissionsKept
      BY <1>1, <2>1 DEF StatusRead, factors, history, AdmissionsKept
    <2>2. CASE CloseWrite(c)
      BY <1>1, <2>2, CloseFacts DEF CloseWrite, factors, history, AdmissionsKept
    <2>3. CASE ActivateWrite(c) \/ AcceptWrite(c)
      BY <1>1, <2>3 DEF ActivateWrite, AcceptWrite, factors, history, AdmissionsKept
    <2>4. CASE ResetRead(c) \/ ResetWrite(c)
      BY <1>1, <2>4 DEF ResetRead, ResetWrite, factors, history, AdmissionsKept
    <2>. QED BY <1>4, <2>1, <2>2, <2>3, <2>4 DEF StaffStep
  <1>5. ASSUME NEW c \in Calls, FactorStep(c) \/ Abort(c)
        PROVE  AdmissionsKept
    <2>1. CASE FactorOp(c)
      <3>1. PICK r : Begin(c, r) /\ r.pc \in {"enroll", "renew", "off", "offCode"}
        BY <2>1 DEF FactorOp
      <3>. QED BY <1>1, <2>1, <3>1 DEF FactorOp, factors, history, AdmissionsKept
    <2>2. /\ \A k \in Codes : code[k] \in {"used", "deleted"} => DeleteCodes[k] = "deleted"
          /\ \A k \in Codes : code[k] \in {"used", "deleted"} => RenewCodes[k] = "deleted"
      BY DEF DeleteCodes, RenewCodes, IsNext
    <2>3. CASE Enroll(c) \/ Renew(c) \/ DisableMfa(c)
      <3>1. CodesKept
        BY <2>2, <2>3 DEF Enroll, Renew, DisableMfa, history, CodesKept
      <3>2. Return(c)
        BY <2>3 DEF Enroll, Renew, DisableMfa
      <3>. QED BY <3>1, <3>2 DEF AdmissionsKept
    <2>4. CASE DisableWithCode(c)
      BY <2>4, ConsumeFacts DEF DisableWithCode, RequestInv, AdmissionsKept
    <2>5. CASE Abort(c)
      BY <1>1, <2>5 DEF Abort, factors, AdmissionsKept
    <2>. QED BY <1>5, <2>1, <2>3, <2>4, <2>5 DEF FactorStep
  <1>6. ASSUME NEW s \in Sessions, SessionExpires(s)
        PROVE  AdmissionsKept
    BY <1>1, <1>6 DEF SessionExpires, factors, history, AdmissionsKept
  <1>7. CASE RevokeStaffSessions
    BY <1>1, <1>7 DEF RevokeStaffSessions, factors, AdmissionsKept
  <1>. QED BY <1>2, <1>3, <1>4, <1>5, <1>6, <1>7 DEF Next

\* Every step keeps DoubleInv: a claimed code is not unused, so no new sign-in can
\* find it.
LEMMA DoubleStep ==
  ASSUME TypeOK, RequestInv, DoubleInv, Next
  PROVE  DoubleInv'
  <1> USE DEF DoubleInv, OneAdmission
  <1>1. CASE RowsKept /\ AdmissionsKept
    BY <1>1 DEF RowsKept, AdmissionsKept, CodesKept
  <1>2. ASSUME NEW c \in Calls, IssueSession(c)
        PROVE  DoubleInv'
    <2>1. AdmissionsKept /\ UNCHANGED <<code, doubled>> /\ call'[c].pc = "idle"
      BY <1>2, MoveFacts DEF TypeOK, IssueSession, factors, history, AdmissionsKept, CodesKept
    <2>2. CASE UNCHANGED session
      BY <2>1, <2>2 DEF AdmissionsKept
    <2>3. ASSUME NEW x \in Sessions,
                 session' = [session EXCEPT ![x] =
                    [state |-> "live", parent |-> call[c].s, code |-> call[c].k,
                     strong |-> call[c].strong, stale |-> call[c].stale]]
          PROVE  DoubleInv'
      <3>1. call[c].pc = "issue"
        BY <1>2 DEF IssueSession, At
      <3>2. /\ session'[x].code = call[c].k
            /\ \A y \in Sessions \ {x} : session'[y] = session[y]
        BY <2>3 DEF TypeOK
      <3>3. OneAdmission'
        BY <2>1, <3>1, <3>2
      <3>4. \A y \in Sessions, d \in Calls :
               /\ session'[y].code \in Codes
               /\ call'[d].pc \in {"code", "touch", "issue"}
               /\ call'[d].k = session'[y].code
               => session'[y].code \in doubled'
        BY <2>1, <3>1, <3>2 DEF AdmissionsKept
      <3>5. \A y \in Sessions : session'[y].code \in Codes =>
               code'[session'[y].code] \in {"used", "deleted"}
        BY <2>1, <3>1, <3>2
      <3>6. \A d \in Calls : call'[d].pc \in {"touch", "issue"} /\ call'[d].k \in Codes =>
               code'[call'[d].k] \in {"used", "deleted"}
        BY <2>1 DEF AdmissionsKept
      <3>7. \A d, e \in Calls :
               /\ d # e
               /\ call'[d].pc \in {"touch", "issue"}
               /\ call'[d].k \in Codes
               /\ call'[e].pc \in {"code", "touch", "issue"}
               /\ call'[e].k = call'[d].k
               => call'[d].k \in doubled'
        BY <2>1 DEF AdmissionsKept
      <3>. QED BY <3>3, <3>4, <3>5, <3>6, <3>7
    <2>. QED BY <1>2, <2>2, <2>3 DEF IssueSession
  <1>3. ASSUME NEW c \in Calls, ChallengeCheck(c)
        PROVE  DoubleInv'
    <2>1. UNCHANGED <<session, code, doubled>> /\ call[c].pc = "challenge" /\ call[c].k = 0
      BY <1>3 DEF ChallengeCheck, At, factors, history, RequestInv, Subject
    <2>2. 0 \notin Codes
      BY DEF Codes
    <2>3. CASE Return(c) \/ Goto(c, "touch")
      <3>1. AdmissionsKept /\ RowsKept
        BY <2>1, <2>2, <2>3, MoveFacts DEF TypeOK, AdmissionsKept, CodesKept, RowsKept
      <3>. QED BY <1>1, <3>1
    <2>4. ASSUME NEW k \in Codes, Fresh(k), call' = [call EXCEPT ![c] = Holding(@, k)]
          PROVE  DoubleInv'
      <3>1. call[c] \in Call
        BY DEF TypeOK
      <3>2. \A d \in Calls : IF d = c THEN call'[d].pc = "code" /\ call'[d].k = k
                                      ELSE call'[d] = call[d]
        BY <2>4, <3>1, RequestFacts DEF TypeOK
      <3>3. /\ \A x \in Sessions : session[x].code # k
            /\ \A d \in Calls : call[d].pc \in {"touch", "issue"} => call[d].k # k
        BY <2>4 DEF Fresh
      <3>. QED BY <2>1, <3>2, <3>3
    <2>. QED BY <1>3, <2>3, <2>4 DEF ChallengeCheck
  <1>4. ASSUME NEW c \in Calls, UseCode(c)
        PROVE  DoubleInv'
    <2> DEFINE k == call[c].k
    <2>1. /\ CodesKept
          /\ call'[c].pc = "idle" \/
             /\ call'[c].pc = "touch"
             /\ call'[c].k = k
             /\ code'[k] = "used"
             /\ \A d \in Calls \ {c} : call[d].k = k /\ call[d].pc = "code" => k \in doubled'
          /\ \A d \in Calls \ {c} : call'[d] = call[d]
      BY <1>4, ConsumeFacts DEF UseCode, RequestInv
    <2>2. call[c].pc = "code" /\ k \in Codes /\ UNCHANGED session
      BY <1>4 DEF UseCode, ConsumeCode, At, RequestInv, Aimed
    <2>3. OneAdmission'
      BY <2>1, <2>2 DEF CodesKept
    <2>4. \A x \in Sessions, d \in Calls :
             /\ session'[x].code \in Codes
             /\ call'[d].pc \in {"code", "touch", "issue"}
             /\ call'[d].k = session'[x].code
             => session'[x].code \in doubled'
      BY <2>1, <2>2 DEF CodesKept
    <2>5. \A d, e \in Calls :
             /\ d # e
             /\ call'[d].pc \in {"touch", "issue"}
             /\ call'[d].k \in Codes
             /\ call'[e].pc \in {"code", "touch", "issue"}
             /\ call'[e].k = call'[d].k
             => call'[d].k \in doubled'
      BY <2>1, <2>2 DEF CodesKept
    <2>6. \A x \in Sessions : session'[x].code \in Codes =>
             code'[session'[x].code] \in {"used", "deleted"}
      BY <2>1, <2>2 DEF CodesKept
    <2>7. \A d \in Calls : call'[d].pc \in {"touch", "issue"} /\ call'[d].k \in Codes =>
             code'[call'[d].k] \in {"used", "deleted"}
      BY <2>1, <2>2 DEF CodesKept
    <2>. QED BY <2>3, <2>4, <2>5, <2>6, <2>7
  <1>. QED BY <1>1, <1>2, <1>3, <1>4, RowsStep, AdmissionStep
-----------------------------------------------------------------------------
(* RotationKeepsSignedIn *)

\* The account has had MFA enabled at some time: an enrollment makes codes, and
\* they are only ever used or deleted.
Enrolled == \E k \in Codes : code[k] # "absent"

\* Whoever has found MFA enabled was preceded by an enrollment.
MfaInv ==
    /\ mfa => Enrolled
    /\ \A c \in Calls : call[c].mfa => Enrolled

\* A rotation hands on the authentication methods of its session, which a
\* revocation can only forget; a row not issued yet is nobody's successor.
StrongInv ==
    /\ \A c \in Calls :
          call[c].pc \in {"rotate", "issue"} /\ call[c].s \in Sessions =>
              /\ session[call[c].s].state # "absent"
              /\ ~call[c].strong => ~session[call[c].s].strong
    /\ \A x \in Sessions : session[x].state = "absent" => session[x].parent = 0

\* A rotated session has its successor, or the request that will issue it.
SuccessorInv ==
    \A s \in Sessions :
        session[s].state = "rotated" =>
            \/ \E x \in Sessions : session[x].parent = s
            \/ \E c \in Calls : call[c].pc = "issue" /\ call[c].s = s
            \/ aborts > 0
            \/ ~session[s].strong /\ Enrolled

KeepInv == MfaInv /\ StrongInv /\ SuccessorInv

\* The methods and the flag a request has read, as the ways of moving it on treat them.
LEMMA ReadFacts ==
  ASSUME call \in [Calls -> Call], NEW c \in Calls
  PROVE  /\ Return(c) => call'[c] = NoCall
         /\ \A pc : Goto(c, pc) => call'[c].strong = call[c].strong /\ call'[c].mfa = call[c].mfa
         /\ NoCall.mfa = FALSE /\ NoCall.strong = FALSE
         /\ \A pc, s, k : ~Request(pc, s, k).mfa
         /\ \A pc, s, strong : /\ SignIn(pc, s, strong).strong = strong
                               /\ SignIn(pc, s, strong).mfa = (mfa /\ ~strong)
         /\ \A r \in Call : /\ \A k : Holding(r, k).strong = r.strong /\ Holding(r, k).mfa = r.mfa
                            /\ Late(r).strong = r.strong /\ Late(r).mfa = r.mfa
  <1>1. Return(c) => call'[c] = NoCall
    BY DEF Return
  <1>2. \A pc : Goto(c, pc) => call'[c].strong = call[c].strong /\ call'[c].mfa = call[c].mfa
    BY DEF Goto, Call
  <1>3. NoCall.mfa = FALSE /\ NoCall.strong = FALSE
    BY DEF NoCall, Request
  <1>4. \A pc, s, k : ~Request(pc, s, k).mfa
    BY DEF Request
  <1>5. \A pc, s, strong : /\ SignIn(pc, s, strong).strong = strong
                           /\ SignIn(pc, s, strong).mfa = (mfa /\ ~strong)
    BY DEF SignIn
  <1>6. \A r \in Call : /\ \A k : Holding(r, k).strong = r.strong /\ Holding(r, k).mfa = r.mfa
                        /\ Late(r).strong = r.strong /\ Late(r).mfa = r.mfa
    BY DEF Call, Holding, Late
  <1>. QED BY <1>1, <1>2, <1>3, <1>4, <1>5, <1>6

\* Codes once made are never unmade, and renewing them makes some.
LEMMA CodeFacts ==
  ASSUME TypeOK
  PROVE  /\ code' = DeleteCodes /\ Enrolled => Enrolled'
         /\ code' = RenewCodes => Enrolled'
         /\ UNCHANGED code /\ Enrolled => Enrolled'
         /\ \A k : code' = [code EXCEPT ![k] = "used"] /\ Enrolled => Enrolled'
  <1>1. 1 \in Codes
    BY AccountsAssumption DEF Codes
  <1>2. code' = DeleteCodes /\ Enrolled => Enrolled'
    BY DEF DeleteCodes, Enrolled
  <1>3. code' = RenewCodes => Enrolled'
    <2>1. ASSUME code' = RenewCodes PROVE code'[1] # "absent"
      <3>1. code[1] = "absent" => IsNext(code, 1)
        BY DEF IsNext
      <3>. QED BY <1>1, <2>1, <3>1 DEF RenewCodes, DeleteCodes
    <2>. QED BY <1>1, <2>1 DEF Enrolled
  <1>4. UNCHANGED code /\ Enrolled => Enrolled'
    BY DEF Enrolled
  <1>5. \A k : code' = [code EXCEPT ![k] = "used"] /\ Enrolled => Enrolled'
    BY DEF Enrolled, TypeOK
  <1>. QED BY <1>2, <1>3, <1>4, <1>5

\* What a step does to the enrollment and to what requests have read of it.
LEMMA EnrolledStep ==
  ASSUME TypeOK, Next
  PROVE  /\ Enrolled => Enrolled'
         /\ mfa' => mfa \/ Enrolled'
         /\ \A c \in Calls : call'[c].mfa => mfa \/ call[c].mfa
  <1> DEFINE Reads == \A x \in Calls : call'[x].mfa => mfa \/ call[x].mfa
             Kept == (Enrolled => Enrolled') /\ (mfa' => mfa \/ Enrolled')
  <1>0. UNCHANGED <<mfa, code>> => Kept
    BY CodeFacts
  <1>a. call \in [Calls -> Call]
    BY DEF TypeOK
  <1>1. ASSUME NEW c \in Calls, Return(c) \/ \E pc : Goto(c, pc) PROVE Reads
    <2>1. \A x \in Calls \ {c} : call'[x] = call[x]
      BY <1>1, <1>a, MoveFacts
    <2>2. call'[c].mfa => call[c].mfa
      BY <1>1, <1>a, ReadFacts
    <2>. QED BY <2>1, <2>2
  <1>2. ASSUME NEW c \in Calls, NEW r, Begin(c, r), r.mfa => mfa PROVE Reads
    BY <1>2, <1>a, MoveFacts
  <1> HIDE DEF Reads, Kept
  <1>3. ASSUME NEW c \in Calls, SignInStep(c) PROVE Reads /\ Kept
    <2>1. CASE SignInRead(c)
      <3>1. Begin(c, SignIn("factor", 0, FALSE)) /\ (SignIn("factor", 0, FALSE).mfa => mfa)
        BY <2>1, <1>a, ReadFacts DEF SignInRead
      <3>. QED BY <1>0, <1>2, <2>1, <3>1 DEF SignInRead, factors
    <2>2. CASE ChallengeRead(c)
      <3>1. Begin(c, SignIn("challenge", 0, TRUE)) /\ (SignIn("challenge", 0, TRUE).mfa => mfa)
        BY <2>2, <1>a, ReadFacts DEF ChallengeRead
      <3>. QED BY <1>0, <1>2, <2>2, <3>1 DEF ChallengeRead, factors
    <2>3. CASE SignInRefused(c) \/ FactorRead(c) \/ IssueSession(c) \/ TouchFactor(c)
      BY <1>0, <1>1, <2>3 DEF SignInRefused, FactorRead, IssueSession, TouchFactor, factors
    <2>4. CASE ChallengeCheck(c)
      <3>1. ASSUME NEW k \in Codes, call' = [call EXCEPT ![c] = Holding(@, k)] PROVE Reads
        <4>1. \A x \in Calls : call'[x] = IF x = c THEN Holding(call[x], k) ELSE call[x]
          BY <3>1, <1>a
        <4>2. \A x \in Calls : Holding(call[x], k).mfa = call[x].mfa
          BY <1>a, ReadFacts
        <4>. QED BY <4>1, <4>2 DEF Reads
      <3>. QED BY <1>0, <1>1, <2>4, <3>1 DEF ChallengeCheck, factors
    <2>5. CASE UseCode(c)
      BY <1>0, <1>1, <2>5, CodeFacts DEF UseCode, ConsumeCode, Kept
    <2>. QED BY <1>3, <2>1, <2>2, <2>3, <2>4, <2>5 DEF SignInStep
  <1>4. ASSUME NEW c \in Calls, SessionStep(c) PROVE Reads /\ Kept
    <2>1. ASSUME NEW s \in Sessions, RotateRead(c, s) PROVE Reads /\ Kept
      <3>1. Begin(c, SignIn("rotate", s, Amr(s))) /\ (SignIn("rotate", s, Amr(s)).mfa => mfa)
        BY <2>1, <1>a, ReadFacts DEF RotateRead
      <3>. QED BY <1>0, <1>2, <2>1, <3>1 DEF RotateRead, factors
    <2>2. ASSUME NEW s \in Sessions, RevokeRead(c, s) PROVE Reads /\ Kept
      BY <1>0, <1>2, <2>2, <1>a, ReadFacts DEF RevokeRead, factors
    <2>3. CASE RotateWrite(c) \/ RevokeWrite(c) \/ RevokeAll(c)
      BY <1>0, <1>1, <2>3 DEF RotateWrite, RevokeWrite, RevokeAll, factors
    <2>. QED BY <1>4, <2>1, <2>2, <2>3 DEF SessionStep
  <1>5. ASSUME NEW c \in Calls, StaffStep(c) \/ ResetRead(c) \/ ResetWrite(c) PROVE Reads /\ Kept
    <2>1. ASSUME NEW kind \in {"suspend", "deactivate", "activate", "accept"}, StatusRead(c, kind)
          PROVE  Reads /\ Kept
      BY <1>0, <1>2, <2>1, <1>a, ReadFacts DEF StatusRead, factors
    <2>2. CASE CloseWrite(c)
      <3>1. \A x \in Calls : call'[x] \in {Request("closing", 0, 0), Late(call[x]), call[x]}
        BY <2>2 DEF CloseWrite
      <3>2. \A x \in Calls : Late(call[x]).mfa = call[x].mfa /\ ~Request("closing", 0, 0).mfa
        BY <1>a, ReadFacts
      <3>3. Reads
        BY <3>1, <3>2 DEF Reads
      <3>. QED BY <1>0, <2>2, <3>3 DEF CloseWrite, factors
    <2>3. CASE ActivateWrite(c) \/ AcceptWrite(c) \/ ResetWrite(c)
      BY <1>0, <1>1, <2>3 DEF ActivateWrite, AcceptWrite, ResetWrite, factors
    <2>4. CASE ResetRead(c)
      BY <1>0, <1>2, <2>4, <1>a, ReadFacts DEF ResetRead, factors
    <2>. QED BY <1>5, <2>1, <2>2, <2>3, <2>4 DEF StaffStep
  <1>6. ASSUME NEW c \in Calls, FactorStep(c) \/ Abort(c) PROVE Reads /\ Kept
    <2>1. CASE FactorOp(c)
      <3>1. PICK pc, k : Begin(c, Request(pc, 0, k))
        BY <2>1 DEF FactorOp
      <3>2. ~Request(pc, 0, k).mfa
        BY <1>a, ReadFacts
      <3>. QED BY <1>0, <1>2, <2>1, <3>1, <3>2 DEF FactorOp, factors
    <2>2. CASE Enroll(c) \/ Renew(c) \/ DisableMfa(c)
      BY <1>0, <1>1, <2>2, CodeFacts DEF Enroll, Renew, DisableMfa, Kept
    <2>3. CASE DisableWithCode(c)
      BY <1>0, <1>1, <2>3, CodeFacts DEF DisableWithCode, ConsumeCode, Kept
    <2>4. CASE Abort(c)
      BY <1>0, <1>1, <2>4 DEF Abort, factors
    <2>. QED BY <1>6, <2>1, <2>2, <2>3, <2>4 DEF FactorStep
  <1>7. ASSUME NEW s \in Sessions, SessionExpires(s) PROVE Reads /\ Kept
    <2>1. UNCHANGED <<mfa, code, call>>
      BY <1>7 DEF SessionExpires, factors
    <2>. QED BY <1>0, <2>1 DEF Reads
  <1>8. ASSUME RevokeStaffSessions PROVE Reads /\ Kept
    <2>1. UNCHANGED <<mfa, code, call>>
      BY <1>8 DEF RevokeStaffSessions, factors
    <2>. QED BY <1>0, <2>1 DEF Reads
  <1>9. Reads /\ Kept
    BY <1>3, <1>4, <1>5, <1>6, <1>7, <1>8 DEF Next
  <1>. QED BY <1>9 DEF Reads, Kept

\* A request keeps the methods it has read, and one about to issue a session goes
\* on to do so unless it is cut short.
MethodsKept ==
    \A x \in Calls :
        /\ \/ call'[x].strong = call[x].strong
           \/ call'[x].pc \notin {"rotate", "issue"}
           \/ \E s \in Sessions : RotateRead(x, s)
        /\ call[x].pc = "issue" =>
              \/ call'[x].pc = "issue" /\ call'[x].s = call[x].s
              \/ aborts' > 0
              \/ IssueSession(x)

\* So it is in every step.
LEMMA MethodsStep ==
  ASSUME TypeOK, Next
  PROVE  MethodsKept /\ (aborts > 0 => aborts' > 0)
  <1>a. call \in [Calls -> Call]
    BY DEF TypeOK
  <1>1. ASSUME NEW c \in Calls, Return(c), call[c].pc # "issue" PROVE MethodsKept
    BY <1>1, <1>a, MoveFacts DEF MethodsKept
  <1>2. ASSUME NEW c \in Calls, NEW pc, Goto(c, pc), call[c].pc # "issue" PROVE MethodsKept
    <2>1. \A x \in Calls \ {c} : call'[x] = call[x]
      BY <1>2, <1>a, MoveFacts
    <2>2. call'[c].strong = call[c].strong
      BY <1>2, <1>a, ReadFacts
    <2>. QED BY <1>2, <2>1, <2>2 DEF MethodsKept
  <1>3. ASSUME NEW c \in Calls, NEW r, Begin(c, r), r.pc \notin {"rotate", "issue"}
        PROVE  MethodsKept
    BY <1>3, <1>a, MoveFacts DEF MethodsKept
  <1>4. UNCHANGED call => MethodsKept
    BY DEF MethodsKept
  <1>5. UNCHANGED aborts => (aborts > 0 => aborts' > 0)
    OBVIOUS
  <1>6. ASSUME NEW c \in Calls, SignInStep(c)
        PROVE  MethodsKept /\ UNCHANGED aborts
    <2>1. CASE SignInRead(c) \/ ChallengeRead(c)
      <3>1. PICK r : Begin(c, r) /\ r.pc \in {"factor", "challenge"}
        BY <2>1 DEF SignInRead, ChallengeRead, SignIn
      <3>. QED BY <1>3, <2>1, <3>1 DEF SignInRead, ChallengeRead
    <2>2. CASE SignInRefused(c) \/ FactorRead(c) \/ TouchFactor(c)
      BY <1>1, <1>2, <2>2 DEF SignInRefused, FactorRead, TouchFactor, At
    <2>3. CASE IssueSession(c)
      BY <1>a, <2>3, MoveFacts DEF IssueSession, MethodsKept
    <2>4. CASE ChallengeCheck(c)
      <3>1. ASSUME NEW k \in Codes, call' = [call EXCEPT ![c] = Holding(@, k)] PROVE MethodsKept
        <4>1. \A x \in Calls : call'[x] = IF x = c THEN Holding(call[x], k) ELSE call[x]
          BY <3>1, <1>a
        <4>2. \A x \in Calls : Holding(call[x], k).pc = "code"
          BY <1>a, RequestFacts
        <4>3. call[c].pc = "challenge"
          BY <2>4 DEF ChallengeCheck, At
        <4>. QED BY <4>1, <4>2, <4>3 DEF MethodsKept
      <3>. QED BY <1>1, <1>2, <2>4, <3>1 DEF ChallengeCheck, At
    <2>5. CASE UseCode(c)
      BY <1>1, <1>2, <2>5 DEF UseCode, ConsumeCode, At
    <2>. QED BY <1>6, <2>1, <2>2, <2>3, <2>4, <2>5 DEF SignInStep
  <1>7. ASSUME NEW c \in Calls, SessionStep(c)
        PROVE  MethodsKept /\ UNCHANGED aborts
    <2>1. ASSUME NEW s \in Sessions, RotateRead(c, s) PROVE MethodsKept /\ UNCHANGED aborts
      <3>1. call[c].pc = "idle" /\ \A x \in Calls \ {c} : call'[x] = call[x]
        BY <2>1, <1>a, MoveFacts DEF RotateRead
      <3>. QED BY <2>1, <3>1 DEF RotateRead, MethodsKept
    <2>2. ASSUME NEW s \in Sessions, RevokeRead(c, s) PROVE MethodsKept /\ UNCHANGED aborts
      <3>1. Request("revoke", s, 0).pc = "revoke"
        BY RequestFacts
      <3>. QED BY <1>3, <2>2, <3>1 DEF RevokeRead
    <2>3. CASE RotateWrite(c)
      BY <1>2, <2>3 DEF RotateWrite, At
    <2>4. CASE RevokeWrite(c) \/ RevokeAll(c)
      BY <1>1, <2>4 DEF RevokeWrite, RevokeAll, At
    <2>. QED BY <1>7, <2>1, <2>2, <2>3, <2>4 DEF SessionStep
  <1>8. ASSUME NEW c \in Calls, StaffStep(c) \/ ResetRead(c) \/ ResetWrite(c)
        PROVE  MethodsKept /\ UNCHANGED aborts
    <2>1. ASSUME NEW kind \in {"suspend", "deactivate", "activate", "accept"}, StatusRead(c, kind)
          PROVE  MethodsKept /\ UNCHANGED aborts
      <3>1. Request(kind, 0, 0).pc = kind
        BY RequestFacts
      <3>. QED BY <1>3, <2>1, <3>1 DEF StatusRead
    <2>2. CASE CloseWrite(c)
      <3>1. /\ call[c].pc # "issue" /\ call'[c].pc = "closing"
            /\ \A x \in Calls \ {c} : call'[x].pc = call[x].pc /\ call'[x].s = call[x].s
        BY <2>2, CloseFacts
      <3>2. \A x \in Calls \ {c} : call'[x] \in {Late(call[x]), call[x]}
        BY <2>2 DEF CloseWrite
      <3>3. \A x \in Calls : Late(call[x]).strong = call[x].strong
        BY <1>a, ReadFacts
      <3>4. \A x \in Calls \ {c} : call'[x].strong = call[x].strong
        BY <3>2, <3>3
      <3>. QED BY <2>2, <3>1, <3>4 DEF CloseWrite, MethodsKept
    <2>3. CASE ActivateWrite(c) \/ AcceptWrite(c) \/ ResetWrite(c)
      BY <1>1, <1>2, <2>3 DEF ActivateWrite, AcceptWrite, ResetWrite, At
    <2>4. CASE ResetRead(c)
      <3>1. Request("reset", 0, 0).pc = "reset"
        BY RequestFacts
      <3>. QED BY <1>3, <2>4, <3>1 DEF ResetRead
    <2>. QED BY <1>8, <2>1, <2>2, <2>3, <2>4 DEF StaffStep
  <1>9. ASSUME NEW c \in Calls, FactorStep(c)
        PROVE  MethodsKept /\ UNCHANGED aborts
    <2>1. CASE FactorOp(c)
      <3>1. PICK pc, k : /\ pc \in {"enroll", "renew", "off", "offCode"}
                           /\ Begin(c, Request(pc, 0, k))
        BY <2>1 DEF FactorOp
      <3>2. Request(pc, 0, k).pc = pc
        BY RequestFacts
      <3>. QED BY <1>3, <2>1, <3>1, <3>2 DEF FactorOp
    <2>2. CASE Enroll(c) \/ Renew(c) \/ DisableMfa(c)
      BY <1>1, <2>2 DEF Enroll, Renew, DisableMfa, At
    <2>3. CASE DisableWithCode(c)
      BY <1>1, <1>2, <2>3 DEF DisableWithCode, ConsumeCode, At
    <2>. QED BY <1>9, <2>1, <2>2, <2>3 DEF FactorStep
  <1>10. ASSUME NEW c \in Calls, Abort(c)
         PROVE  MethodsKept /\ aborts' > 0
    <2>1. aborts' > 0
      BY <1>10, AccountsAssumption DEF Abort, TypeOK
    <2>. QED BY <1>10, <1>a, <2>1, MoveFacts DEF Abort, MethodsKept
  <1>11. (\E s \in Sessions : SessionExpires(s)) \/ RevokeStaffSessions => UNCHANGED <<call, aborts>>
    BY DEF SessionExpires, RevokeStaffSessions
  <1>. QED BY <1>4, <1>5, <1>6, <1>7, <1>8, <1>9, <1>10, <1>11 DEF Next

\* Only RotateWrite marks a session rotated, and no step but IssueSession gives one
\* the methods it has not.
LEMMA RevokedStep ==
  ASSUME TypeOK, RequestInv, Next, NEW x \in Sessions
  PROVE  \/ session'[x] = session[x]
         \/ session'[x].state = "ended" /\ ~session'[x].strong
         \/ /\ session'[x].state = "rotated" /\ session'[x].strong = session[x].strong
            /\ \E c \in Calls : RotateWrite(c) /\ call[c].s = x
         \/ session[x].state = "absent" /\ \E c \in Calls : IssueSession(c)
  <1>1. \A s \in Sessions : /\ session[s] \in Session
                            /\ Ended(session[s]).state = "ended" /\ ~Ended(session[s]).strong
                            /\ Rotated(session[s]).state = "rotated"
                            /\ Rotated(session[s]).strong = session[s].strong
    BY DEF TypeOK, Session, Ended, Rotated
  <1>2. ASSUME NEW s \in Sessions, session' = [session EXCEPT ![s] = Ended(@)]
        PROVE  session'[x] = session[x] \/ (session'[x].state = "ended" /\ ~session'[x].strong)
    <2>1. session'[x] = IF x = s THEN Ended(session[x]) ELSE session[x]
      BY <1>2 DEF TypeOK
    <2>. QED BY <1>1, <2>1
  <1>3. AllEnded =>
           session'[x] = session[x] \/ (session'[x].state = "ended" /\ ~session'[x].strong)
    <2>1. AllEnded => session'[x] \in {session[x], Ended(session[x])}
      BY DEF AllEnded
    <2>. QED BY <1>1, <2>1
  <1>4. ASSUME NEW c \in Calls, SignInStep(c)
        PROVE  session'[x] = session[x] \/ (session[x].state = "absent" /\ IssueSession(c))
    <2>1. CASE IssueSession(c)
      <3>1. ASSUME NEW s \in Sessions, IsNext(State, s),
                   session' = [session EXCEPT ![s] =
                      [state |-> "live", parent |-> call[c].s, code |-> call[c].k,
                       strong |-> call[c].strong, stale |-> call[c].stale]]
            PROVE  session'[x] = session[x] \/ session[x].state = "absent"
        BY <3>1 DEF TypeOK, IsNext, State
      <3>. QED BY <2>1, <3>1 DEF IssueSession
    <2>2. ~IssueSession(c) => UNCHANGED session
      BY <1>4 DEF SignInStep, SignInRead, SignInRefused, FactorRead, ChallengeRead, ChallengeCheck,
                  UseCode, ConsumeCode, TouchFactor
    <2>. QED BY <2>1, <2>2
  <1>5. ASSUME NEW c \in Calls, RotateWrite(c)
        PROVE  \/ session'[x] = session[x]
               \/ /\ session'[x].state = "rotated" /\ session'[x].strong = session[x].strong
                  /\ call[c].s = x
    BY <1>1, <1>5 DEF RotateWrite, TypeOK, RequestInv, Aimed, At
  <1>6. ASSUME NEW c \in Calls, RevokeWrite(c)
        PROVE  session'[x] = session[x] \/ (session'[x].state = "ended" /\ ~session'[x].strong)
    BY <1>2, <1>6 DEF RevokeWrite, RequestInv, Aimed, At
  <1>7. ASSUME NEW c \in Calls, (\E s \in Sessions : RotateRead(c, s) \/ RevokeRead(c, s))
        PROVE  UNCHANGED session
    BY <1>7 DEF RotateRead, RevokeRead
  <1>8. ASSUME NEW c \in Calls, StaffStep(c) \/ ResetRead(c) \/ ResetWrite(c) \/ FactorStep(c) \/ Abort(c)
        PROVE  UNCHANGED session
    BY <1>8 DEF StaffStep, StatusRead, CloseWrite, ActivateWrite, AcceptWrite, ResetRead, ResetWrite,
                FactorStep, FactorOp, Enroll, Renew, DisableWithCode, ConsumeCode, DisableMfa, Abort
  <1>9. ASSUME NEW s \in Sessions, SessionExpires(s)
        PROVE  session'[x] = session[x] \/ (session'[x].state = "ended" /\ ~session'[x].strong)
    BY <1>2, <1>9 DEF SessionExpires
  <1>10. RevokeStaffSessions \/ (\E c \in Calls : RevokeAll(c)) => AllEnded
    BY DEF RevokeStaffSessions, RevokeAll
  <1>. QED BY <1>3, <1>4, <1>5, <1>6, <1>7, <1>8, <1>9, <1>10 DEF Next, SessionStep

\* Every step keeps StrongInv: a rotation begins with the methods of its session.
LEMMA StrongStep ==
  ASSUME TypeOK, RequestInv, StrongInv, Next
  PROVE  StrongInv'
  <1>a. call \in [Calls -> Call] /\ session \in [Sessions -> Session]
    BY DEF TypeOK
  <1>1. ASSUME NEW x \in Sessions, session'[x].state = "absent"
        PROVE  session'[x].parent = 0
    <2>1. CASE RowsKept
      BY <1>1, <2>1 DEF RowsKept, StrongInv
    <2>2. ASSUME NEW c \in Calls, IssueSession(c)
          PROVE  session'[x].parent = 0
      BY <1>1, <1>a, <2>2 DEF IssueSession, StrongInv
    <2>. QED BY <2>1, <2>2, RowsStep
  <1>2. ASSUME NEW c \in Calls, call'[c].pc \in {"rotate", "issue"}, call'[c].s \in Sessions
        PROVE  /\ session'[call'[c].s].state # "absent"
               /\ ~call'[c].strong => ~session'[call'[c].s].strong
    <2> DEFINE s == call'[c].s
               Held == session[s].state # "absent" /\ (~call'[c].strong => ~session[s].strong)
    <2>1. Held => /\ session'[s].state # "absent"
                  /\ ~call'[c].strong => ~session'[s].strong
      <3>1. PICK y \in Sessions : y = s
        BY <1>2
      <3>2. \/ session'[y] = session[y]
            \/ session'[y].state = "ended" /\ ~session'[y].strong
            \/ session'[y].state = "rotated" /\ session'[y].strong = session[y].strong
            \/ session[y].state = "absent"
        BY RevokedStep
      <3>. QED BY <3>1, <3>2
    <2>2. ASSUME NEW z \in Sessions, RotateRead(c, z)
          PROVE  Held
      <3>1. call'[c] = SignIn("rotate", z, session[z].strong) /\ session[z].state = "live"
        BY <2>2, <1>a DEF RotateRead, Begin, Amr, Usable
      <3>2. s = z /\ call'[c].strong = session[z].strong
        BY <3>1 DEF SignIn
      <3>. QED BY <3>1, <3>2
    <2>3. ASSUME call[c].pc \in {"rotate", "issue"}, call[c].s = s, call'[c].strong = call[c].strong
          PROVE  Held
      BY <1>2, <2>3 DEF StrongInv
    <2>4. ASSUME NEW d \in Calls, RotateWrite(d)
          PROVE  call[c].pc \in {"rotate", "issue"} /\ call[c].s = s
      BY <1>2, <1>a, <2>4, MoveFacts DEF RotateWrite, At
    <2>5. ASSUME NEW d \in Calls, NEW z \in Sessions, RotateRead(d, z), c # d
          PROVE  call[c].pc \in {"rotate", "issue"} /\ call[c].s = s
      <3>1. call'[c] = call[c]
        BY <1>a, <2>5, MoveFacts DEF RotateRead
      <3>. QED BY <1>2, <3>1
    <2>6. Held
      <3>1. call'[c].strong = call[c].strong \/ \E z \in Sessions : RotateRead(c, z)
        BY <1>2, MethodsStep DEF MethodsKept
      <3>2. RotationsKept => call[c].pc \in {"rotate", "issue"} /\ call[c].s = s
        BY <1>2 DEF RotationsKept
      <3> HIDE DEF Held
      <3>. QED BY <2>2, <2>3, <2>4, <2>5, <3>1, <3>2, RotationStep
    <2>. QED BY <2>1, <2>6
  <1>. QED BY <1>1, <1>2 DEF StrongInv

\* So does every step keep MfaInv.
LEMMA MfaStep ==
  ASSUME TypeOK, MfaInv, Next
  PROVE  MfaInv'
  <1>. QED BY EnrolledStep DEF MfaInv

\* A rotated session has its successor issued by the request that rotated it.
LEMMA SuccessorStep ==
  ASSUME TypeOK, RequestInv, KeepInv, Next, NEW s \in Sessions, session'[s].state = "rotated"
  PROVE  \/ \E x \in Sessions : session'[x].parent = s
         \/ \E c \in Calls : call'[c].pc = "issue" /\ call'[c].s = s
         \/ aborts' > 0
         \/ ~session'[s].strong /\ Enrolled'
  <1>a. call \in [Calls -> Call] /\ session \in [Sessions -> Session]
    BY DEF TypeOK
  <1>0. s # 0
    BY DEF Sessions
  <1>1. ASSUME NEW c \in Calls, RotateWrite(c), call[c].s = s
        PROVE  call'[c].pc = "issue" /\ call'[c].s = s
    BY <1>1, <1>a, MoveFacts DEF RotateWrite
  <1>2. ASSUME NEW x \in Sessions, session[x].parent = s
        PROVE  session'[x].parent = s
    <2>1. RowsKept => session'[x].parent = s
      BY <1>2 DEF RowsKept
    <2>2. ASSUME NEW c \in Calls, IssueSession(c) PROVE session'[x].parent = s
      <3>1. session[x].state # "absent"
        BY <1>0, <1>2 DEF KeepInv, StrongInv
      <3>. QED BY <1>2, <1>a, <2>2, <3>1 DEF IssueSession, IsNext, State
    <2>. QED BY <2>1, <2>2, RowsStep
  <1>3. ASSUME NEW c \in Calls, IssueSession(c), call[c].s = s, session'[s] = session[s]
        PROVE  \/ \E x \in Sessions : session'[x].parent = s
               \/ ~session'[s].strong /\ Enrolled'
    <2>1. CASE ~call[c].mfa \/ call[c].strong
      <3>1. PICK x \in Sessions : session' = [session EXCEPT ![x] =
                [state |-> "live", parent |-> call[c].s, code |-> call[c].k,
                 strong |-> call[c].strong, stale |-> call[c].stale]]
        BY <1>3, <2>1 DEF IssueSession
      <3>. QED BY <1>3, <1>a, <3>1
    <2>2. CASE call[c].mfa /\ ~call[c].strong
      <3>1. ~session[s].strong
        BY <1>3, <2>2 DEF IssueSession, At, KeepInv, StrongInv
      <3>2. Enrolled'
        BY <2>2, EnrolledStep DEF KeepInv, MfaInv
      <3>. QED BY <1>3, <3>1, <3>2
    <2>. QED BY <2>1, <2>2
  <1>4. CASE session'[s] = session[s]
    <2>1. \/ \E x \in Sessions : session[x].parent = s
          \/ \E c \in Calls : call[c].pc = "issue" /\ call[c].s = s
          \/ aborts > 0
          \/ ~session[s].strong /\ Enrolled
      BY <1>4 DEF KeepInv, SuccessorInv
    <2>2. ASSUME NEW c \in Calls, call[c].pc = "issue", call[c].s = s
          PROVE  \/ call'[c].pc = "issue" /\ call'[c].s = s
                 \/ aborts' > 0
                 \/ IssueSession(c)
      BY <2>2, MethodsStep DEF MethodsKept
    <2>. QED BY <1>2, <1>3, <1>4, <2>1, <2>2, MethodsStep, EnrolledStep
  <1>5. ASSUME NEW c \in Calls, IssueSession(c), session[s].state = "absent"
        PROVE  session'[s] = session[s]
    BY <1>5, <1>a DEF IssueSession
  <1>. QED BY <1>1, <1>4, <1>5, RevokedStep

\* Every step keeps KeepInv.
LEMMA KeepStep ==
  ASSUME TypeOK, RequestInv, KeepInv, Next
  PROVE  KeepInv'
  <1>1. SuccessorInv'
    BY SuccessorStep DEF SuccessorInv
  <1>. QED BY <1>1, MfaStep, StrongStep DEF KeepInv
-----------------------------------------------------------------------------
(* The inductive invariant and the theorems *)

IInv == TypeOK /\ RequestInv /\ ClosedMeansLate /\ ForkInv /\ DoubleInv /\ KeepInv

\* A new account satisfies the invariant.
LEMMA InitInv == Init => IInv
  <1> SUFFICES ASSUME Init PROVE IInv
    OBVIOUS
  <1>1. TypeOK
    BY InitType
  <1>2. \A c \in Calls : call[c].pc = "idle"
    BY DEF Init, NoCall, Request
  <1>3. \A s \in Sessions : /\ session[s].state = "absent"
                            /\ session[s].parent = 0
                            /\ session[s].code = 0
    BY DEF Init, NoSession
  <1>4. 0 \notin Sessions /\ 0 \notin Codes
    BY DEF Sessions, Codes
  <1>5. RequestInv
    BY <1>2 DEF RequestInv, Aimed, Subject, StaleSignIns, StaleReopens, SigningIn, Reopening
  <1>6. ClosedMeansLate
    BY <1>3 DEF ClosedMeansLate
  <1>7. ForkInv
    BY <1>2, <1>3, <1>4 DEF ForkInv, OneSuccessor
  <1>8. DoubleInv
    BY <1>2, <1>3, <1>4 DEF DoubleInv, OneAdmission
  <1>9. \A c \in Calls : ~call[c].mfa
    BY DEF Init, NoCall, Request
  <1>10. KeepInv
    BY <1>2, <1>3, <1>9 DEF KeepInv, MfaInv, StrongInv, SuccessorInv, Init
  <1>. QED BY <1>1, <1>5, <1>6, <1>7, <1>8, <1>10 DEF IInv

\* Every step keeps the variables in their types.
LEMMA TypeStep ==
  ASSUME TypeOK, RequestInv, Next
  PROVE  TypeOK'
  <1>1. ASSUME NEW s \in Sessions, SessionExpires(s)
        PROVE  TypeOK'
    <2>1. session' \in [Sessions -> Session]
      BY <1>1, RowType DEF SessionExpires, TypeOK
    <2>. QED BY <1>1, <2>1 DEF SessionExpires, TypeOK, factors, history
  <1>2. CASE RevokeStaffSessions
    <2>1. session' \in [Sessions -> Session]
      BY <1>2, RowType DEF RevokeStaffSessions, AllEnded, TypeOK
    <2>. QED BY <1>2, <2>1 DEF RevokeStaffSessions, TypeOK, factors
  <1>. QED BY <1>1, <1>2, SignInType, SessionType, StaffType, FactorType DEF Next, RequestInv

\* Every step keeps what the requests under way stand for.
LEMMA RequestStep ==
  ASSUME TypeOK, RequestInv, Next
  PROVE  RequestInv'
  <1>1. UNCHANGED <<status, call>> => RequestInv'
    BY DEF RequestInv, Aimed, Subject, StaleSignIns, StaleReopens
  <1>2. (\E s \in Sessions : SessionExpires(s)) \/ RevokeStaffSessions => UNCHANGED <<status, call>>
    BY DEF SessionExpires, RevokeStaffSessions
  <1>. QED BY <1>1, <1>2, SignInRequests, SessionRequests, StaffRequests, FactorRequests DEF Next

\* The invariant is inductive.
LEMMA NextInv == IInv /\ [Next]_vars => IInv'
  <1> SUFFICES ASSUME IInv, [Next]_vars PROVE IInv'
    OBVIOUS
  <1>1. CASE Next
    BY <1>1, TypeStep, RequestStep, ClosedStep, ForkStep, DoubleStep, KeepStep DEF IInv
  <1>2. CASE UNCHANGED vars
    <2>1. UNCHANGED <<status, mfa, code, challenge, session, call, aborts, cut, forked, doubled>>
      BY <1>2 DEF vars, factors, history
    <2>2. TypeOK' /\ RequestInv' /\ ClosedMeansLate'
      BY <2>1 DEF IInv, TypeOK, RequestInv, Aimed, Subject, StaleSignIns, StaleReopens,
                  ClosedMeansLate, At
    <2>3. ForkInv' /\ DoubleInv'
      BY <2>1 DEF IInv, ForkInv, DoubleInv, OneSuccessor, OneAdmission
    <2>4. KeepInv'
      BY <2>1 DEF IInv, KeepInv, MfaInv, StrongInv, SuccessorInv, Enrolled
    <2>. QED BY <2>2, <2>3, <2>4 DEF IInv
  <1>. QED BY <1>1, <1>2

\* It holds in every reachable state.
THEOREM Invariance == Spec => []IInv
  <1>. QED BY InitInv, NextInv, PTL DEF Spec

\* Every variable keeps to the columns and program counters of the code.
THEOREM AccountTypeCorrect == Spec => []TypeOK
  <1>1. IInv => TypeOK
    BY DEF IInv
  <1>. QED BY <1>1, Invariance, PTL

\* Once a suspension or deactivation is over, and was not cut short, whoever is
\* still signed in came in by a request that read the account before it.
THEOREM ClosedIsLate == Spec => []ClosedMeansLate
  <1>1. IInv => ClosedMeansLate
    BY DEF IInv
  <1>. QED BY <1>1, Invariance, PTL

\* A refresh token has two successors only if two rotations read it live.
THEOREM Succession == Spec => []OneSuccessor
  <1>1. IInv => OneSuccessor
    BY DEF IInv, ForkInv
  <1>. QED BY <1>1, Invariance, PTL

\* A recovery code lets two sign-ins through only if two requests found it unused.
THEOREM Admission == Spec => []OneAdmission
  <1>1. IInv => OneAdmission
    BY DEF IInv, DoubleInv
  <1>. QED BY <1>1, Invariance, PTL

\* A refresh token leads on to another session unless its request was cut short, or
\* refused for want of the MFA enabled meanwhile.
THEOREM Rotation == Spec => []RotationKeepsSignedIn
  <1>1. IInv => RotationKeepsSignedIn
    BY DEF IInv, KeepInv, SuccessorInv, RotationKeepsSignedIn, Enrolled
  <1>. QED BY <1>1, Invariance, PTL

\* A deactivated account leaves that status only by the write of a stale request.
LEMMA ReopenStep ==
  ASSUME TypeOK, RequestInv, Next, status = "DEACTIVATED", status' # "DEACTIVATED"
  PROVE  \E c \in Calls : call[c].stale /\ call'[c] # call[c]
  <1> USE MoveFacts DEF TypeOK
  <1>1. ASSUME NEW c \in Calls, SignInStep(c) \/ FactorStep(c) \/ Abort(c)
        PROVE  UNCHANGED status
    BY <1>1 DEF SignInStep, SignInRead, SignInRefused, FactorRead, IssueSession, ChallengeRead,
                ChallengeCheck, UseCode, ConsumeCode, TouchFactor, FactorStep, FactorOp, Enroll,
                Renew, DisableWithCode, DisableMfa, Abort
  <1>2. ASSUME NEW c \in Calls, SessionStep(c) \/ ResetRead(c) \/ ResetWrite(c)
        PROVE  UNCHANGED status
    BY <1>2 DEF SessionStep, RotateRead, RevokeRead, RotateWrite, RevokeWrite, RevokeAll,
                ResetRead, ResetWrite
  <1>3. (\E s \in Sessions : SessionExpires(s)) \/ RevokeStaffSessions => UNCHANGED status
    BY DEF SessionExpires, RevokeStaffSessions
  <1>4. ASSUME NEW c \in Calls, StaffStep(c)
        PROVE  call[c].stale /\ call'[c] # call[c]
    <2>1. CASE CloseWrite(c)
      <3>1. call[c].pc \in {"suspend", "deactivate"} /\ call'[c].pc = "closing"
        BY <2>1, CloseFacts
      <3>2. call[c].pc = "suspend"
        BY <2>1, <3>1 DEF CloseWrite, ClosedStatus
      <3>. QED BY <3>1, <3>2 DEF RequestInv, StaleReopens, Reopening
    <2>2. CASE ActivateWrite(c) \/ AcceptWrite(c)
      <3>1. call[c].pc \in {"activate", "accept"} /\ call'[c].pc = "idle"
        BY <2>2 DEF ActivateWrite, AcceptWrite, At
      <3>. QED BY <3>1 DEF RequestInv, StaleReopens, Reopening
    <2>3. ASSUME NEW kind \in {"suspend", "deactivate", "activate", "accept"}, StatusRead(c, kind)
          PROVE  FALSE
      BY <2>3 DEF StatusRead
    <2>. QED BY <1>4, <2>1, <2>2, <2>3 DEF StaffStep
  <1>. QED BY <1>1, <1>2, <1>3, <1>4 DEF Next

\* The statement of a deactivation stands against every request begun after it.
THEOREM StaleReopening == Spec => OnlyStaleReopens
  <1>1. IInv /\ [Next]_vars =>
           [status = "DEACTIVATED" /\ status' # "DEACTIVATED"
              => \E c \in Calls : call[c].stale /\ call'[c] # call[c]]_vars
    BY ReopenStep DEF IInv
  <1>. QED BY <1>1, Invariance, PTL DEF Spec, OnlyStaleReopens
=============================================================================
