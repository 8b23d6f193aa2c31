----------------------- MODULE TenantLifecycleProofs -----------------------
(***************************************************************************)
(* TenantLifecycle's invariants, for any number of concurrent requests,    *)
(* any number of provisioning steps and any number of crashes.             *)
(***************************************************************************)
EXTENDS TenantLifecycle, TLAPS

\* A provisioning under way has left behind the defaults of its steps so far.
StepsLeave == \A p \in Ops : op[p].pc = "steps" => op[p].step <= configured

\* A request about to open the tenant found it configured, or suspended: and
\* a suspended tenant is configured or was suspended early.
OpeningIsChecked ==
    /\ tstatus = "SUSPENDED" => early \/ configured = NumSteps
    /\ \A p \in Ops :
          op[p].pc = "write" =>
              /\ op[p].kind = "activate" => configured = NumSteps
              /\ op[p].kind = "reactivate" => early \/ configured = NumSteps
              /\ op[p].kind \in Kinds

\* What was there before the closing is gone, or a request that will revoke it
\* is about to.
CutOffOrPending ==
    /\ \A p \in Ops : op[p].pc = "revoke" => op[p].kind \in Closing
    /\ ~skipped =>
          /\ tstatus \in {"SUSPENDED", "ARCHIVED"} =>
                \/ <<"session", "before">> \notin live
                \/ \E p \in Ops : op[p].pc = "revoke"
          /\ tstatus = "ARCHIVED" =>
                \/ <<"key", "before">> \notin live
                \/ \E p \in Ops : op[p].pc = "revoke" /\ op[p].kind = "archive"

IInv ==
    /\ TenantTypeOK
    /\ StepsLeave
    /\ CompletedIsConfigured
    /\ ActiveIsConfigured
    /\ OpeningIsChecked
    /\ CutOffOrPending

\* A new tenant satisfies the invariant.
LEMMA InitIInv == TenantInit => IInv
  <1> SUFFICES ASSUME TenantInit PROVE IInv
    OBVIOUS
  <1> USE TenantAssumption DEF TenantInit, NoOp
  <1>1. TenantTypeOK
    <2>1. op \in [Ops -> [pc : {"idle", "write", "revoke", "steps"},
                         kind : Kinds \cup {"none", "provision"}, step : 0..NumSteps]]
      OBVIOUS
    <2>2. tstatus \in TenantStatus /\ prov \in ProvisioningStatus
      BY DEF TenantStatus, ProvisioningStatus
    <2>3. configured \in 0..NumSteps /\ cuts \in 0..MaxCuts /\ live \subseteq Credentials \X Ages
      OBVIOUS
    <2>. QED BY <2>1, <2>2, <2>3 DEF TenantTypeOK
  <1>2. StepsLeave /\ CompletedIsConfigured /\ ActiveIsConfigured
    BY DEF StepsLeave, CompletedIsConfigured, ActiveIsConfigured
  <1>3. OpeningIsChecked /\ CutOffOrPending
    BY DEF OpeningIsChecked, CutOffOrPending
  <1>. QED BY <1>1, <1>2, <1>3 DEF IInv

\* Every step keeps the variables in their types.
LEMMA TypeStep == TenantTypeOK /\ [TenantNext]_tvars => TenantTypeOK'
  <1> SUFFICES ASSUME TenantTypeOK, [TenantNext]_tvars PROVE TenantTypeOK'
    OBVIOUS
  <1> USE TenantAssumption DEF TenantTypeOK
  <1>1. ASSUME NEW p \in Ops, NEW kind \in Kinds, CheckStatus(p, kind) PROVE TenantTypeOK'
    BY <1>1 DEF CheckStatus, Pending, Kinds, Closing
  <1>2. ASSUME NEW p \in Ops, OpenTenant(p) PROVE TenantTypeOK'
    BY <1>2 DEF OpenTenant, NoOp, TenantStatus
  <1>3. ASSUME NEW p \in Ops, CloseTenant(p) PROVE TenantTypeOK'
    <2>1. live' \subseteq Credentials \X Ages
      <3>1. \A x \in live' : \E c \in Credentials : x = <<c, "before">>
        BY <1>3 DEF CloseTenant
      <3>2. \A c \in Credentials : <<c, "before">> \in Credentials \X Ages
        BY DEF Ages
      <3>. QED BY <3>1, <3>2
    <2>2. tstatus' \in TenantStatus
      BY <1>3 DEF CloseTenant, StatusWhenClosed, TenantStatus
    <2>3. early' \in BOOLEAN /\ skipped' \in BOOLEAN
      BY <1>3 DEF CloseTenant
    <2>. QED BY <1>3, <2>1, <2>2, <2>3 DEF CloseTenant
  <1>4. ASSUME NEW p \in Ops, RevokeCredentials(p) PROVE TenantTypeOK'
    BY <1>4 DEF RevokeCredentials, NoOp
  <1>5. ASSUME NEW p \in Ops, ProvisionBegin(p) PROVE TenantTypeOK'
    BY <1>5 DEF ProvisionBegin, ProvisioningStatus
  <1>6. ASSUME NEW p \in Ops, ProvisionStep(p) PROVE TenantTypeOK'
    BY <1>6 DEF ProvisionStep
  <1>7. ASSUME NEW p \in Ops, ProvisionSucceed(p) PROVE TenantTypeOK'
    BY <1>7 DEF ProvisionSucceed, NoOp, ProvisioningStatus
  <1>8. ASSUME NEW p \in Ops, ProvisionFail(p) PROVE TenantTypeOK'
    BY <1>8 DEF ProvisionFail, NoOp, ProvisioningStatus, TenantStatus
  <1>9. ASSUME NEW p \in Ops, CutShort(p) PROVE TenantTypeOK'
    <2>1. skipped' \in BOOLEAN
      BY <1>9 DEF CutShort
    <2>. QED BY <1>9, <2>1 DEF CutShort, NoOp
  <1>10. ASSUME NEW c \in Credentials, IssueCredential(c) PROVE TenantTypeOK'
    BY <1>10 DEF IssueCredential, Ages
  <1>11. CASE UNCHANGED tvars
    BY <1>11 DEF tvars
  <1>. QED BY <1>1, <1>2, <1>3, <1>4, <1>5, <1>6, <1>7, <1>8, <1>9, <1>10, <1>11 DEF TenantNext

\* Every step keeps what is known of the configuration: the first four parts
\* of the invariant that are not types.
Configuration ==
    /\ StepsLeave
    /\ CompletedIsConfigured
    /\ ActiveIsConfigured
    /\ OpeningIsChecked

LEMMA ConfigurationStep == TenantTypeOK /\ Configuration /\ [TenantNext]_tvars => Configuration'
  <1> SUFFICES ASSUME TenantTypeOK, Configuration, [TenantNext]_tvars PROVE Configuration'
    OBVIOUS
  <1> USE TenantAssumption DEF TenantTypeOK, Configuration, StepsLeave, CompletedIsConfigured,
                              ActiveIsConfigured, OpeningIsChecked
  <1>1. ASSUME NEW p \in Ops, NEW kind \in Kinds, CheckStatus(p, kind) PROVE Configuration'
    BY <1>1 DEF CheckStatus, Allowed, Pending
  <1>2. ASSUME NEW p \in Ops, OpenTenant(p) PROVE Configuration'
    BY <1>2 DEF OpenTenant, NoOp, Kinds
  <1>3. ASSUME NEW p \in Ops, CloseTenant(p) PROVE Configuration'
    <2>1. (early => early') /\ (op[p].kind = "suspend" /\ configured < NumSteps => early')
      BY <1>3 DEF CloseTenant
    <2>2. (tstatus' = "SUSPENDED" /\ op[p].kind = "suspend") \/ tstatus' = "ARCHIVED"
      BY <1>3 DEF CloseTenant, StatusWhenClosed, Closing
    <2>3. UNCHANGED <<prov, configured>> /\ op' = [op EXCEPT ![p].pc = "revoke"]
      BY <1>3 DEF CloseTenant
    <2>4. tstatus' = "SUSPENDED" => early' \/ configured' = NumSteps
      BY <2>1, <2>2, <2>3
    <2>5. \A q \in Ops : op'[q].pc = "write" => op'[q] = op[q] /\ op[q].pc = "write"
      BY <2>3
    <2>6. \A q \in Ops : op'[q].pc = "steps" => op'[q] = op[q] /\ op[q].pc = "steps"
      BY <2>3
    <2>. QED BY <2>1, <2>2, <2>3, <2>4, <2>5, <2>6
  <1>4. ASSUME NEW p \in Ops, RevokeCredentials(p) PROVE Configuration'
    BY <1>4 DEF RevokeCredentials, NoOp
  <1>5. ASSUME NEW p \in Ops, ProvisionBegin(p) PROVE Configuration'
    BY <1>5 DEF ProvisionBegin
  <1>6. ASSUME NEW p \in Ops, ProvisionStep(p) PROVE Configuration'
    BY <1>6 DEF ProvisionStep
  <1>7. ASSUME NEW p \in Ops, ProvisionSucceed(p) PROVE Configuration'
    BY <1>7 DEF ProvisionSucceed, StepsDone, NoOp
  <1>8. ASSUME NEW p \in Ops, ProvisionFail(p) PROVE Configuration'
    BY <1>8 DEF ProvisionFail, NoOp
  <1>9. ASSUME NEW p \in Ops, CutShort(p) PROVE Configuration'
    BY <1>9 DEF CutShort, NoOp
  <1>10. ASSUME NEW c \in Credentials, IssueCredential(c) PROVE Configuration'
    BY <1>10 DEF IssueCredential
  <1>11. CASE UNCHANGED tvars
    BY <1>11 DEF tvars
  <1>. QED BY <1>1, <1>2, <1>3, <1>4, <1>5, <1>6, <1>7, <1>8, <1>9, <1>10, <1>11 DEF TenantNext

\* Every step keeps the promise that old credentials go.
LEMMA CutOffStep == TenantTypeOK /\ CutOffOrPending /\ [TenantNext]_tvars => CutOffOrPending'
  <1> SUFFICES ASSUME TenantTypeOK, CutOffOrPending, [TenantNext]_tvars PROVE CutOffOrPending'
    OBVIOUS
  <1> USE DEF TenantTypeOK, CutOffOrPending
  <1>1. ASSUME NEW p \in Ops, NEW kind \in Kinds, CheckStatus(p, kind) PROVE CutOffOrPending'
    BY <1>1 DEF CheckStatus, Pending
  <1>2. ASSUME NEW p \in Ops, OpenTenant(p) PROVE CutOffOrPending'
    BY <1>2 DEF OpenTenant, NoOp
  <1>3. ASSUME NEW p \in Ops, CloseTenant(p) PROVE CutOffOrPending'
    BY <1>3 DEF CloseTenant, StatusWhenClosed, Closing
  <1>4. ASSUME NEW p \in Ops, RevokeCredentials(p) PROVE CutOffOrPending'
    <2>1. <<"session", "before">> \notin live'
      BY <1>4 DEF RevokeCredentials, RevokedBy, Credentials
    <2>2. op[p].kind = "archive" => <<"key", "before">> \notin live'
      BY <1>4 DEF RevokeCredentials, RevokedBy, Credentials
    <2>3. live' \subseteq live
      BY <1>4 DEF RevokeCredentials
    <2>. QED BY <1>4, <2>1, <2>2, <2>3 DEF RevokeCredentials, NoOp
  <1>5. ASSUME NEW p \in Ops, ProvisionBegin(p) PROVE CutOffOrPending'
    BY <1>5 DEF ProvisionBegin
  <1>6. ASSUME NEW p \in Ops, ProvisionStep(p) PROVE CutOffOrPending'
    BY <1>6 DEF ProvisionStep
  <1>7. ASSUME NEW p \in Ops, ProvisionSucceed(p) PROVE CutOffOrPending'
    BY <1>7 DEF ProvisionSucceed, NoOp
  <1>8. ASSUME NEW p \in Ops, ProvisionFail(p) PROVE CutOffOrPending'
    BY <1>8 DEF ProvisionFail, NoOp
  <1>9. ASSUME NEW p \in Ops, CutShort(p) PROVE CutOffOrPending'
    BY <1>9 DEF CutShort, NoOp
  <1>10. ASSUME NEW c \in Credentials, IssueCredential(c) PROVE CutOffOrPending'
    BY <1>10 DEF IssueCredential
  <1>11. CASE UNCHANGED tvars
    BY <1>11 DEF tvars
  <1>. QED BY <1>1, <1>2, <1>3, <1>4, <1>5, <1>6, <1>7, <1>8, <1>9, <1>10, <1>11 DEF TenantNext

\* IInv is an invariant of the specification.
THEOREM Invariance == TenantSpec => []IInv
  <1>1. IInv /\ [TenantNext]_tvars => IInv'
    BY TypeStep, ConfigurationStep, CutOffStep DEF IInv, Configuration
  <1>. QED BY InitIInv, <1>1, PTL DEF TenantSpec

\* Type correctness.
THEOREM TenantTypeCorrect == TenantSpec => []TenantTypeOK
  BY Invariance, PTL DEF IInv

\* Suspension and archiving cut off whoever was there before, whatever else
\* goes on at the same time.
THEOREM ClosingCutsOffAll == TenantSpec => []ClosingCutsOff
  <1>1. IInv => ClosingCutsOff
    BY DEF IInv, CutOffOrPending, ClosingCutsOff, Revoked
  <1>. QED BY Invariance, <1>1, PTL

\* COMPLETED provisionings left every default behind.
THEOREM CompletedMeansConfigured == TenantSpec => []CompletedIsConfigured
  BY Invariance, PTL DEF IInv

\* A tenant active without its defaults was suspended without them.
THEOREM OnlySuspensionBypasses == TenantSpec => []ActiveIsConfigured
  BY Invariance, PTL DEF IInv
=============================================================================
