---------------------------- MODULE MCComponents ----------------------------
(***************************************************************************)
(* The components that share no state with one another, in one run: part   *)
(* names the one that moves, so that the state spaces add up instead of    *)
(* multiplying.                                                            *)
(***************************************************************************)
EXTENDS CortexEngine, CortexApprovals, CortexEvents, WebhookDelivery, SlidingWindows, UsageMeter,
        ReportJobs, TeamInvites, MemberRemoval, TotpSetup, SingleSignOn, Onboarding, ErpDocuments, AuditChain,
        TenantScope, AccountErasure

VARIABLE part

Component == {"engine", "approvals", "events", "hooks", "limits", "meter", "reports",
              "seats", "removal", "setup", "sso", "onboarding", "erp",
              "audit", "tenant", "leads", "erasure"}

ComponentsInit ==
  /\ part \in Component
  /\ EngineInit /\ ApprovalInit /\ EventInit /\ HookInit /\ LimitInit /\ MeterInit
  /\ ReportInit /\ SeatInit /\ RemovalInit /\ SetupInit /\ SsoInit /\ OnboardingInit /\ ErpInit
  /\ AuditInit /\ TenantInit /\ LeadInit /\ ErasureInit
  /\ part # "leads" => form = "demo"
  /\ part # "erasure" => ~constrained

allVars == <<engineVars, approvalVars, eventVars, hookVars, limitVars, meterVars, reportVars,
             seatVars, removalVars, setupVars, ssoVars, onboardingVars, erpVars,
             auditVars, tenantVars, leadVars, erasureVars, part>>

ComponentsNext ==
  \/ /\ part = "engine" /\ EngineNext
     /\ UNCHANGED <<part, approvalVars, eventVars, hookVars, limitVars, meterVars, reportVars,
                    seatVars, removalVars, setupVars, ssoVars, onboardingVars, erpVars,
                    auditVars, tenantVars, leadVars, erasureVars>>
  \/ /\ part = "approvals" /\ ApprovalNext
     /\ UNCHANGED <<part, engineVars, eventVars, hookVars, limitVars, meterVars, reportVars,
                    seatVars, removalVars, setupVars, ssoVars, onboardingVars, erpVars,
                    auditVars, tenantVars, leadVars, erasureVars>>
  \/ /\ part = "events" /\ EventNext
     /\ UNCHANGED <<part, engineVars, approvalVars, hookVars, limitVars, meterVars, reportVars,
                    seatVars, removalVars, setupVars, ssoVars, onboardingVars, erpVars,
                    auditVars, tenantVars, leadVars, erasureVars>>
  \/ /\ part = "hooks" /\ HookNext
     /\ UNCHANGED <<part, engineVars, approvalVars, eventVars, limitVars, meterVars, reportVars,
                    seatVars, removalVars, setupVars, ssoVars, onboardingVars, erpVars,
                    auditVars, tenantVars, leadVars, erasureVars>>
  \/ /\ part = "limits" /\ LimitNext
     /\ UNCHANGED <<part, engineVars, approvalVars, eventVars, hookVars, meterVars, reportVars,
                    seatVars, removalVars, setupVars, ssoVars, onboardingVars, erpVars,
                    auditVars, tenantVars, leadVars, erasureVars>>
  \/ /\ part = "meter" /\ MeterNext
     /\ UNCHANGED <<part, engineVars, approvalVars, eventVars, hookVars, limitVars, reportVars,
                    seatVars, removalVars, setupVars, ssoVars, onboardingVars, erpVars,
                    auditVars, tenantVars, leadVars, erasureVars>>
  \/ /\ part = "reports" /\ ReportNext
     /\ UNCHANGED <<part, engineVars, approvalVars, eventVars, hookVars, limitVars, meterVars,
                    seatVars, removalVars, setupVars, ssoVars, onboardingVars, erpVars,
                    auditVars, tenantVars, leadVars, erasureVars>>
  \/ /\ part = "seats" /\ SeatNext
     /\ UNCHANGED <<part, engineVars, approvalVars, eventVars, hookVars, limitVars, meterVars,
                    reportVars, removalVars, setupVars, ssoVars, onboardingVars, erpVars,
                    auditVars, tenantVars, leadVars, erasureVars>>
  \/ /\ part = "removal" /\ RemovalNext
     /\ UNCHANGED <<part, engineVars, approvalVars, eventVars, hookVars, limitVars, meterVars,
                    reportVars, seatVars, setupVars, ssoVars, onboardingVars, erpVars,
                    auditVars, tenantVars, leadVars, erasureVars>>
  \/ /\ part = "setup" /\ SetupNext
     /\ UNCHANGED <<part, engineVars, approvalVars, eventVars, hookVars, limitVars, meterVars,
                    reportVars, seatVars, removalVars, ssoVars, onboardingVars, erpVars,
                    auditVars, tenantVars, leadVars, erasureVars>>
  \/ /\ part = "sso" /\ SsoNext
     /\ UNCHANGED <<part, engineVars, approvalVars, eventVars, hookVars, limitVars, meterVars,
                    reportVars, seatVars, removalVars, setupVars, onboardingVars, erpVars,
                    auditVars, tenantVars, leadVars, erasureVars>>
  \/ /\ part = "onboarding" /\ OnboardingNext
     /\ UNCHANGED <<part, engineVars, approvalVars, eventVars, hookVars, limitVars, meterVars,
                    reportVars, seatVars, removalVars, setupVars, ssoVars, erpVars,
                    auditVars, tenantVars, leadVars, erasureVars>>
  \/ /\ part = "erp" /\ ErpNext
     /\ UNCHANGED <<part, engineVars, approvalVars, eventVars, hookVars, limitVars, meterVars,
                    reportVars, seatVars, removalVars, setupVars, ssoVars, onboardingVars,
                    auditVars, tenantVars, leadVars, erasureVars>>
  \/ /\ part = "audit" /\ AuditNext
     /\ UNCHANGED <<part, engineVars, approvalVars, eventVars, hookVars, limitVars, meterVars,
                    reportVars, seatVars, removalVars, setupVars, ssoVars, onboardingVars, erpVars,
                    tenantVars, leadVars, erasureVars>>
  \/ /\ part = "tenant" /\ TenantNext
     /\ UNCHANGED <<part, engineVars, approvalVars, eventVars, hookVars, limitVars, meterVars,
                    reportVars, seatVars, removalVars, setupVars, ssoVars, onboardingVars, erpVars,
                    auditVars, leadVars, erasureVars>>
  \/ /\ part = "leads" /\ LeadNext
     /\ UNCHANGED <<part, engineVars, approvalVars, eventVars, hookVars, limitVars, meterVars,
                    reportVars, seatVars, removalVars, setupVars, ssoVars, onboardingVars, erpVars,
                    auditVars, tenantVars, erasureVars>>
  \/ /\ part = "erasure" /\ ErasureNext
     /\ UNCHANGED <<part, engineVars, approvalVars, eventVars, hookVars, limitVars, meterVars,
                    reportVars, seatVars, removalVars, setupVars, ssoVars, onboardingVars, erpVars,
                    auditVars, tenantVars, leadVars>>

ComponentsSpec == ComponentsInit /\ [][ComponentsNext]_allVars

(* The variables of the component that moves have their types. *)
ComponentsTypeOK ==
  /\ part \in Component
  /\ CASE part = "engine" -> EngineTypeOK
       [] part = "approvals" -> ApprovalTypeOK
       [] part = "events" -> EventTypeOK
       [] part = "hooks" -> HookTypeOK
       [] part = "limits" -> LimitTypeOK
       [] part = "meter" -> MeterTypeOK
       [] part = "reports" -> ReportTypeOK
       [] part = "seats" -> SeatTypeOK
       [] part = "removal" -> RemovalTypeOK
       [] part = "setup" -> SetupTypeOK
       [] part = "sso" -> SsoTypeOK
       [] part = "onboarding" -> OnboardingTypeOK
       [] part = "erp" -> ErpTypeOK
       [] part = "audit" -> AuditTypeOK
       [] part = "tenant" -> TenantTypeOK
       [] part = "leads" -> LeadTypeOK
       [] part = "erasure" -> ErasureTypeOK

(* The endpoints of one tier: one that fails closed, with the window of a  *)
(* minute, and one with a longer window.                                   *)
MCEndpointLimit == [strict |-> 1, hourly |-> 2]
MCEndpointWindow == [strict |-> 2, hourly |-> 3]
=============================================================================
