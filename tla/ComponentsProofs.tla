--------------------------- MODULE ComponentsProofs ---------------------------
(***************************************************************************)
(* The run of MCComponents and the theorems of the components it is made   *)
(* of: every one of its behaviours is a behaviour of each component, so    *)
(* what is proved of a component is proved of the run.                     *)
(***************************************************************************)
EXTENDS MCComponents, CortexProofs, CounterProofs, DataProofs, AccountProofs

(* No component can disturb another: the run is each of them with          *)
(* stuttering steps added.                                                 *)
LEMMA InitParts ==
  ComponentsInit =>
    /\ EngineInit /\ ApprovalInit /\ EventInit /\ HookInit /\ LimitInit /\ MeterInit
    /\ ReportInit /\ SeatInit /\ RemovalInit /\ SetupInit /\ SsoInit /\ OnboardingInit /\ ErpInit
    /\ AuditInit /\ TenantInit /\ LeadInit /\ ErasureInit
BY Zenon DEF ComponentsInit

(* A step of one component leaves the variables of the others alone. *)
LEMMA StepParts ==
  [ComponentsNext]_allVars =>
    /\ [EngineNext]_engineVars /\ [ApprovalNext]_approvalVars /\ [EventNext]_eventVars
    /\ [HookNext]_hookVars /\ [LimitNext]_limitVars /\ [MeterNext]_meterVars
    /\ [ReportNext]_reportVars /\ [SeatNext]_seatVars /\ [RemovalNext]_removalVars
    /\ [SetupNext]_setupVars /\ [SsoNext]_ssoVars /\ [OnboardingNext]_onboardingVars
    /\ [ErpNext]_erpVars /\ [AuditNext]_auditVars /\ [TenantNext]_tenantVars
    /\ [LeadNext]_leadVars /\ [ErasureNext]_erasureVars
<1> SUFFICES ASSUME [ComponentsNext]_allVars
             PROVE
      /\ [EngineNext]_engineVars /\ [ApprovalNext]_approvalVars /\ [EventNext]_eventVars
      /\ [HookNext]_hookVars /\ [LimitNext]_limitVars /\ [MeterNext]_meterVars
      /\ [ReportNext]_reportVars /\ [SeatNext]_seatVars /\ [RemovalNext]_removalVars
      /\ [SetupNext]_setupVars /\ [SsoNext]_ssoVars /\ [OnboardingNext]_onboardingVars
      /\ [ErpNext]_erpVars /\ [AuditNext]_auditVars /\ [TenantNext]_tenantVars
      /\ [LeadNext]_leadVars /\ [ErasureNext]_erasureVars
  OBVIOUS
<1>1. CASE UNCHANGED allVars
  BY <1>1, Zenon DEF allVars
<1>2. CASE EngineNext /\ UNCHANGED <<approvalVars, eventVars, hookVars, limitVars, meterVars, reportVars, seatVars, removalVars, setupVars, ssoVars, onboardingVars, erpVars, auditVars, tenantVars, leadVars, erasureVars>>
  BY <1>2, Zenon
<1>3. CASE ApprovalNext /\ UNCHANGED <<engineVars, eventVars, hookVars, limitVars, meterVars, reportVars, seatVars, removalVars, setupVars, ssoVars, onboardingVars, erpVars, auditVars, tenantVars, leadVars, erasureVars>>
  BY <1>3, Zenon
<1>4. CASE EventNext /\ UNCHANGED <<engineVars, approvalVars, hookVars, limitVars, meterVars, reportVars, seatVars, removalVars, setupVars, ssoVars, onboardingVars, erpVars, auditVars, tenantVars, leadVars, erasureVars>>
  BY <1>4, Zenon
<1>5. CASE HookNext /\ UNCHANGED <<engineVars, approvalVars, eventVars, limitVars, meterVars, reportVars, seatVars, removalVars, setupVars, ssoVars, onboardingVars, erpVars, auditVars, tenantVars, leadVars, erasureVars>>
  BY <1>5, Zenon
<1>6. CASE LimitNext /\ UNCHANGED <<engineVars, approvalVars, eventVars, hookVars, meterVars, reportVars, seatVars, removalVars, setupVars, ssoVars, onboardingVars, erpVars, auditVars, tenantVars, leadVars, erasureVars>>
  BY <1>6, Zenon
<1>7. CASE MeterNext /\ UNCHANGED <<engineVars, approvalVars, eventVars, hookVars, limitVars, reportVars, seatVars, removalVars, setupVars, ssoVars, onboardingVars, erpVars, auditVars, tenantVars, leadVars, erasureVars>>
  BY <1>7, Zenon
<1>8. CASE ReportNext /\ UNCHANGED <<engineVars, approvalVars, eventVars, hookVars, limitVars, meterVars, seatVars, removalVars, setupVars, ssoVars, onboardingVars, erpVars, auditVars, tenantVars, leadVars, erasureVars>>
  BY <1>8, Zenon
<1>9. CASE SeatNext /\ UNCHANGED <<engineVars, approvalVars, eventVars, hookVars, limitVars, meterVars, reportVars, removalVars, setupVars, ssoVars, onboardingVars, erpVars, auditVars, tenantVars, leadVars, erasureVars>>
  BY <1>9, Zenon
<1>10. CASE RemovalNext /\ UNCHANGED <<engineVars, approvalVars, eventVars, hookVars, limitVars, meterVars, reportVars, seatVars, setupVars, ssoVars, onboardingVars, erpVars, auditVars, tenantVars, leadVars, erasureVars>>
  BY <1>10, Zenon
<1>11. CASE SetupNext /\ UNCHANGED <<engineVars, approvalVars, eventVars, hookVars, limitVars, meterVars, reportVars, seatVars, removalVars, ssoVars, onboardingVars, erpVars, auditVars, tenantVars, leadVars, erasureVars>>
  BY <1>11, Zenon
<1>12. CASE SsoNext /\ UNCHANGED <<engineVars, approvalVars, eventVars, hookVars, limitVars, meterVars, reportVars, seatVars, removalVars, setupVars, onboardingVars, erpVars, auditVars, tenantVars, leadVars, erasureVars>>
  BY <1>12, Zenon
<1>13. CASE OnboardingNext /\ UNCHANGED <<engineVars, approvalVars, eventVars, hookVars, limitVars, meterVars, reportVars, seatVars, removalVars, setupVars, ssoVars, erpVars, auditVars, tenantVars, leadVars, erasureVars>>
  BY <1>13, Zenon
<1>14. CASE ErpNext /\ UNCHANGED <<engineVars, approvalVars, eventVars, hookVars, limitVars, meterVars, reportVars, seatVars, removalVars, setupVars, ssoVars, onboardingVars, auditVars, tenantVars, leadVars, erasureVars>>
  BY <1>14, Zenon
<1>15. CASE AuditNext /\ UNCHANGED <<engineVars, approvalVars, eventVars, hookVars, limitVars, meterVars, reportVars, seatVars, removalVars, setupVars, ssoVars, onboardingVars, erpVars, tenantVars, leadVars, erasureVars>>
  BY <1>15, Zenon
<1>16. CASE TenantNext /\ UNCHANGED <<engineVars, approvalVars, eventVars, hookVars, limitVars, meterVars, reportVars, seatVars, removalVars, setupVars, ssoVars, onboardingVars, erpVars, auditVars, leadVars, erasureVars>>
  BY <1>16, Zenon
<1>17. CASE LeadNext /\ UNCHANGED <<engineVars, approvalVars, eventVars, hookVars, limitVars, meterVars, reportVars, seatVars, removalVars, setupVars, ssoVars, onboardingVars, erpVars, auditVars, tenantVars, erasureVars>>
  BY <1>17, Zenon
<1>18. CASE ErasureNext /\ UNCHANGED <<engineVars, approvalVars, eventVars, hookVars, limitVars, meterVars, reportVars, seatVars, removalVars, setupVars, ssoVars, onboardingVars, erpVars, auditVars, tenantVars, leadVars>>
  BY <1>18, Zenon
<1> QED BY <1>1, <1>2, <1>3, <1>4, <1>5, <1>6, <1>7, <1>8, <1>9, <1>10, <1>11, <1>12, <1>13, <1>14, <1>15, <1>16, <1>17, <1>18, Zenon DEF ComponentsNext

(* Every behaviour of the run is one of every component, whichever of them *)
(* moves: the sharing of one run adds no behaviour to any of them.         *)
THEOREM PartsImplemented ==
  ComponentsSpec =>
    /\ EngineSpec /\ ApprovalSpec /\ EventSpec /\ HookSpec /\ LimitSpec /\ MeterSpec
    /\ ReportSpec /\ SeatSpec /\ RemovalSpec /\ SetupSpec /\ SsoSpec /\ OnboardingSpec
    /\ ErpSpec /\ AuditSpec /\ TenantSpec /\ LeadSpec /\ ErasureSpec
BY InitParts, StepParts, PTL DEF ComponentsSpec, EngineSpec, ApprovalSpec, EventSpec, HookSpec, LimitSpec, MeterSpec, ReportSpec, SeatSpec, RemovalSpec, SetupSpec, SsoSpec, OnboardingSpec, ErpSpec, AuditSpec, TenantSpec, LeadSpec, ErasureSpec

-----------------------------------------------------------------------------
(* The type invariants of the components, from their invariants *)

LEMMA CortexTypes ==
  EngineSpec /\ ApprovalSpec /\ EventSpec => [](EngineTypeOK /\ ApprovalTypeOK /\ EventTypeOK)
<1>1. NInv /\ AInv /\ EInv => EngineTypeOK /\ ApprovalTypeOK /\ EventTypeOK
  BY DEF NInv, AInv, EInv
<1> QED BY <1>1, EngineInvariance, ApprovalInvariance, EventInvariance, PTL

LEMMA CounterTypes ==
  HookSpec /\ LimitSpec /\ MeterSpec /\ LeadSpec => [](HookTypeOK /\ LimitTypeOK /\ MeterTypeOK /\ LeadTypeOK)
<1>1. HookInv => HookTypeOK
  BY DEF HookInv, JobsHeld, CountsEarned, HookJob, Attempt, HookTypeOK
<1>2. LimitInv /\ MeterInv /\ LeadInv => LimitTypeOK /\ MeterTypeOK /\ LeadTypeOK
  BY DEF LimitInv, MeterInv, LeadInv
<1> QED BY <1>1, <1>2, HookInvariance, LimitInvariance, MeterInvariance, LeadInvariance, PTL

LEMMA DataTypes ==
  ReportSpec /\ ErpSpec /\ AuditSpec /\ TenantSpec => [](ReportTypeOK /\ ErpTypeOK /\ AuditTypeOK /\ TenantTypeOK)
<1>1. ReportInv /\ ErpInv /\ AuditInv /\ TInv => ReportTypeOK /\ ErpTypeOK /\ AuditTypeOK /\ TenantTypeOK
  BY DEF ReportInv, ErpInv, AuditInv, TInv
<1> QED BY <1>1, ReportInvariance, ErpInvariance, AuditInvariance, TenantInvariance, PTL

LEMMA AccessTypes ==
  SeatSpec /\ RemovalSpec /\ SetupSpec /\ SsoSpec => [](SeatTypeOK /\ RemovalTypeOK /\ SetupTypeOK /\ SsoTypeOK)
<1>1. TeamInv /\ RInv /\ FInv /\ SsoInv => SeatTypeOK /\ RemovalTypeOK /\ SetupTypeOK /\ SsoTypeOK
  BY DEF TeamInv, RInv, FInv, SsoInv
<1> QED BY <1>1, TeamInvariance, RemovalInvariance, SetupInvariance, SsoInvariance, PTL

LEMMA AccountTypes == OnboardingSpec /\ ErasureSpec => [](OnboardingTypeOK /\ ErasureTypeOK)
<1>1. OInv /\ PeopleInv => OnboardingTypeOK /\ ErasureTypeOK
  BY DEF OInv, PeopleInv
<1> QED BY <1>1, OnboardingInvariance, ErasureInvariance, PTL

LEMMA PartStays == ComponentsSpec => [](part \in Component)
<1>1. ComponentsInit => part \in Component
  BY DEF ComponentsInit
<1>2. part \in Component /\ [ComponentsNext]_allVars => (part \in Component)'
  <2>1. [ComponentsNext]_allVars => part' = part
    BY DEF ComponentsNext, allVars
  <2> QED BY <2>1
<1> QED BY <1>1, <1>2, PTL DEF ComponentsSpec

(* Type correctness of whichever component moves, for every value of the   *)
(* constants of all of them.                                               *)
THEOREM ComponentsTypes == ComponentsSpec => []ComponentsTypeOK
<1>1. /\ part \in Component
      /\ EngineTypeOK /\ ApprovalTypeOK /\ EventTypeOK
      /\ HookTypeOK /\ LimitTypeOK /\ MeterTypeOK /\ LeadTypeOK
      /\ ReportTypeOK /\ ErpTypeOK /\ AuditTypeOK /\ TenantTypeOK
      /\ SeatTypeOK /\ RemovalTypeOK /\ SetupTypeOK /\ SsoTypeOK
      /\ OnboardingTypeOK /\ ErasureTypeOK
      => ComponentsTypeOK
  BY DEF ComponentsTypeOK, Component
<1> QED BY <1>1, PartStays, PartsImplemented, CortexTypes, CounterTypes, DataTypes, AccessTypes, AccountTypes, PTL

(* Every property the run checks on its small instance holds of it for     *)
(* every value of the constants.                                           *)
THEOREM ComponentsAreSafe ==
  ComponentsSpec =>
    /\ [](QuotaBounded /\ CeilingHeld /\ HistoryKept /\ DecisionStands /\ ActsBounded)
    /\ [](WindowsBounded /\ MeterExact /\ ReportFound /\ CachesFresh /\ AuditLinked /\ TenantIsolated)
    /\ [](SeatsBounded /\ RemovedUserOut /\ EnabledProven /\ ProvisionBounded /\ ErasedClean)
    /\ BreakerEarned /\ ActiveKept
BY PartsImplemented, QuotaIsBounded, CeilingIsHeld, HistoryIsKept, DecisionsStand, ActsAreBounded,
   WindowsAreBounded, MeterIsExact, ReportsAreFound, CachesAreFresh, AuditIsLinked, TenantsAreIsolated,
   SeatsAreBounded, RemovedUsersAreOut, EnabledIsProven, ProvisionIsBounded, ErasureIsClean,
   BreakerIsEarned, ActiveAccountsAreKept, PTL
=============================================================================
