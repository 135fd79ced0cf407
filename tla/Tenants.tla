------------------------------ MODULE Tenants ------------------------------
(***************************************************************************)
(* Registering tenants: POST /api/tenants/register and the seed script     *)
(* look for the name first and insert afterwards.  Unlike the names of     *)
(* sources, those of tenants have no unique constraint.                    *)
(***************************************************************************)
EXTENDS Naturals

CONSTANTS
  Registrations,       \* registration requests
  Seeds,               \* runs of the seed script
  Names,               \* names asked for
  DefaultTenant        \* the name the seed script inserts

Applicants == Registrations \cup Seeds

ASSUME TenantsAssumption ==
  /\ Registrations \cap Seeds = {}
  /\ DefaultTenant \in Names

VARIABLES
  selfRegistrationEnabled,
  applicantStep,       \* the step each applicant performs next
  tenantName,          \* the name each asks for, any before it arrives
  tenants,             \* rows, named after the applicant that inserted them
  overlapping          \* history: pairs of which one inserted after the
                       \* other had checked and before it inserted

tenantsVars == <<selfRegistrationEnabled, applicantStep, tenantName, tenants, overlapping>>

TenantsTypeOK ==
  /\ selfRegistrationEnabled \in BOOLEAN
  /\ applicantStep \in [Applicants -> {"check", "insert", "done"}]
  /\ tenantName \in [Applicants -> Names]
  /\ tenants \subseteq Applicants
  /\ overlapping \subseteq Applicants \X Applicants

TenantsInit ==
  /\ selfRegistrationEnabled \in BOOLEAN
  /\ applicantStep = [r \in Applicants |-> "check"]
  /\ tenantName = [r \in Applicants |-> DefaultTenant]
  /\ tenants = {}
  /\ overlapping = {}

ApplicantGoto(r, step) == applicantStep' = [applicantStep EXCEPT ![r] = step]

Taken(name) == \E s \in tenants : tenantName[s] = name

(* A request asks for any name, the seed script for one.                   *)
Ask(r) ==
  \E name \in IF r \in Seeds THEN {DefaultTenant} ELSE Names :
    tenantName' = [tenantName EXCEPT ![r] = name]

(* Mutant of CheckName: the check is left to a constraint that is not      *)
(* there.                                                                  *)
SkipCheck(r) ==
  /\ applicantStep[r] = "check"
  /\ Ask(r)
  /\ ApplicantGoto(r, "insert")
  /\ UNCHANGED <<selfRegistrationEnabled, tenants, overlapping>>

(* 403 when self-registration is off, which does not concern the seed      *)
(* script, and 409, or nothing to seed, when the name is taken.            *)
CheckName(r) ==
  /\ applicantStep[r] = "check"
  /\ Ask(r)
  /\ \/ /\ r \in Seeds \/ selfRegistrationEnabled
        /\ ~Taken(tenantName'[r])
        /\ ApplicantGoto(r, "insert")
     \/ /\ (r \in Registrations /\ ~selfRegistrationEnabled) \/ Taken(tenantName'[r])
        /\ ApplicantGoto(r, "done")
  /\ UNCHANGED <<selfRegistrationEnabled, tenants, overlapping>>

InsertTenant(r) ==
  /\ applicantStep[r] = "insert"
  /\ tenants' = tenants \cup {r}
  /\ overlapping' = overlapping \cup
       {<<r, s>> : s \in {t \in Applicants \ {r} : applicantStep[t] = "insert"}}
  /\ ApplicantGoto(r, "done")
  /\ UNCHANGED <<selfRegistrationEnabled, tenantName>>

(* The INSERT fails, or the process dies before it.                        *)
AbandonTenant(r) ==
  /\ applicantStep[r] = "insert"
  /\ ApplicantGoto(r, "done")
  /\ UNCHANGED <<selfRegistrationEnabled, tenantName, tenants, overlapping>>

TenantsNext ==
  \E r \in Applicants : CheckName(r) \/ InsertTenant(r) \/ AbandonTenant(r)

TenantsSpec == TenantsInit /\ [][TenantsNext]_tenantsVars

(* Two tenants have one name only if their requests overlapped: the check  *)
(* of one fell before the insert of the other.  Nothing else makes them,   *)
(* neither the seed script nor a switched-off registration.                *)
DuplicateNamesOverlapped ==
  \A r, s \in tenants :
    r # s /\ tenantName[r] = tenantName[s] => <<r, s>> \in overlapping \/ <<s, r>> \in overlapping

=============================================================================
