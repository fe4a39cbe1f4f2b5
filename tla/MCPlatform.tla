------------------------------ MODULE MCPlatform -------------------------------
(* Seven parts of the platform's administration that share no state: the status of the   *)
(* accounts, the roles of the owners, the incidents, the Telegram bots, the              *)
(* documents of a project, and the limits on requests and on updates.  A behaviour      *)
(* exercises one of them (`part`).                                                      *)
EXTENDS AccountStatus, RoleAssignment, IncidentResponse, BotIntegrations, DocumentLibrary,
  WebhookLimits, ApiLimits, TLC

CONSTANTS r1, r2, b1, b2

Symmetry == Permutations({r1, r2}) \cup Permutations({b1, b2})

VARIABLE part

vars == <<part, accountVars, roleVars, incidentVars, botVars, libraryVars,
          limitVars, apiVars>>

Init ==
  /\ part \in {"accounts", "roles", "incidents", "bots", "library", "webhook", "api"}
  /\ InitAccounts
  /\ InitRoles
  /\ InitIncidents
  /\ InitBots
  /\ InitLibrary
  /\ InitLimits
  /\ InitApi
  /\ part # "accounts" => account = [u \in Users |-> Active]
  /\ part # "roles" => role = [u \in People |-> "platform_owner"]
  /\ part # "bots" => bots = [i \in Integrations |-> [status |-> "unused"]]

Next ==
  \/ part = "accounts" /\ NextAccount
        /\ UNCHANGED <<part, roleVars, incidentVars, botVars, libraryVars, limitVars, apiVars>>
  \/ part = "roles" /\ NextRole
        /\ UNCHANGED <<part, accountVars, incidentVars, botVars, libraryVars, limitVars, apiVars>>
  \/ part = "incidents" /\ NextIncident
        /\ UNCHANGED <<part, accountVars, roleVars, botVars, libraryVars, limitVars, apiVars>>
  \/ part = "bots" /\ NextBot
        /\ UNCHANGED <<part, accountVars, roleVars, incidentVars, libraryVars, limitVars, apiVars>>
  \/ part = "library" /\ NextLibrary
        /\ UNCHANGED <<part, accountVars, roleVars, incidentVars, botVars, limitVars, apiVars>>
  \/ part = "webhook" /\ NextLimit
        /\ UNCHANGED <<part, accountVars, roleVars, incidentVars, botVars, libraryVars, apiVars>>
  \/ part = "api" /\ NextApi
        /\ UNCHANGED <<part, accountVars, roleVars, incidentVars, botVars, libraryVars, limitVars>>

Spec == Init /\ [][Next]_vars

TypeOK ==
  /\ AccountTypeOK /\ RolesTypeOK /\ IncidentTypeOK /\ BotTypeOK /\ LibraryTypeOK
  /\ LimitsTypeOK /\ ApiTypeOK

\* The limits on updates and on requests (WebhookLimits, ApiLimits).
AdmittedWithinLimits == InFlightIsBounded /\ WindowIsKept
===============================================================================
