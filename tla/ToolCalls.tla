------------------------------ MODULE ToolCalls ------------------------------
(***************************************************************************)
(* kc-admin-mcp: one call of a tool, from its gates (tools/shared.rs)      *)
(* through the requests of its handler to its answer.  Each request goes   *)
(* to kc-admin-gateway, which forwards it to Keycloak if the caller's own  *)
(* scopes cover it (ScopePolicy; GatewayProxy has the gateway in detail).  *)
(*                                                                         *)
(* Calls share no state but the audit log (AuditLog), so this module       *)
(* follows a single one; what other callers do to Keycloak meanwhile is    *)
(* among the answers Keycloak may give.                                    *)
(***************************************************************************)
EXTENDS ScopePolicy, PagedLookup

CONSTANTS
    Table,   \* the tools: a function from their names to what they do
    Calls,   \* the calls: [tool, plan, scopes, roles, confirmed]
    Configs  \* the configurations: [secrets, readRoles, writeRoles]

(* A request of a handler: see ToolTable. *)
ARequest ==
    [method : STRING, segments : Seq(STRING), query : SUBSET STRING,
     finds : BOOLEAN, tolerates : SUBSET STRING, skips : Nat, paged : BOOLEAN]

(* The scopes whose holder may change things, for the role gate. *)
WriteScopes ==
    {f \o ":write" : f \in {"users", "groups", "roles", "clients", "client-scopes",
                            "idp", "realm"}}
    \cup {"clients:secrets", "realm:admin", "events:admin"}

(* The tools whose own scopes do not cover all of their requests, by the   *)
(* gateway's policy; every other tool's scopes do.                         *)
UnderScoped ==
    {"users_groups_remove", "clients_prune", "admin_events_list", "admin_events_clear",
     "groups_roles_clients", "client_registration_policies_create",
     "client_registration_policies_update", "client_registration_policies_delete",
     "clients_service_account_roles", "clients_service_account_roles_realm_add",
     "clients_service_account_roles_realm_remove",
     "clients_service_account_roles_client_add",
     "clients_service_account_roles_client_remove",
     "clients_default_scopes_add", "clients_default_scopes_delete",
     "clients_default_scopes_replace", "clients_optional_scopes_add",
     "clients_optional_scopes_delete", "clients_optional_scopes_replace",
     "clients_scope_binding", "clients_scope_ensure",
     "client_initial_access_list", "client_initial_access_create",
     "client_initial_access_delete", "realm_default_scopes_list",
     "realm_default_scopes_add", "realm_default_scopes_remove"}
OwnScopesCover(r, scopes) ==
    LET candidates == ScopeCandidates(r.method, r.segments, r.query)
    IN \E i \in DOMAIN candidates : candidates[i] \subseteq scopes

(* A call of a tool: what a tolerated failure leaves out of its plan are   *)
(* requests whose failure would be tolerated too; a list read page by page *)
(* is only read; only a tool that changes nothing tells success when it    *)
(* finds nothing; a tool with gates asks for a write scope if it writes,   *)
(* and one that asks for client secrets has gates, wants them enabled and  *)
(* asks for their scope; and the gates of a tool ask for all that the      *)
(* gateway will ask for behind its first change, or anywhere in its plan   *)
(* if it is not under-scoped.                                              *)
ACall(c) ==
    LET t == Table[c.tool] IN
    /\ c.plan \in Seq(ARequest)
    /\ \A i \in DOMAIN c.plan :
          /\ i + c.plan[i].skips <= Len(c.plan)
          /\ \A k \in i + 1 .. i + c.plan[i].skips : c.plan[k].tolerates # {}
          /\ c.plan[i].method # "GET" =>
                /\ ~c.plan[i].paged
                /\ t.missing = "missing"
                /\ t.gated => t.scopes \cap WriteScopes # {}
          /\ IsClientSecretPath(c.plan[i].segments) =>
                t.gated /\ t.secret /\ "clients:secrets" \in t.scopes
          /\ \/ "refused" \in c.plan[i].tolerates
             \/ c.tool \in UnderScoped /\ \A k \in 1 .. i - 1 : c.plan[k].method = "GET"
             \/ t.gated /\ OwnScopesCover(c.plan[i], t.scopes)
    /\ t.missing \in {"missing", "success"}

ASSUME ToolAssumption == \A c \in Calls : ACall(c)

VARIABLES
    config,  \* enable_secret_tools and role_requirements of this deployment
    call,    \* the call
    pc,      \* where its handler is
    at,      \* the request it is at
    first,   \* the page of it, where it has pages
    fates,   \* what became of each of its requests at Keycloak
    outcome  \* what the call ended in

vars == <<config, call, pc, at, first, fates, outcome>>

tool    == Table[call.tool]
request == call.plan[at]
Writes(i) == call.plan[i].method # "GET"

Init ==
    /\ config \in Configs
    /\ call \in Calls
    /\ pc = "called"
    /\ at = 1
    /\ first = 0
    /\ fates = [i \in DOMAIN call.plan |-> "none"]
    /\ outcome = "none"

(* Every outcome but "success" is an error to the caller. *)
End(result) == pc' = "done" /\ outcome' = result

-----------------------------------------------------------------------------
(* The gates. *)

SomeScopeWillDo ==                                \* mutant of RequireScopes
    tool.scopes # {} => tool.scopes \cap call.scopes # {}
RequireScopes == tool.scopes \subseteq call.scopes

ReadScopes ==
    {f \o ":read" : f \in {"users", "groups", "roles", "clients", "client-scopes",
                           "idp", "realm", "events", "tokens", "observability"}}
ClassifyScopes(scopes) ==
    IF scopes \cap WriteScopes # {} THEN "write"
    ELSE IF scopes \cap ReadScopes # {} THEN "read"
    ELSE "none"

RolesConfigured == config.readRoles \cup config.writeRoles # {}
AnyRoleWillDo ==                                  \* mutant of RequireRolesForScopes
    RolesConfigured => call.roles \cap (config.readRoles \cup config.writeRoles) # {}
RequireRolesForScopes ==
    RolesConfigured =>
        CASE ClassifyScopes(tool.scopes) = "write" -> call.roles \cap config.writeRoles # {}
          [] ClassifyScopes(tool.scopes) = "read"  ->
                call.roles \cap (config.readRoles \cup config.writeRoles) # {}
          [] OTHER -> TRUE

AdmittedToSecrets ==                              \* mutant of Admitted
    /\ tool.gated => RequireScopes /\ RequireRolesForScopes
    /\ tool.confirm => call.confirmed
Admitted ==
    /\ tool.gated => RequireScopes /\ RequireRolesForScopes
    /\ tool.secret => config.secrets
    /\ tool.confirm => call.confirmed

Admit ==
    /\ pc = "called"
    /\ Admitted
    /\ pc' = "ready"
    /\ UNCHANGED <<config, call, at, first, fates, outcome>>

(* A gate says no, or the arguments cannot be used. *)
Deny ==
    /\ pc = "called"
    /\ End("denied")
    /\ UNCHANGED <<config, call, at, first, fates>>

-----------------------------------------------------------------------------
(* The requests of the handler, one after the other. *)

(* A request has failed, or found nothing: the call goes on or ends here. *)
GoOnAnyhow(failure, ending) ==                    \* mutant of Fail
    at' = at + 1 /\ first' = 0 /\ pc' = "ready" /\ UNCHANGED outcome
FailSkippingOne(failure, ending) ==               \* mutant of Fail
    IF failure \in request.tolerates
    THEN at' = at + 2 + request.skips /\ first' = 0 /\ pc' = "ready" /\ UNCHANGED outcome
    ELSE End(ending) /\ UNCHANGED <<at, first>>
Fail(failure, ending) ==
    IF failure \in request.tolerates
    THEN at' = at + 1 + request.skips /\ first' = 0 /\ pc' = "ready" /\ UNCHANGED outcome
    ELSE End(ending) /\ UNCHANGED <<at, first>>

Covered ==
    RequiredScopes(request.method, request.segments, request.query, call.scopes)
        \subseteq call.scopes

(* The gateway takes the request and forwards it. *)
Send ==
    /\ pc = "ready" /\ at <= Len(call.plan)
    /\ Covered
    /\ fates' = [fates EXCEPT ![at] = "sent"]
    /\ pc' = "asked"
    /\ UNCHANGED <<config, call, at, first, outcome>>

(* The gateway finds a scope missing. *)
Refuse ==
    /\ pc = "ready" /\ at <= Len(call.plan)
    /\ ~Covered
    /\ Fail("refused", "refused")
    /\ UNCHANGED <<config, call, fates>>

(* The request never gets to Keycloak, and the handler is told, or waits   *)
(* until its time is up.                                                   *)
Lose ==
    /\ pc = "ready" /\ at <= Len(call.plan)
    /\ Fail("failed", "failed")
    /\ UNCHANGED <<config, call, fates>>

(* External: Keycloak serves what it was sent, whoever still waits. *)
KeycloakServes ==
    /\ \E i \in DOMAIN fates, fate \in {"done", "declined"} :
          fates[i] = "sent" /\ fates' = [fates EXCEPT ![i] = fate]
    /\ UNCHANGED <<config, call, pc, at, first, outcome>>

(* A good answer; what the handler wants of it may be missing. *)
Answer ==
    /\ pc = "asked"
    /\ fates[at] = "done"
    /\ \/ at' = at + 1 /\ first' = 0 /\ pc' = "ready" /\ UNCHANGED outcome
       \/ request.finds /\ Fail("nothing", tool.missing)
    /\ UNCHANGED <<config, call, fates>>

(* A full page: the next one is asked for, or the cursor is at its end.    *)
AnswerFullPage ==
    /\ pc = "asked"
    /\ fates[at] = "done"
    /\ request.paged
    /\ IF Advances(first)
       THEN /\ first' = NextFirst(first)
            /\ fates' = [fates EXCEPT ![at] = "none"]
            /\ pc' = "ready"
            /\ UNCHANGED <<at, outcome>>
       ELSE Fail("failed", "failed") /\ UNCHANGED fates
    /\ UNCHANGED <<config, call>>

(* Keycloak's refusal: there is no such thing (404), or anything else. *)
Decline ==
    /\ pc = "asked"
    /\ fates[at] = "declined"
    /\ \E failure \in {"absent", "failed"} : Fail(failure, "failed")
    /\ UNCHANGED <<config, call, fates>>

(* The answer does not come in time, or breaks off, or cannot be read. *)
TimeoutOnceServed ==                              \* mutant of Timeout
    /\ pc = "asked"
    /\ fates[at] # "sent"
    /\ Fail("failed", "failed")
    /\ UNCHANGED <<config, call, fates>>
Timeout ==
    /\ pc = "asked"
    /\ Fail("failed", "failed")
    /\ UNCHANGED <<config, call, fates>>

Succeed ==
    /\ pc = "ready" /\ at > Len(call.plan)
    /\ End("success")
    /\ UNCHANGED <<config, call, at, first, fates>>

Step ==
    \/ Admit \/ Deny \/ Send \/ Refuse \/ Lose
    \/ Answer \/ AnswerFullPage \/ Decline \/ Timeout \/ Succeed

Next == Step \/ KeycloakServes

Spec == Init /\ [][Next]_vars

(* The handler takes its steps: GatewayClient gives each request a         *)
(* timeout, and between requests it waits for nothing.  Nothing is assumed *)
(* of Keycloak, nor of how many full pages it answers with.                *)
LiveSpec == Spec /\ WF_vars(Step)

-----------------------------------------------------------------------------
(* Properties *)

Sent(i) == fates[i] # "none"

(* Type correctness. *)
TypeOK ==
    /\ config \in Configs
    /\ call \in Calls
    /\ pc \in {"called", "ready", "asked", "done"}
    /\ at \in 1 .. Len(call.plan) + 1
    /\ first \in Cursor
    /\ fates \in [DOMAIN call.plan -> {"none", "sent", "done", "declined"}]
    /\ outcome \in {"none", "denied", "refused", "missing", "failed", "success"}

(* A tool that does not report failures one by one tells success only when *)
(* everything it was to change is changed, and changes nothing further     *)
(* once it cannot tell whether an earlier change was made: the `?` and     *)
(* map_err behind every request_json.                                      *)
SuccessIsComplete ==
    \A i \in DOMAIN fates : Writes(i) /\ call.plan[i].tolerates = {} =>
        /\ outcome = "success" => fates[i] = "done"
        /\ \A j \in DOMAIN fates : j > i /\ Sent(j) => fates[i] = "done"

(* The gateway's scope policy never stops a call half way: it finds a      *)
(* scope missing, if any is, before the call's first change               *)
(* (handlers.rs:1011-1082 against the tools' own scopes).                  *)
NeverRefusedHalfway ==
    outcome = "refused" => \A i \in DOMAIN fates : Writes(i) => ~Sent(i)

(* A call that its gates admitted is refused by the gateway only if its    *)
(* tool is known to ask for less than its requests need (tools/shared.rs:  *)
(* 81-109 against handlers.rs:1011-1082), whatever else its caller holds.  *)
ScopesSuffice == outcome = "refused" => call.tool \in UnderScoped

(* A caller without a write role changes nothing in Keycloak through a     *)
(* tool that has gates, whatever its scopes (tools/shared.rs:81-133).      *)
GatedWritersHoldWriteRole ==
    \A i \in DOMAIN fates :
        Writes(i) /\ Sent(i) /\ tool.gated /\ RolesConfigured
        => call.roles \cap config.writeRoles # {}

(* tools/mod.rs:12: every tool call passes the gates; so whoever changes   *)
(* anything holds a write role, whichever tool it is.                      *)
WritersHoldWriteRole ==
    \A i \in DOMAIN fates :
        Writes(i) /\ Sent(i) /\ RolesConfigured => call.roles \cap config.writeRoles # {}

(* events.rs:290 and the like: the scopes a tool documents are what a call *)
(* of it requires; the gateway does not ask for others.                    *)
DocumentedScopesSuffice == outcome # "refused"

(* Client secrets are neither read nor made where secret tools are         *)
(* disabled, nor for a caller without clients:secrets (tools/clients.rs:10,*)
(* tools/shared.rs:146-159).                                               *)
SecretsNeedSwitchAndScope ==
    \A i \in DOMAIN fates :
        Sent(i) /\ IsClientSecretPath(call.plan[i].segments)
        => config.secrets /\ "clients:secrets" \in call.scopes

(* Every call ends, though Keycloak or the gateway may never answer, or    *)
(* answer with a full page whatever page it is asked for (clients.rs       *)
(* 956-1008): at the latest when the cursor no longer advances.            *)
EveryCallEnds == pc = "called" ~> pc = "done"
=============================================================================
