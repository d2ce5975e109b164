------------------------------ MODULE ToolTable ------------------------------
(***************************************************************************)
(* kc-admin-mcp/src/tools: what each tool asks of its caller and which     *)
(* requests its handler then sends to the gateway, in order.  An operator  *)
(* has the name of its handler.                                            *)
(*                                                                         *)
(* A plan is the sequence of requests of one call; a tool has a plan for   *)
(* each way its arguments and the answers to its lookups may turn out.  A  *)
(* segment of a path that names a thing stands for any such name.          *)
(***************************************************************************)
EXTENDS ScopePolicy

MostRepeats == 2  \* bound: requests of one loop over roles, scopes or clients

(* GatewayClient::request_json.  A request finds when the rest of the plan *)
(* needs something of its answer that may be missing; it tolerates the     *)
(* failures its handler goes on after, leaving out the skips that follow.  *)
(* A paged one is made for each page of a list (PagedLookup).              *)
Request(method, tail) ==
    [method |-> method, segments |-> <<"admin", "realms", "realm">> \o tail,
     query |-> {}, finds |-> FALSE, tolerates |-> {}, skips |-> 0, paged |-> FALSE]
GET(tail)    == Request("GET", tail)
POST(tail)   == Request("POST", tail)
PUT(tail)    == Request("PUT", tail)
DELETE(tail) == Request("DELETE", tail)
Find(tail, query) == [GET(tail) EXCEPT !.finds = TRUE, !.query = query]
Tolerant(request, failures, skips) ==
    [request EXCEPT !.tolerates = failures, !.skips = skips]

(* Sets of plans: one after the other, one request, one or none, a loop. *)
S ** T            == {p \o q : p \in S, q \in T}
NoRequest         == {<<>>}
Once(request)     == {<<request>>}
Optional(request) == NoRequest \cup Once(request)
Repeated(request) == {[i \in 1 .. n |-> request] : n \in 1 .. MostRepeats}
AnyNumber(request) == NoRequest \cup Repeated(request)

(* A tool: the scopes its caller needs, its plans, whether it passes the   *)
(* scope and role gates, and wants secrets enabled or a confirmation; and  *)
(* how a call ends that finds nothing.                                     *)
Tool(scopes, plans) ==
    [scopes |-> scopes, plans |-> plans, gated |-> TRUE, secret |-> FALSE,
     confirm |-> FALSE, missing |-> "missing"]
Secret(tool)    == [tool EXCEPT !.secret = TRUE]
Confirmed(tool) == [tool EXCEPT !.confirm = TRUE]

User     == <<"users", "user">>
Group    == <<"groups", "group">>
Role     == <<"roles", "role">>
Client   == <<"clients", "client">>
Scope    == <<"client-scopes", "scope">>
Provider == <<"identity-provider", "instances", "provider">>
Mappers  == <<"protocol-mappers", "models">>
RealmMappings   == <<"role-mappings", "realm">>
ClientMappings  == <<"role-mappings", "clients", "client">>
ScopeMappings   == <<"scope-mappings", "realm">>
ClientScopeMappings == <<"scope-mappings", "clients", "client">>

-----------------------------------------------------------------------------
(* Lookups the tools share. *)

resolve_client_id == Optional(Find(<<"clients">>, {"clientId"}))
resolve_client_unique_id == Optional(Find(<<"clients">>, {"clientId"}))
resolve_client_scope_id == Optional(Find(<<"client-scopes">>, {}))
resolve_realm_roles == Repeated(Find(Role, {}))
resolve_client_roles == Repeated(Find(Client \o Role, {}))
resolve_service_account_user_id ==
    resolve_client_id ** Once(Find(Client \o <<"service-account-user">>, {}))
load_client_scope_lookup ==
    Once([GET(<<"client-scopes">>) EXCEPT !.query = {"first", "max"}, !.paged = TRUE])
resolve_scope_ids ==
    Once([Find(<<"client-scopes">>, {"first", "max"}) EXCEPT !.paged = TRUE])
list_client_scopes(kind) == Once(GET(Client \o <<kind>>))
apply_scope_mutation(method, kind) == Request(method, Client \o <<kind, "scope">>)
configured_registration_policy_components == Once(Find(<<"components">>, {"type"}))

-----------------------------------------------------------------------------
(* users *)

users_list == Tool({"users:read"}, Once(GET(<<"users">>)))
users_get == Tool({"users:read"}, Once(GET(User)))
users_create == Tool({"users:write"}, Once(POST(<<"users">>)))
users_delete == Tool({"users:write"}, Once(DELETE(User)))
users_groups_list == Tool({"users:read"}, Once(GET(User \o <<"groups">>)))
users_groups_add == Tool({"users:write"}, Once(PUT(User \o Group)))
(* Its handler asks for no scopes and no roles. *)
users_groups_remove == [Tool({}, Once(DELETE(User \o Group))) EXCEPT !.gated = FALSE]
users_role_mappings_realm == Tool({"users:read"}, Once(GET(User \o RealmMappings)))
users_role_mappings_clients ==
    Tool({"users:read"}, Once(GET(User \o <<"role-mappings">>)))
users_consent_list == Tool({"users:read"}, Once(GET(User \o <<"consents">>)))
users_sessions_list == Tool({"users:read"}, Once(GET(User \o <<"sessions">>)))
users_sessions_logout == Tool({"users:write"}, Once(POST(User \o <<"logout">>)))
users_reset_password == Tool({"users:write"}, Once(PUT(User \o <<"reset-password">>)))
users_required_actions_set == Tool({"users:write"}, Once(PUT(User)))

-----------------------------------------------------------------------------
(* groups *)

groups_list == Tool({"groups:read"}, Once(GET(<<"groups">>)))
groups_get == Tool({"groups:read"}, Once(GET(Group)))
groups_create ==
    Tool({"groups:write"}, Once(POST(<<"groups">>)) \cup Once(POST(Group \o <<"children">>)))
groups_members_list == Tool({"groups:read"}, Once(GET(Group \o <<"members">>)))
groups_delete == Tool({"groups:write"}, Once(DELETE(Group)))
groups_roles_realm == Tool({"groups:read"}, Once(GET(Group \o RealmMappings)))
groups_roles_clients ==
    Tool({"groups:read"}, resolve_client_unique_id
         ** Once(GET(Group \o ClientMappings)))
groups_roles_realm_add ==
    Tool({"groups:write"}, resolve_realm_roles ** Once(POST(Group \o RealmMappings)))
groups_roles_client_add ==
    Tool({"groups:write"}, resolve_client_unique_id ** resolve_client_roles
                              ** Once(POST(Group \o ClientMappings)))
groups_roles_realm_remove ==
    Tool({"groups:write"}, resolve_realm_roles
         ** Once(DELETE(Group \o RealmMappings)))
groups_roles_client_remove ==
    Tool({"groups:write"}, resolve_client_unique_id ** resolve_client_roles
                              ** Once(DELETE(Group \o ClientMappings)))

-----------------------------------------------------------------------------
(* roles *)

roles_list == Tool({"roles:read"}, Once(GET(<<"roles">>)))
roles_get == Tool({"roles:read"}, Once(GET(Role)))
roles_create == Tool({"roles:write"}, Once(POST(<<"roles">>)))
roles_delete == Tool({"roles:write"}, Once(DELETE(Role)))
roles_list_users == Tool({"roles:read"}, Once(GET(Role \o <<"users">>)))
roles_list_composites == Tool({"roles:read"}, Once(GET(Role \o <<"composites">>)))
roles_composites_add ==
    Tool({"roles:write"}, resolve_realm_roles ** Once(POST(Role \o <<"composites">>)))
roles_composites_remove ==
    Tool({"roles:write"}, resolve_realm_roles
         ** Once(DELETE(Role \o <<"composites">>)))

-----------------------------------------------------------------------------
(* clients: core *)

clients_list == Tool({"clients:read"}, Once(GET(<<"clients">>)))
(* A search for what may be an id tries it as one first. *)
SearchById == Optional(Tolerant(Find(Client, {}), {"absent", "nothing"}, 0))

clients_search ==
    Tool({"clients:read"},
         SearchById
         ** {<<[GET(<<"clients">>) EXCEPT !.query = {q}]>> : q \in {"clientId", "search"}})
clients_get == Tool({"clients:read"}, resolve_client_id ** Once(GET(Client)))
clients_create == Tool({"clients:write"}, Once(POST(<<"clients">>)))
clients_update == Tool({"clients:write"}, resolve_client_id ** Once(PUT(Client)))
clients_enable == Tool({"clients:write"}, resolve_client_id ** Once(PUT(Client)))
clients_disable == Tool({"clients:write"}, resolve_client_id ** Once(PUT(Client)))
clients_delete == Tool({"clients:write"}, resolve_client_id ** Once(DELETE(Client)))
(* The new client's id is in the answer to the first request, or is not. *)
clients_introspection_create ==
    Secret(Confirmed(Tool({"clients:write", "clients:secrets"},
        {<<[POST(<<"clients">>) EXCEPT !.finds = TRUE], POST(Client \o <<"client-secret">>)>>})))
(* One item of a bulk update: whatever fails is noted, and the next item   *)
(* is seen to.  It may have nothing to change, or the run be a dry one.    *)
BulkItem ==
    LET all      == {"refused", "absent", "failed", "nothing"}
        lookup   == Find(<<"clients">>, {"clientId"})
        update   == Tolerant(PUT(Client), all, 0)
    IN NoRequest \cup Once(update) \cup Once(Tolerant(lookup, all, 0))
       \cup {<<Tolerant(lookup, all, 1), update>>}

clients_bulk_update == Confirmed(Tool({"clients:write"}, BulkItem ** BulkItem))
clients_prune ==
    Confirmed(Tool({"clients:write"},
        Once(GET(<<"clients">>))
        ** (AnyNumber(DELETE(Client)) \cup AnyNumber(PUT(Client)))))

-----------------------------------------------------------------------------
(* clients: protocol mappers, scope mappings, service accounts *)

clients_protocol_mappers_list ==
    Tool({"clients:read"}, resolve_client_id ** Once(GET(Client \o Mappers)))
clients_protocol_mappers_add ==
    Tool({"clients:write"}, resolve_client_id ** Once(POST(Client \o Mappers)))
clients_protocol_mappers_delete ==
    Tool({"clients:write"}, resolve_client_id
                             ** Once(DELETE(Client \o Mappers \o <<"mapper">>)))
clients_redirect_uris_update ==
    Tool({"clients:write"}, resolve_client_id ** Once(PUT(Client)))
clients_scope_mappings_realm ==
    Tool({"clients:read"}, resolve_client_id ** Once(GET(Client \o ScopeMappings)))
clients_scope_mappings_client ==
    Tool({"clients:read"}, resolve_client_id ** resolve_client_id
                            ** Once(GET(Client \o ClientScopeMappings)))
clients_scope_mappings_realm_add ==
    Tool({"clients:write"}, resolve_client_id ** resolve_realm_roles
                             ** Once(POST(Client \o ScopeMappings)))
clients_scope_mappings_client_add ==
    Tool({"clients:write"}, resolve_client_id ** resolve_client_id
         ** resolve_client_roles
                             ** Once(POST(Client \o ClientScopeMappings)))
clients_scope_mappings_realm_delete ==
    Tool({"clients:write"}, resolve_client_id ** resolve_realm_roles
                             ** Once(DELETE(Client \o ScopeMappings)))
clients_scope_mappings_client_delete ==
    Tool({"clients:write"}, resolve_client_id ** resolve_client_id
         ** resolve_client_roles
                             ** Once(DELETE(Client \o ClientScopeMappings)))
clients_service_account_roles ==
    Tool({"clients:read"}, resolve_service_account_user_id
         ** Once(GET(User \o <<"role-mappings">>)))
clients_service_account_roles_realm_add ==
    Tool({"clients:write"}, resolve_service_account_user_id ** resolve_realm_roles
                             ** Once(POST(User \o RealmMappings)))
clients_service_account_roles_client_add ==
    Tool({"clients:write"}, resolve_service_account_user_id ** resolve_client_id
                             ** resolve_client_roles
                             ** Once(POST(User \o ClientMappings)))
clients_service_account_roles_realm_remove ==
    Tool({"clients:write"}, resolve_service_account_user_id ** resolve_realm_roles
                             ** Once(DELETE(User \o RealmMappings)))
clients_service_account_roles_client_remove ==
    Tool({"clients:write"}, resolve_service_account_user_id ** resolve_client_id
                             ** resolve_client_roles
                             ** Once(DELETE(User \o ClientMappings)))

-----------------------------------------------------------------------------
(* clients: secrets *)

clients_secrets_get ==
    Secret(Tool({"clients:write", "clients:secrets"},
        resolve_client_id ** Once(GET(Client \o <<"client-secret">>))))
clients_secrets_rotate ==
    Secret(Confirmed(Tool({"clients:write", "clients:secrets"},
        resolve_client_id ** Once(POST(Client \o <<"client-secret">>)))))

-----------------------------------------------------------------------------
(* clients: bindings of client scopes *)

DefaultScopes  == "default-client-scopes"
OptionalScopes == "optional-client-scopes"

clients_default_scopes ==
    Tool({"clients:read"}, resolve_client_id
         ** Once(GET(Client \o <<DefaultScopes>>)))
clients_optional_scopes ==
    Tool({"clients:read"}, resolve_client_id
         ** Once(GET(Client \o <<OptionalScopes>>)))

(* Reads the bindings of one kind, then adds or removes what is to change; *)
(* nothing in a dry run.                                                   *)
MutateScopes(kind, changes) ==
    Tool({"clients:write"}, resolve_client_id ** resolve_scope_ids
                            ** list_client_scopes(kind) ** changes)
Attach(kind) == AnyNumber(apply_scope_mutation("PUT", kind))
Detach(kind) == AnyNumber(apply_scope_mutation("DELETE", kind))

clients_default_scopes_add == MutateScopes(DefaultScopes, Attach(DefaultScopes))
clients_default_scopes_delete == MutateScopes(DefaultScopes, Detach(DefaultScopes))
clients_default_scopes_replace ==
    Confirmed(MutateScopes(DefaultScopes, Detach(DefaultScopes)
         ** Attach(DefaultScopes)))
clients_optional_scopes_add == MutateScopes(OptionalScopes, Attach(OptionalScopes))
clients_optional_scopes_delete == MutateScopes(OptionalScopes, Detach(OptionalScopes))
clients_optional_scopes_replace ==
    Confirmed(MutateScopes(OptionalScopes, Detach(OptionalScopes)
         ** Attach(OptionalScopes)))
BothKinds == list_client_scopes(DefaultScopes) ** list_client_scopes(OptionalScopes)

clients_scope_binding ==
    Tool({"clients:read"}, resolve_client_id ** load_client_scope_lookup ** BothKinds)
clients_scope_ensure ==
    Tool({"clients:write"}, resolve_client_id ** resolve_scope_ids ** BothKinds **
        (Optional(apply_scope_mutation("PUT", DefaultScopes))
         \cup (Optional(apply_scope_mutation("DELETE", DefaultScopes))
               ** Optional(apply_scope_mutation("DELETE", OptionalScopes)))))

-----------------------------------------------------------------------------
(* client_scopes *)

client_scopes_list == Tool({"client-scopes:read"}, Once(GET(<<"client-scopes">>)))
(* Answers null when there is no such scope. *)
client_scopes_get ==
    [Tool({"client-scopes:read"}, NoRequest \cup (resolve_client_scope_id
         ** Once(GET(Scope))))
        EXCEPT !.missing = "success"]
client_scopes_create == Tool({"client-scopes:write"}, Once(POST(<<"client-scopes">>)))
client_scopes_delete ==
    Tool({"client-scopes:write"}, resolve_client_scope_id ** Once(DELETE(Scope)))
client_scopes_protocol_mappers_list ==
    Tool({"client-scopes:read"}, resolve_client_scope_id
         ** Once(GET(Scope \o Mappers)))
client_scopes_protocol_mappers_add ==
    Tool({"client-scopes:write"}, resolve_client_scope_id
         ** Once(POST(Scope \o Mappers)))
client_scopes_protocol_mappers_delete ==
    Tool({"client-scopes:write"}, resolve_client_scope_id
         ** Once(DELETE(Scope \o Mappers \o <<"mapper">>)))
client_scopes_scope_mappings_realm ==
    Tool({"client-scopes:read"}, resolve_client_scope_id
         ** Once(GET(Scope \o ScopeMappings)))
client_scopes_scope_mappings_realm_add ==
    Tool({"client-scopes:write"}, resolve_client_scope_id ** resolve_realm_roles
                                   ** Once(POST(Scope \o ScopeMappings)))
client_scopes_scope_mappings_realm_delete ==
    Tool({"client-scopes:write"}, resolve_client_scope_id ** resolve_realm_roles
                                   ** Once(DELETE(Scope \o ScopeMappings)))

-----------------------------------------------------------------------------
(* idp *)

identity_providers_list ==
    Tool({"idp:read"}, Once(GET(<<"identity-provider", "instances">>)))
identity_providers_get == Tool({"idp:read"}, Once(GET(Provider)))
identity_providers_create ==
    Tool({"idp:write"}, Once(POST(<<"identity-provider", "instances">>)))
identity_providers_delete == Tool({"idp:write"}, Once(DELETE(Provider)))
identity_provider_mappers_list ==
    Tool({"idp:read"}, Once(GET(Provider \o <<"mappers">>)))
identity_provider_mappers_add ==
    Tool({"idp:write"}, Once(POST(Provider \o <<"mappers">>)))
identity_provider_mappers_delete ==
    Tool({"idp:write"}, Once(DELETE(Provider \o <<"mappers", "mapper">>)))

-----------------------------------------------------------------------------
(* realms *)

realms_list ==
    Tool({"realm:read"}, Once([GET(<<>>) EXCEPT !.segments = <<"admin", "realms">>]))
realm_authentication_flows_list ==
    Tool({"realm:read"}, Once(GET(<<"authentication", "flows">>)))
realm_events_config_get == Tool({"realm:read"}, Once(GET(<<"events", "config">>)))
realm_events_config_set == Tool({"realm:write"}, Once(PUT(<<"events", "config">>)))
realm_keys_list == Tool({"realm:read"}, Once(GET(<<"keys">>)))
realm_smtp_test == Tool({"realm:write"}, Once(POST(<<"testSMTPConnection">>)))
client_registration_policy_providers_list ==
    Tool({"realm:read"}, Once(GET(<<"client-registration-policy", "providers">>)))
client_registration_policies_list ==
    Tool({"realm:read"}, Once([GET(<<"components">>) EXCEPT !.query = {"type"}]))
client_registration_policies_get ==
    Tool({"realm:read"}, configured_registration_policy_components)
client_registration_policies_create ==
    Tool({"realm:write"}, {<<Find(<<>>, {}), POST(<<"components">>)>>})
client_registration_policies_update ==
    Tool({"realm:write"}, configured_registration_policy_components
                           ** Once(PUT(<<"components", "component">>)))
client_registration_policies_delete ==
    Tool({"realm:write"}, configured_registration_policy_components
                           ** Once(DELETE(<<"components", "component">>)))
client_initial_access_list ==
    Tool({"realm:admin"}, Once(GET(<<"clients-initial-access">>)))
client_initial_access_create ==
    Tool({"realm:admin"}, Once(POST(<<"clients-initial-access">>)))
client_initial_access_delete ==
    Tool({"realm:admin"}, Once(DELETE(<<"clients-initial-access", "token">>)))
DefaultScopeKinds == {"default-default-client-scopes", "default-optional-client-scopes"}

realm_default_scopes_list ==
    Tool({"realm:admin"}, {<<GET(<<kind>>)>> : kind \in DefaultScopeKinds})
realm_default_scopes_add ==
    Tool({"realm:admin"}, resolve_client_scope_id
                          
                           ** {<<PUT(<<kind, "scope">>)>> : kind \in DefaultScopeKinds})
realm_default_scopes_remove ==
    Tool({"realm:admin"}, {<<DELETE(<<kind, "scope">>)>> : kind \in DefaultScopeKinds})

-----------------------------------------------------------------------------
(* events *)

events_list == Tool({"events:read"}, Once(GET(<<"events">>)))
admin_events_list == Tool({"events:read"}, Once(GET(<<"admin-events">>)))
events_clear == Confirmed(Tool({"events:admin"}, Once(DELETE(<<"events">>))))
admin_events_clear ==
    Confirmed(Tool({"events:admin"}, Once(DELETE(<<"admin-events">>))))

-----------------------------------------------------------------------------
(* observability: answered without the gateway *)

status_get == Tool({"observability:read"}, NoRequest)
metrics_get == Tool({"observability:read"}, NoRequest)
audit_list == Tool({"observability:read"}, NoRequest)
audit_checkpoint == Tool({"observability:read"}, NoRequest)

-----------------------------------------------------------------------------
(* KcAdminMcp::new: the routers of all tools. *)
Tools ==
    [users_list |-> users_list,
     users_get |-> users_get,
     users_create |-> users_create,
     users_delete |-> users_delete,
     users_groups_list |-> users_groups_list,
     users_groups_add |-> users_groups_add,
     users_groups_remove |-> users_groups_remove,
     users_role_mappings_realm |-> users_role_mappings_realm,
     users_role_mappings_clients |-> users_role_mappings_clients,
     users_consent_list |-> users_consent_list,
     users_sessions_list |-> users_sessions_list,
     users_sessions_logout |-> users_sessions_logout,
     users_reset_password |-> users_reset_password,
     users_required_actions_set |-> users_required_actions_set,
     groups_list |-> groups_list,
     groups_get |-> groups_get,
     groups_create |-> groups_create,
     groups_members_list |-> groups_members_list,
     groups_delete |-> groups_delete,
     groups_roles_realm |-> groups_roles_realm,
     groups_roles_clients |-> groups_roles_clients,
     groups_roles_realm_add |-> groups_roles_realm_add,
     groups_roles_client_add |-> groups_roles_client_add,
     groups_roles_realm_remove |-> groups_roles_realm_remove,
     groups_roles_client_remove |-> groups_roles_client_remove,
     roles_list |-> roles_list,
     roles_get |-> roles_get,
     roles_create |-> roles_create,
     roles_delete |-> roles_delete,
     roles_list_users |-> roles_list_users,
     roles_list_composites |-> roles_list_composites,
     roles_composites_add |-> roles_composites_add,
     roles_composites_remove |-> roles_composites_remove,
     clients_list |-> clients_list,
     clients_search |-> clients_search,
     clients_get |-> clients_get,
     clients_create |-> clients_create,
     clients_update |-> clients_update,
     clients_enable |-> clients_enable,
     clients_disable |-> clients_disable,
     clients_delete |-> clients_delete,
     clients_introspection_create |-> clients_introspection_create,
     clients_bulk_update |-> clients_bulk_update,
     clients_prune |-> clients_prune,
     clients_protocol_mappers_list |-> clients_protocol_mappers_list,
     clients_protocol_mappers_add |-> clients_protocol_mappers_add,
     clients_protocol_mappers_delete |-> clients_protocol_mappers_delete,
     clients_redirect_uris_update |-> clients_redirect_uris_update,
     clients_scope_mappings_realm |-> clients_scope_mappings_realm,
     clients_scope_mappings_client |-> clients_scope_mappings_client,
     clients_scope_mappings_realm_add |-> clients_scope_mappings_realm_add,
     clients_scope_mappings_client_add |-> clients_scope_mappings_client_add,
     clients_scope_mappings_realm_delete |-> clients_scope_mappings_realm_delete,
     clients_scope_mappings_client_delete |-> clients_scope_mappings_client_delete,
     clients_service_account_roles |-> clients_service_account_roles,
     clients_service_account_roles_realm_add |-> clients_service_account_roles_realm_add,
     clients_service_account_roles_client_add |-> clients_service_account_roles_client_add,
     clients_service_account_roles_realm_remove |-> clients_service_account_roles_realm_remove,
     clients_service_account_roles_client_remove |-> clients_service_account_roles_client_remove,
     clients_secrets_get |-> clients_secrets_get,
     clients_secrets_rotate |-> clients_secrets_rotate,
     clients_default_scopes |-> clients_default_scopes,
     clients_optional_scopes |-> clients_optional_scopes,
     clients_default_scopes_add |-> clients_default_scopes_add,
     clients_default_scopes_delete |-> clients_default_scopes_delete,
     clients_default_scopes_replace |-> clients_default_scopes_replace,
     clients_optional_scopes_add |-> clients_optional_scopes_add,
     clients_optional_scopes_delete |-> clients_optional_scopes_delete,
     clients_optional_scopes_replace |-> clients_optional_scopes_replace,
     clients_scope_binding |-> clients_scope_binding,
     clients_scope_ensure |-> clients_scope_ensure,
     client_scopes_list |-> client_scopes_list,
     client_scopes_get |-> client_scopes_get,
     client_scopes_create |-> client_scopes_create,
     client_scopes_delete |-> client_scopes_delete,
     client_scopes_protocol_mappers_list |-> client_scopes_protocol_mappers_list,
     client_scopes_protocol_mappers_add |-> client_scopes_protocol_mappers_add,
     client_scopes_protocol_mappers_delete |-> client_scopes_protocol_mappers_delete,
     client_scopes_scope_mappings_realm |-> client_scopes_scope_mappings_realm,
     client_scopes_scope_mappings_realm_add |-> client_scopes_scope_mappings_realm_add,
     client_scopes_scope_mappings_realm_delete |-> client_scopes_scope_mappings_realm_delete,
     identity_providers_list |-> identity_providers_list,
     identity_providers_get |-> identity_providers_get,
     identity_providers_create |-> identity_providers_create,
     identity_providers_delete |-> identity_providers_delete,
     identity_provider_mappers_list |-> identity_provider_mappers_list,
     identity_provider_mappers_add |-> identity_provider_mappers_add,
     identity_provider_mappers_delete |-> identity_provider_mappers_delete,
     realms_list |-> realms_list,
     realm_authentication_flows_list |-> realm_authentication_flows_list,
     realm_events_config_get |-> realm_events_config_get,
     realm_events_config_set |-> realm_events_config_set,
     realm_keys_list |-> realm_keys_list,
     realm_smtp_test |-> realm_smtp_test,
     client_registration_policy_providers_list |-> client_registration_policy_providers_list,
     client_registration_policies_list |-> client_registration_policies_list,
     client_registration_policies_get |-> client_registration_policies_get,
     client_registration_policies_create |-> client_registration_policies_create,
     client_registration_policies_update |-> client_registration_policies_update,
     client_registration_policies_delete |-> client_registration_policies_delete,
     client_initial_access_list |-> client_initial_access_list,
     client_initial_access_create |-> client_initial_access_create,
     client_initial_access_delete |-> client_initial_access_delete,
     realm_default_scopes_list |-> realm_default_scopes_list,
     realm_default_scopes_add |-> realm_default_scopes_add,
     realm_default_scopes_remove |-> realm_default_scopes_remove,
     events_list |-> events_list,
     admin_events_list |-> admin_events_list,
     events_clear |-> events_clear,
     admin_events_clear |-> admin_events_clear,
     status_get |-> status_get,
     metrics_get |-> metrics_get,
     audit_list |-> audit_list,
     audit_checkpoint |-> audit_checkpoint]
=============================================================================
