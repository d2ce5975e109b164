---------------------------- MODULE ScopePolicy -----------------------------
(***************************************************************************)
(* kc-admin-gateway/src/handlers.rs: the scopes a proxied request needs,   *)
(* worked out from its method, path and query.  A path is its sequence of  *)
(* segments, a query the set of its parameters' names, a scope the name    *)
(* that follows "keycloak-admin:".                                         *)
(***************************************************************************)
EXTENDS Naturals, Sequences

(* The segments after "admin", "realms" and the realm's name; none is <<>>. *)
ResourceIndex(segments) ==
    LET n == IF segments # <<>> /\ segments[1] = "admin" THEN 1 ELSE 0
    IN IF Len(segments) > n /\ segments[n + 1] = "realms" THEN n + 2 ELSE n
ResourceTail(segments) ==
    SubSeq(segments, ResourceIndex(segments) + 1, Len(segments))

(* The route families the gateway forwards; any other path is refused. *)
IsAllowlistedPath(segments) ==
    /\ Len(segments) >= 2
    /\ segments[1] = "admin"
    /\ \/ segments[2] = "realms"
       \/ Len(segments) = 2 /\ segments[2] \in {"serverinfo", "metrics"}

ScopeFamily(tail) ==
    LET resource == IF tail = <<>> THEN "" ELSE tail[1] IN
    CASE resource = "users"                     -> "users"
      [] resource = "groups"                    -> "groups"
      [] resource \in {"roles", "roles-by-id"}  -> "roles"
      [] resource = "clients"                   -> "clients"
      [] resource = "client-scopes"             -> "client-scopes"
      [] resource = "identity-provider"         -> "idp"
      [] resource = "events"                    -> "events"
      [] resource \in {"sessions", "user-sessions", "offline-sessions",
                       "client-session-stats"}  -> "tokens"
      [] resource \in {"attack-detection", "serverinfo", "metrics"}
                                                -> "observability"
      [] OTHER                                  -> "realm"

IsClientSecretTail(segments) ==                 \* mutant of IsClientSecretPath
    segments # <<>> /\ segments[Len(segments)] = "client-secret"
IsClientSecretPath(segments) ==
    \E i \in DOMAIN segments : segments[i] = "client-secret"

(* Candidates are sequences of scope sets, in order of preference. *)
Alternatives(scopes) == [i \in DOMAIN scopes |-> {scopes[i]}]

(* What a reader of each family needs, and a writer. *)
ReadScope(family)  == family \o ":read"
WriteScope(family) ==
    CASE family = "events" -> "events:admin"
      [] family = "tokens" -> "realm:admin"
      [] family = "observability" -> "observability:read"
      [] OTHER -> family \o ":write"

IsReadAny(method) == TRUE                                \* mutant of IsRead
IsRead(method) == method \in {"GET", "HEAD", "OPTIONS"}

(* The lookups by which a tool that writes resolves a name first. *)
IsRealmRoleLookup(tail)   == Len(tail) = 2 /\ tail[1] = "roles"
IsClientRoleLookup(tail)  == Len(tail) = 4 /\ tail[1] = "clients" /\ tail[3] = "roles"
IsClientLookup(tail)      == tail = <<"clients">>
IsClientScopeLookup(tail) == tail = <<"client-scopes">>

ClientReaders == <<"clients:read", "clients:write", "groups:write">>

LookupScopes(tail, query) ==
    CASE IsRealmRoleLookup(tail) ->
            <<"roles:read", "roles:write", "groups:write", "clients:write",
              "client-scopes:write">>
      [] IsClientRoleLookup(tail) -> ClientReaders
      [] IsClientLookup(tail) /\ "clientId" \in query -> ClientReaders
      [] IsClientScopeLookup(tail) ->
            <<"client-scopes:read", "client-scopes:write", "clients:write",
              "realm:admin">>
      [] OTHER -> <<>>

(* A family's own scope; the realm owns the configuration of its events. *)
FamilyScope(method, segments) ==
    LET tail   == ResourceTail(segments)
        family == IF tail = <<"events", "config">> THEN "realm" ELSE ScopeFamily(tail)
    IN IF family = "clients" /\ IsClientSecretPath(segments) THEN "clients:secrets"
       ELSE IF IsRead(method) THEN ReadScope(family)
       ELSE WriteScope(family)

ScopeCandidates(method, segments, query) ==
    LET tail   == ResourceTail(segments)
        lookup == IF method = "GET" THEN LookupScopes(tail, query) ELSE <<>>
    IN Alternatives(IF lookup # <<>> THEN lookup ELSE <<FamilyScope(method, segments)>>)

(* The first candidate the token holds, or the first one, to be refused. *)
SelectFirst(candidates, held) == candidates[1]  \* mutant of SelectScopeCandidate
SelectScopeCandidate(candidates, held) ==
    LET fits == {i \in DOMAIN candidates : candidates[i] \subseteq held}
    IN candidates[IF fits = {} THEN 1 ELSE CHOOSE i \in fits : \A j \in fits : i <= j]

RequiredScopes(method, segments, query, held) ==
    SelectScopeCandidate(ScopeCandidates(method, segments, query), held)
=============================================================================
