---------------------------- MODULE GatewayProxy ----------------------------
(***************************************************************************)
(* kc-admin-gateway: the pipeline every request to /admin goes through     *)
(* (edge.rs, then proxy_admin and handle_proxy of handlers.rs).  Handlers  *)
(* run concurrently; a step goes from one await to the next, and at an     *)
(* await the caller may disconnect, which drops the handler, a timeout may *)
(* strike, the break-glass TTL may run out and the process may end.        *)
(*                                                                         *)
(* Keycloak is external: its answers to introspection and exchange are     *)
(* any it may give, and a request it has been sent it carries out in its   *)
(* own time, even when nobody waits for it any longer.                     *)
(***************************************************************************)
EXTENDS ScopePolicy

CONSTANTS
    Requests,        \* the requests the gateway is sent
    Inputs,          \* what a request may carry: see AnInput
    AllowedAzp,      \* allowed_azp
    HasDeadline,     \* allow_open_azp_expires_at is set
    HashAudit,       \* audit_hash_identifiers
    HasSalt,         \* audit_hash_salt is set
    ExchangeEnabled, \* exchange_enabled
    MaxRestarts      \* bound: restarts of the process

(* A request, its token's claims and scopes among it. *)
AnInput(in) ==
    /\ in.bearer \in {"valid", "absent", "malformed"}
    /\ in.confusing \in BOOLEAN         \* its path has matrix parameters, "..", ...
    /\ in.oversized \in BOOLEAN         \* its body is over BODY_LIMIT_BYTES
    /\ in.expected \in BOOLEAN          \* the token's iss and aud are those configured
    /\ in.azp \in STRING                \* the token's azp, or client_id
    /\ in.scopes \in SUBSET STRING
    /\ in.method \in STRING /\ in.segments \in Seq(STRING) /\ in.query \in SUBSET STRING

ASSUME GatewayAssumption ==
    /\ \A in \in Inputs : AnInput(in)
    /\ {HasDeadline, HashAudit, HasSalt, ExchangeEnabled} \subseteq BOOLEAN
    /\ MaxRestarts \in Nat

VARIABLES
    input,     \* what each request carries
    pc,        \* where its handler is
    required,  \* the scopes it asks the exchange for, {} until it is admitted
    upstream,  \* what became of it at Keycloak's admin API
    answer,    \* the result of its handler
    audit,     \* the line audit_log_* wrote for it
    expired,   \* the break-glass deadline of this process has passed
    restarts   \* restarts so far

vars == <<input, pc, required, upstream, answer, audit, expired, restarts>>

Awaits == {"body", "introspect", "exchange", "send", "await"}

(* GatewayError, and the edge's refusal. *)
Errors == {"BadRequest", "MissingToken", "IntrospectionFailed", "TokenInactive",
           "Forbidden", "MissingScopes", "ExchangeFailed", "InvalidConfig", "Upstream"}

(* Keycloak carried it out, turned it down (4xx), or failed (5xx). *)
Outcomes == {"accepted", "rejected", "erred"}

Init ==
    /\ input \in [Requests -> Inputs]
    /\ pc = [r \in Requests |-> "new"]
    /\ required = [r \in Requests |-> {}]
    /\ upstream = [r \in Requests |-> "none"]
    /\ answer = [r \in Requests |-> "none"]
    /\ audit = [r \in Requests |-> "none"]
    /\ expired = FALSE
    /\ restarts = 0

-----------------------------------------------------------------------------
(* The HTTP status of a result: GatewayError::status_code, or Keycloak's. *)
StatusUpstreamAs403(result) ==                           \* mutant of Status
    IF result = "accepted" THEN 200 ELSE 403
Status(result) ==
    CASE result = "accepted" -> 200
      [] result = "BadRequest" -> 400
      [] result = "MissingToken" -> 401
      [] result \in {"TokenInactive", "Forbidden", "MissingScopes", "rejected"} -> 403
      [] result \in {"InvalidConfig", "erred"} -> 500
      [] result \in {"IntrospectionFailed", "ExchangeFailed", "Upstream"} -> 502
      [] OTHER -> 0

(* proxy_admin: the handler has its result, audits it and answers. *)
AuditLineOfEdge(result) ==                               \* mutant of AuditLine
    IF result = "accepted" THEN "succeeded"
    ELSE IF result = "BadRequest" THEN "bad request" ELSE "denied"
AuditLine(result) ==
    CASE result = "accepted" -> "succeeded"
      [] result \in {"rejected", "erred"} -> "upstream failed"
      [] result = "BadRequest" -> "none"           \* the edge audits nothing
      [] OTHER -> "denied"

Reply(r, result) ==
    /\ pc' = [pc EXCEPT ![r] = "done"]
    /\ answer' = [answer EXCEPT ![r] = result]
    /\ audit' = [audit EXCEPT ![r] = AuditLine(result)]

Goto(r, step) == pc' = [pc EXCEPT ![r] = step] /\ UNCHANGED <<answer, audit>>

(* edge_guard: a path that confuses, or an Authorization that is no bearer. *)
EdgeRefuses(in) == in.confusing \/ in.bearer = "malformed"

Receive(r) ==
    /\ pc[r] = "new"
    /\ IF EdgeRefuses(input[r]) THEN Reply(r, "BadRequest") ELSE Goto(r, "body")
    /\ UNCHANGED <<input, required, upstream, expired, restarts>>

(* The body has come, or broken off, or grown over the limit; then         *)
(* handle_proxy goes on to its next await.                                 *)
ReadBody(r) ==
    LET in == input[r] IN
    /\ pc[r] = "body"
    /\ \/ Reply(r, "Upstream")
       \/ ~in.oversized /\ in.bearer = "absent" /\ Reply(r, "MissingToken")
       \/ ~in.oversized /\ in.bearer # "absent" /\ Goto(r, "introspect")
    /\ UNCHANGED <<input, required, upstream, expired, restarts>>

-----------------------------------------------------------------------------
(* The checks on an introspected token, all at one instant. *)

NeverExpired == FALSE                                    \* mutant of BreakGlassExpired
BreakGlassExpired == AllowedAzp = {} /\ HasDeadline /\ expired

AzpAllowed(in) == AllowedAzp # {} => in.azp \in AllowedAzp

Required(in) == RequiredScopes(in.method, in.segments, in.query, in.scopes)

Unenforced(held, scopes) == TRUE                         \* mutant of EnforceScopes
EnforceScopes(held, scopes) == scopes \subseteq held

(* In their order, the checks and the error of the first to fail. *)
Denial(in) ==
    IF ~in.expected THEN "Forbidden"
    ELSE IF HashAudit /\ ~HasSalt THEN "InvalidConfig"
    ELSE IF BreakGlassExpired \/ ~AzpAllowed(in) THEN "Forbidden"
    ELSE IF ~IsAllowlistedPath(in.segments) THEN "Forbidden"
    ELSE IF ~EnforceScopes(in.scopes, Required(in)) THEN "MissingScopes"
    ELSE IF ~ExchangeEnabled THEN "InvalidConfig"
    ELSE "none"

(* Introspection ends: the token is refused, or checked. *)
Introspect(r) ==
    LET in == input[r] IN
    /\ pc[r] = "introspect"
    /\ \/ /\ \E err \in {"MissingToken", "TokenInactive", "Forbidden",
                         "IntrospectionFailed"} : Reply(r, err)
          /\ UNCHANGED required
       \/ /\ Denial(in) # "none"
          /\ Reply(r, Denial(in))
          /\ UNCHANGED required
       \/ /\ Denial(in) = "none"
          /\ required' = [required EXCEPT ![r] = Required(in)]
          /\ Goto(r, "exchange")
    /\ UNCHANGED <<input, upstream, expired, restarts>>

(* exchange_token and extract_access_token: the exchange cannot be had, or *)
(* is refused, or what it returns is no admin token; or the token is there.*)
Exchange(r) ==
    /\ pc[r] = "exchange"
    /\ \/ Reply(r, "Upstream")
       \/ Reply(r, "ExchangeFailed")
       \/ Goto(r, "send")
    /\ UNCHANGED <<input, required, upstream, expired, restarts>>

(* The request is on its way to Keycloak, or no connection can be made. *)
Send(r) ==
    /\ pc[r] = "send"
    /\ \/ /\ upstream' = [upstream EXCEPT ![r] = "sent"]
          /\ Goto(r, "await")
       \/ /\ Reply(r, "Upstream")
          /\ UNCHANGED upstream
    /\ UNCHANGED <<input, required, expired, restarts>>

(* Keycloak's answer, with its body, is passed on. *)
Respond(r) ==
    /\ pc[r] = "await"
    /\ upstream[r] \in Outcomes
    /\ Reply(r, upstream[r])
    /\ UNCHANGED <<input, required, upstream, expired, restarts>>

(* request_timeout strikes, or the connection or the body breaks off. *)
TimeoutOnBody(r) ==                                      \* mutant of Timeout
    /\ pc[r] = "await"
    /\ upstream[r] \in Outcomes
    /\ Reply(r, "Upstream")
    /\ UNCHANGED <<input, required, upstream, expired, restarts>>
Timeout(r) ==
    /\ pc[r] = "await"
    /\ Reply(r, "Upstream")
    /\ UNCHANGED <<input, required, upstream, expired, restarts>>

-----------------------------------------------------------------------------
(* External: Keycloak serves what it was sent, whoever still waits. *)
KeycloakServes(r) ==
    /\ upstream[r] = "sent"
    /\ \E outcome \in Outcomes : upstream' = [upstream EXCEPT ![r] = outcome]
    /\ UNCHANGED <<input, pc, required, answer, audit, expired, restarts>>

(* The caller closes its connection: the handler is dropped where it is. *)
Disconnect(r) ==
    /\ pc[r] \in Awaits
    /\ Goto(r, "gone")
    /\ UNCHANGED <<input, required, upstream, expired, restarts>>

(* The TTL of break-glass runs out. *)
Expire ==
    /\ HasDeadline /\ ~expired
    /\ expired' = TRUE
    /\ UNCHANGED <<input, pc, required, upstream, answer, audit, restarts>>

(* The process ends and starts again; ensure_azp_allowlist counts the TTL  *)
(* from this start.                                                        *)
Restart ==
    /\ restarts < MaxRestarts
    /\ restarts' = restarts + 1
    /\ expired' = FALSE
    /\ pc' = [r \in Requests |-> IF pc[r] \in Awaits THEN "gone" ELSE pc[r]]
    /\ UNCHANGED <<input, required, upstream, answer, audit>>

(* The handler of r goes on: behind introspection it waits for requests of *)
(* the client that build_client makes, and for nothing else.               *)
Proxies(r) == Exchange(r) \/ Send(r) \/ Respond(r) \/ Timeout(r)
Step(r) == ReadBody(r) \/ Introspect(r) \/ Proxies(r)

Next ==
    \/ \E r \in Requests :
          Receive(r) \/ Step(r) \/ KeycloakServes(r) \/ Disconnect(r)
    \/ Expire
    \/ Restart

Spec == Init /\ [][Next]_vars

(* build_client gives its requests a timeout, so every await behind        *)
(* introspection ends.  Nothing is assumed of Keycloak; nor of the caller, *)
(* whose body is awaited without a limit (handlers.rs 215); nor of the     *)
(* toolkit's authenticator, which introspects with a client of its own and *)
(* is given no timeout (main.rs 255-277).                                  *)
LiveSpec == Spec /\ \A r \in Requests : WF_vars(Proxies(r))

-----------------------------------------------------------------------------
(* Properties *)

(* Type correctness. *)
TypeOK ==
    /\ input \in [Requests -> Inputs]
    /\ pc \in [Requests -> {"new", "done", "gone"} \cup Awaits]
    /\ required \in [Requests -> SUBSET STRING]
    /\ upstream \in [Requests -> {"none", "sent"} \cup Outcomes]
    /\ answer \in [Requests -> {"none"} \cup Errors \cup Outcomes]
    /\ audit \in [Requests -> {"none", "succeeded", "upstream failed", "denied"}]
    /\ expired \in BOOLEAN
    /\ restarts \in Nat

Forwarded(r) == upstream[r] # "none"

(* Whatever reaches Keycloak's admin API does so on behalf of a token with *)
(* the expected issuer and audience, from an allowed client, on a path of  *)
(* the allowlist, and with scopes that token carries itself: the exchange  *)
(* widens nothing (handlers.rs:7-8, exchange.rs:42-46).                    *)
ForwardedIsEntitled ==
    \A r \in Requests : Forwarded(r) =>
        /\ input[r].expected
        /\ AllowedAzp # {} => input[r].azp \in AllowedAzp
        /\ IsAllowlistedPath(input[r].segments)
        /\ required[r] \subseteq input[r].scopes

(* An answer of class 4xx tells the caller that nothing was changed on its *)
(* behalf nor ever will be, one of class 2xx that it was: whatever was     *)
(* lost, timed out or went on at Keycloak meanwhile (errors.rs:52-63).     *)
StatusTellsEffect ==
    \A r \in Requests : pc[r] = "done" =>
        /\ Status(answer[r]) \in 400 .. 499 => upstream[r] \in {"none", "rejected"}
        /\ Status(answer[r]) \in 200 .. 299 => upstream[r] = "accepted"

(* Scopes that change something: a token without any of them can do no     *)
(* more than read through the gateway.  Routes of the observability family *)
(* have one scope for every method (handlers.rs:1080).                     *)
ChangingScopes ==
    {f \o ":write" : f \in {"users", "groups", "roles", "clients", "client-scopes",
                            "idp", "realm"}}
    \cup {"events:admin", "realm:admin", "clients:secrets"}

ReadersNeverWrite ==
    \A r \in Requests :
        /\ Forwarded(r) /\ input[r].method \notin {"GET", "HEAD", "OPTIONS"}
        /\ ScopeFamily(ResourceTail(input[r].segments)) # "observability"
        => input[r].scopes \cap ChangingScopes # {}

(* A client's secret is within reach of clients:secrets alone, through any *)
(* of its paths and methods (handlers.rs:1053-1055, 1118-1120).            *)
SecretsNeedTheirScope ==
    \A r \in Requests :
        LET tail == ResourceTail(input[r].segments) IN
        /\ Forwarded(r)
        /\ Len(tail) >= 3 /\ tail[1] = "clients" /\ tail[3] = "client-secret"
        => "clients:secrets" \in input[r].scopes

(* A caller is refused for its scopes only when it holds no set of them    *)
(* that would do, so that one who may write can look up what it writes to  *)
(* (handlers.rs:1085-1095).                                                *)
NoSpuriousRefusal ==
    \A r \in Requests : answer[r] = "MissingScopes" =>
        LET in == input[r]
            candidates == ScopeCandidates(in.method, in.segments, in.query)
        IN \A i \in DOMAIN candidates : ~(candidates[i] \subseteq in.scopes)

(* handlers.rs:8: every request is audited, those that reached Keycloak    *)
(* among them, once their handler has ended.                               *)
EveryForwardedIsAudited ==
    \A r \in Requests : Forwarded(r) /\ pc[r] \in {"done", "gone"} => audit[r] # "none"

(* Every request that was admitted is answered, or nobody waits for it any *)
(* longer, though Keycloak may answer none of what it is asked for it      *)
(* (http.rs 11, 28-33).  Before that the handler waits for its caller and  *)
(* for the authenticator, as long as those please.                         *)
EveryRequestEnds ==
    \A r \in Requests : pc[r] \in Awaits /\ required[r] # {} ~> pc[r] \in {"done", "gone"}

(* The gateway implements the gate its callers are promised. *)
Fate(r) ==
    CASE upstream[r] = "sent" -> "forwarded"
      [] upstream[r] \in {"accepted", "erred"} -> "done"
      [] upstream[r] = "rejected" -> "declined"
      [] upstream[r] = "none" /\ required[r] # {} -> "admitted"
      [] OTHER -> "new"

Told(r) ==
    CASE Status(answer[r]) \in 200 .. 299 -> "served"
      [] Status(answer[r]) \in 400 .. 499 -> "refused"
      [] Status(answer[r]) >= 500 -> "failed"
      [] OTHER -> "nothing"

Gate == INSTANCE AdminGate WITH
            open <- ~(AllowedAzp = {} /\ HasDeadline /\ expired),
            fate <- [r \in Requests |-> Fate(r)],
            told <- [r \in Requests |-> Told(r)],
            process <- restarts
GateSpec == Gate!GateSpec
=============================================================================
