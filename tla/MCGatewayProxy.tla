--------------------------- MODULE MCGatewayProxy ---------------------------
(* TLC instances of GatewayProxy. *)
EXTENDS GatewayProxy, TLC

CONSTANTS r1, r2

Symmetry == Permutations(Requests)

(* A request nothing is wrong with. *)
Sound ==
    [bearer |-> "valid", confusing |-> FALSE, oversized |-> FALSE, expected |-> TRUE,
     azp |-> "mcp", scopes |-> {"users:write"}, method |-> "PUT",
     segments |-> <<"admin", "realms", "main", "users", "u1">>, query |-> {}]

(* The one request, and those with one thing wrong with them. *)
Flawed ==
    {Sound,
     [Sound EXCEPT !.bearer = "absent"],
     [Sound EXCEPT !.bearer = "malformed"],
     [Sound EXCEPT !.confusing = TRUE],
     [Sound EXCEPT !.oversized = TRUE],
     [Sound EXCEPT !.expected = FALSE],
     [Sound EXCEPT !.azp = "other"],
     [Sound EXCEPT !.scopes = {"users:read"}],
     [Sound EXCEPT !.segments = <<"admin", "master", "console">>]}

Realm(tail) == <<"admin", "realms", "main">> \o tail

(* A path or more of every route family, the lookups' exact shapes and     *)
(* their neighbours.                                                       *)
Paths ==
    {<<"admin">>, <<"admin", "realms">>, <<"admin", "serverinfo">>,
     <<"admin", "metrics">>, <<"admin", "serverinfo", "x">>}
    \cup {Realm(tail) : tail \in
     {<<>>, <<"users">>, <<"users", "x">>, <<"groups", "x">>, <<"roles">>,
      <<"roles", "x">>, <<"roles", "x", "composites">>, <<"roles-by-id", "x">>,
      <<"clients">>, <<"clients", "x">>, <<"clients", "x", "roles">>,
      <<"clients", "x", "roles", "x">>, <<"clients", "x", "client-secret">>,
      <<"clients", "x", "client-secret", "rotated">>, <<"client-scopes">>,
      <<"client-scopes", "x">>, <<"identity-provider", "instances", "x">>,
      <<"events">>, <<"events", "config">>, <<"sessions", "x">>,
      <<"client-session-stats">>, <<"attack-detection", "brute-force", "users", "x">>,
      <<"admin-events">>}}

AllScopes ==
    ChangingScopes \cup {f \o ":read" : f \in {"users", "groups", "roles", "clients",
        "client-scopes", "idp", "realm", "events", "tokens", "observability"}}

Routes ==
    {[Sound EXCEPT !.scopes = held, !.method = method, !.segments = path, !.query = query] :
        held \in {{scope} : scope \in AllScopes}
                 \cup {{"clients:read", "groups:write"}, {"users:read", "users:write"}, {}},
        method \in {"GET", "HEAD", "POST", "PUT", "DELETE"},
        path \in Paths,
        query \in {{}, {"clientId"}, {"search"}}}
    \cup Flawed
=============================================================================
