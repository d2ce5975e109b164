----------------------------- MODULE MCToolCalls -----------------------------
(* TLC instances of ToolCalls: the calls of the real tools. *)
EXTENDS ToolCalls, ToolTable

AllScopes == ReadScopes \cup WriteScopes

(* A call of every tool and plan, by a caller with the tool's own scopes   *)
(* and no other, with all scopes, with those that only read, or with all   *)
(* but the one for client secrets.                                         *)
CallsBy(names, holdings(_)) ==
    UNION {[tool : {name}, plan : Tools[name].plans, scopes : holdings(Tools[name].scopes),
            roles : {{}, {"viewer"}, {"editor"}}, confirmed : BOOLEAN] : name \in names}

Everyone(own)  == {own, AllScopes, ReadScopes, AllScopes \ {"clients:secrets"}}
Exactly(own)   == {own}

AllCalls   == CallsBy(DOMAIN Tools, Everyone)
ExactCalls == CallsBy(DOMAIN Tools, Exactly)
EventCalls == CallsBy({"admin_events_list"}, Exactly)

(* Both lists of roles, readers alone, and none: with secrets and without. *)
Deployments ==
    {[secrets |-> TRUE,  readRoles |-> {"viewer"}, writeRoles |-> {"editor"}],
     [secrets |-> TRUE,  readRoles |-> {"viewer"}, writeRoles |-> {}],
     [secrets |-> FALSE, readRoles |-> {},         writeRoles |-> {}]}
=============================================================================
