--------------------------- MODULE ClientRegistry ---------------------------
(***************************************************************************)
(* The clients of a realm at Keycloak, as far as the client tools that     *)
(* read, choose and then write in several requests depend on them.         *)
(* External: what the tools' requests do to it is taken from how           *)
(* tools/clients uses them, a request Keycloak accepts doing what it asks. *)
(***************************************************************************)
EXTENDS FiniteSets, Integers

CONSTANTS
    Client,  \* ids clients may have
    Scope    \* ids of the realm's client scopes

Kind == {"default", "optional"}              \* ScopeKind
Bindings == [Kind -> SUBSET Scope]
Unbound == [k \in Kind |-> {}]

VARIABLES
    there,    \* the clients that exist
    enabled,  \* those that are enabled
    tagged,   \* those a prune's filter matches, by their name
    bound     \* the scopes bound to each client

registry == <<there, enabled, tagged, bound>>

RegistryTypeOK ==
    /\ there \subseteq Client /\ enabled \subseteq Client /\ tagged \subseteq Client
    /\ bound \in [Client -> Bindings]

(* PUT, DELETE .../{default,optional}-client-scopes/{scope} *)
Put(c, edge) ==
    bound' = [bound EXCEPT ![c] = [bound[c] EXCEPT ![edge[1]] = @ \cup {edge[2]}]]
Delete(c, edge) ==
    bound' = [bound EXCEPT ![c] = [bound[c] EXCEPT ![edge[1]] = @ \ {edge[2]}]]

(* DELETE .../clients/{id}: the client goes with all that is bound to it. *)
DeleteClient(c) ==
    /\ there' = there \ {c} /\ enabled' = enabled \ {c} /\ tagged' = tagged \ {c}
    /\ bound' = [bound EXCEPT ![c] = Unbound]

(* PUT .../clients/{id} with only the fields to change. *)
UpdateClient(c, change) ==
    /\ enabled' = CASE change = "disable" -> enabled \ {c}
                    [] change = "enable" -> enabled \cup {c}
                    [] OTHER -> enabled
    /\ tagged' = CASE change = "tag" -> tagged \cup {c}
                   [] change = "untag" -> tagged \ {c}
                   [] OTHER -> tagged
    /\ UNCHANGED <<there, bound>>
=============================================================================
