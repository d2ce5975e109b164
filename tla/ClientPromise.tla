--------------------------- MODULE ClientPromise ----------------------------
(***************************************************************************)
(* What the client tools promise of the clients at Keycloak: every change  *)
(* is one that a call was asked to make.  A call holds a licence from the  *)
(* moment it knows what to change; its licence only shrinks, and a call    *)
(* that told success keeps none but for what it reported as an error.      *)
(***************************************************************************)
EXTENDS ClientRegistry

CONSTANTS
    Caller,    \* calls
    Licences,  \* what calls may be asked to change: sets of powers
    Sweeps     \* <<change, exclude>>: to do with all that match at one moment

VARIABLE licence   \* what each call may change now

pvars == <<registry, licence>>

(* A power is <<client, change>>, of the client or of one of its bindings. *)
Use(x) ==
    \E p \in licence[x] :
        /\ CASE p[2][1] = "bind" -> /\ Put(p[1], <<p[2][2], p[2][3]>>)
                                    /\ UNCHANGED <<there, enabled, tagged>>
             [] p[2][1] = "unbind" -> /\ Delete(p[1], <<p[2][2], p[2][3]>>)
                                      /\ UNCHANGED <<there, enabled, tagged>>
             [] p[2][1] = "delete" -> DeleteClient(p[1])
             [] OTHER -> UpdateClient(p[1], p[2][1])
        /\ UNCHANGED licence

Swept(sweep) == {<<c, <<sweep[1]>>>> : c \in (there \cap tagged) \ sweep[2]}

Grant(x) ==
    /\ licence[x] = {}
    /\ \E P \in Licences \cup {Swept(w) : w \in Sweeps} :
           licence' = [licence EXCEPT ![x] = P]
    /\ UNCHANGED registry

Curtail(x) ==
    /\ licence'[x] \subseteq licence[x]
    /\ licence' = [licence EXCEPT ![x] = licence'[x]]
    /\ UNCHANGED registry

PromiseSpec ==
    /\ licence = [x \in Caller |-> {}]
    /\ [][\E x \in Caller : Use(x) \/ Grant(x) \/ Curtail(x)]_pvars
=============================================================================
