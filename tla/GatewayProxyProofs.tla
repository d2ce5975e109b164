------------------------- MODULE GatewayProxyProofs -------------------------
(* Theorems about GatewayProxy, for every number of requests, whatever     *)
(* they carry, and every configuration.                                    *)
EXTENDS GatewayProxy, ScopePolicyProofs, TLAPS

-----------------------------------------------------------------------------
(* The inductive invariant *)

(* Errors of class 4xx: none is given to a request that was forwarded. *)
Refusals == {"BadRequest", "MissingToken", "TokenInactive", "Forbidden", "MissingScopes"}

Checked(in, scopes) ==
    /\ in.expected
    /\ AllowedAzp # {} => in.azp \in AllowedAzp
    /\ IsAllowlistedPath(in.segments)
    /\ scopes \subseteq in.scopes
    /\ scopes # {}

(* What is known of a request wherever its handler is. *)
Phase(r) ==
    /\ pc[r] \in {"new", "body", "introspect"} => required[r] = {}
    /\ pc[r] \in {"new", "body", "introspect", "exchange", "send"} => upstream[r] = "none"
    /\ pc[r] = "await" => Forwarded(r)
    /\ required[r] # {} => Checked(input[r], required[r])
    /\ pc[r] \in {"exchange", "send"} \/ Forwarded(r) => required[r] # {}
    /\ pc[r] # "done" => answer[r] = "none"
    /\ pc[r] = "done" =>
          /\ answer[r] # "none"
          /\ answer[r] \in Outcomes => upstream[r] = answer[r]
          /\ answer[r] \in Refusals => upstream[r] = "none"

Inv == TypeOK /\ \A r \in Requests : Phase(r)

LEMMA InitInv == Init => Inv
<1> SUFFICES ASSUME Init PROVE Inv
    OBVIOUS
<1> USE DEF Init
<1>1. TypeOK
    BY GatewayAssumption DEF TypeOK, Awaits, Outcomes, Errors
<1>2. ASSUME NEW r \in Requests PROVE Phase(r)
    BY DEF Phase, Forwarded
<1> QED BY <1>1, <1>2 DEF Inv

(* A token that passes the checks asks the exchange for scopes of its own. *)
LEMMA UndeniedIsChecked ==
    ASSUME NEW in \in Inputs, Denial(in) = "none"
    PROVE  Checked(in, Required(in)) /\ Required(in) \in SUBSET STRING
<1>1. Required(in) # {}
    BY SomeScopeRequired DEF Required
<1>2. /\ in.expected
      /\ AllowedAzp # {} => in.azp \in AllowedAzp
      /\ IsAllowlistedPath(in.segments)
      /\ Required(in) \subseteq in.scopes
    BY DEF Denial, AzpAllowed, EnforceScopes
<1>3. in.scopes \in SUBSET STRING
    BY GatewayAssumption DEF GatewayAssumption, AnInput
<1> QED BY <1>1, <1>2, <1>3 DEF Checked

LEMMA DenialType ==
    ASSUME NEW in
    PROVE  Denial(in) \in {"none", "Forbidden", "InvalidConfig", "MissingScopes"}
BY DEF Denial

(* What Reply and Goto do to the functions they assign. *)
LEMMA AuditType ==
    ASSUME NEW result
    PROVE  AuditLine(result) \in {"none", "succeeded", "upstream failed", "denied"}
BY DEF AuditLine

LEMMA ReplyType ==
    ASSUME TypeOK, NEW r \in Requests, NEW result \in Errors \cup Outcomes,
           Reply(r, result), UNCHANGED <<input, required, upstream, expired, restarts>>
    PROVE  TypeOK'
BY AuditType DEF TypeOK, Reply

LEMMA GotoType ==
    ASSUME TypeOK, NEW r \in Requests,
           NEW step \in {"new", "done", "gone"} \cup Awaits,
           Goto(r, step)
    PROVE  /\ pc' \in [Requests -> {"new", "done", "gone"} \cup Awaits]
           /\ answer' = answer /\ audit' = audit
BY DEF TypeOK, Goto

LEMMA TypeStep == ASSUME Inv, [Next]_vars PROVE TypeOK'
<1> USE DEF Inv
<1>1. ASSUME NEW r \in Requests, Receive(r) PROVE TypeOK'
    <2>1. CASE EdgeRefuses(input[r])
        BY <1>1, <2>1, ReplyType DEF Receive, Errors
    <2>2. CASE ~EdgeRefuses(input[r])
        BY <1>1, <2>2, GotoType DEF Receive, TypeOK, Awaits
    <2> QED BY <2>1, <2>2
<1>b. ASSUME NEW r \in Requests, ReadBody(r) PROVE TypeOK'
    <2>1. CASE Reply(r, "Upstream") \/ Reply(r, "MissingToken")
        BY <1>b, <2>1, ReplyType DEF ReadBody, Errors
    <2>2. CASE Goto(r, "introspect")
        BY <1>b, <2>2, GotoType DEF ReadBody, TypeOK, Awaits
    <2> QED BY <1>b, <2>1, <2>2 DEF ReadBody
<1>2. ASSUME NEW r \in Requests, Introspect(r) PROVE TypeOK'
    <2>1. CASE \E err \in {"MissingToken", "TokenInactive", "Forbidden",
                            "IntrospectionFailed"} : Reply(r, err) /\ UNCHANGED required
        BY <1>2, <2>1, ReplyType DEF Introspect, Errors
    <2>2. CASE Denial(input[r]) # "none" /\ Reply(r, Denial(input[r])) /\ UNCHANGED required
        <3>1. Denial(input[r]) \in Errors
            BY <2>2, DenialType DEF Errors
        <3> QED BY <1>2, <2>2, <3>1, ReplyType DEF Introspect
    <2>3. CASE /\ Denial(input[r]) = "none"
               /\ required' = [required EXCEPT ![r] = Required(input[r])]
               /\ Goto(r, "exchange")
        <3>1. Required(input[r]) \in SUBSET STRING
            BY <2>3, UndeniedIsChecked DEF TypeOK
        <3>2. required' \in [Requests -> SUBSET STRING]
            BY <2>3, <3>1 DEF TypeOK
        <3>3. "exchange" \in Awaits
            BY DEF Awaits
        <3>4. pc' \in [Requests -> {"new", "done", "gone"} \cup Awaits]
              /\ answer' = answer /\ audit' = audit
            BY <2>3, <3>3, GotoType
        <3> QED BY <1>2, <3>2, <3>4 DEF TypeOK, Introspect
    <2> QED BY <1>2, <2>1, <2>2, <2>3 DEF Introspect
<1>3. ASSUME NEW r \in Requests, Exchange(r) PROVE TypeOK'
    <2>1. CASE Reply(r, "Upstream") \/ Reply(r, "ExchangeFailed")
        BY <1>3, <2>1, ReplyType DEF Exchange, Errors
    <2>2. CASE Goto(r, "send")
        BY <1>3, <2>2, GotoType DEF Exchange, TypeOK, Awaits
    <2> QED BY <1>3, <2>1, <2>2 DEF Exchange
<1>4. ASSUME NEW r \in Requests, Send(r) PROVE TypeOK'
    <2>1. CASE Reply(r, "Upstream") /\ UNCHANGED upstream
        BY <1>4, <2>1, ReplyType DEF Send, Errors
    <2>2. CASE upstream' = [upstream EXCEPT ![r] = "sent"] /\ Goto(r, "await")
        BY <1>4, <2>2, GotoType DEF Send, TypeOK, Awaits
    <2> QED BY <1>4, <2>1, <2>2 DEF Send
<1>5. ASSUME NEW r \in Requests, Respond(r) PROVE TypeOK'
    BY <1>5, ReplyType DEF Respond
<1>6. ASSUME NEW r \in Requests, Timeout(r) PROVE TypeOK'
    BY <1>6, ReplyType DEF Timeout, Errors
<1>7. ASSUME NEW r \in Requests, KeycloakServes(r) PROVE TypeOK'
    BY <1>7 DEF KeycloakServes, TypeOK
<1>8. ASSUME NEW r \in Requests, Disconnect(r) PROVE TypeOK'
    BY <1>8, GotoType DEF Disconnect, TypeOK
<1>9. CASE Expire
    BY <1>9 DEF Expire, TypeOK
<1>10. CASE Restart
    <2>1. pc' \in [Requests -> {"new", "done", "gone"} \cup Awaits]
        BY <1>10 DEF Restart, TypeOK
    <2>2. restarts' \in Nat
        <3>1. restarts \in Nat /\ restarts' = restarts + 1
            BY <1>10 DEF Restart, TypeOK
        <3> QED BY <3>1
    <2>3. expired' \in BOOLEAN
        BY <1>10 DEF Restart
    <2>4. UNCHANGED <<input, required, upstream, answer, audit>>
        BY <1>10 DEF Restart
    <2> QED BY <2>1, <2>2, <2>3, <2>4 DEF TypeOK
<1>11. CASE UNCHANGED vars
    BY <1>11 DEF vars, TypeOK
<1> QED BY <1>1, <1>b, <1>2, <1>3, <1>4, <1>5, <1>6, <1>7, <1>8, <1>9, <1>10, <1>11
        DEF Next, Step, Proxies

(* A request none of whose entries change keeps its phase. *)
LEMMA PhaseFrame ==
    ASSUME Inv, NEW q \in Requests, input' = input,
           pc'[q] = pc[q], required'[q] = required[q], upstream'[q] = upstream[q],
           answer'[q] = answer[q]
    PROVE  Phase(q)'
BY DEF Inv, Phase, Forwarded, Checked

LEMMA ReplyPhase ==
    ASSUME Inv, NEW r \in Requests, NEW result \in Errors \cup Outcomes,
           Reply(r, result), UNCHANGED <<input, required, upstream>>,
           result \in Outcomes => upstream[r] = result,
           result \in Refusals => upstream[r] = "none"
    PROVE  \A q \in Requests : Phase(q)'
<1>1. Phase(r)'
    <2>1. pc'[r] = "done" /\ answer'[r] = result
        BY DEF Reply, Inv, TypeOK
    <2>2. result # "none"
        BY DEF Errors, Outcomes
    <2>3. Phase(r)
        BY DEF Inv
    <2> QED BY <2>1, <2>2, <2>3 DEF Phase, Forwarded, Checked
<1>2. ASSUME NEW q \in Requests, q # r PROVE Phase(q)'
    <2>1. pc'[q] = pc[q] /\ answer'[q] = answer[q]
        BY <1>2 DEF Reply, Inv, TypeOK
    <2> QED BY <2>1, PhaseFrame
<1> QED BY <1>1, <1>2

(* A handler that goes on to another step; its scopes or its request's     *)
(* state at Keycloak may be new.                                           *)
LEMMA GotoPhase ==
    ASSUME Inv, NEW r \in Requests, NEW step, Goto(r, step), input' = input,
           \A q \in Requests \ {r} : /\ required'[q] = required[q]
                                    /\ upstream'[q] = upstream[q],
           pc[r] # "done",
           step # "done",
           step \in {"new", "body", "introspect"} => required'[r] = {},
           step \in {"new", "body", "introspect", "exchange", "send"} => upstream'[r] = "none",
           step = "await" => upstream'[r] # "none",
           step \in {"exchange", "send"} \/ upstream'[r] # "none" => required'[r] # {},
           required'[r] # {} => Checked(input[r], required'[r])
    PROVE  \A q \in Requests : Phase(q)'
<1>1. Phase(r)'
    <2>1. pc'[r] = step /\ answer'[r] = "none"
        BY DEF Goto, Inv, TypeOK, Phase
    <2> QED BY <2>1 DEF Phase, Forwarded, Checked
<1>2. ASSUME NEW q \in Requests, q # r PROVE Phase(q)'
    <2>1. pc'[q] = pc[q] /\ answer'[q] = answer[q]
        BY <1>2 DEF Goto, Inv, TypeOK
    <2> QED BY <1>2, <2>1, PhaseFrame
<1> QED BY <1>1, <1>2

LEMMA PhaseStep == ASSUME Inv, [Next]_vars PROVE \A q \in Requests : Phase(q)'
<1>0. \A r \in Requests : Phase(r)
    BY DEF Inv
<1>1. ASSUME NEW r \in Requests, Receive(r) PROVE \A q \in Requests : Phase(q)'
    <2>0. /\ pc[r] = "new" /\ required[r] = {} /\ upstream[r] = "none"
          /\ UNCHANGED <<input, required, upstream>>
        BY <1>0, <1>1 DEF Receive, Phase
    <2>1. CASE Goto(r, "body")
        BY <2>0, <2>1, GotoPhase
    <2>2. CASE Reply(r, "BadRequest")
        BY <2>0, <2>2, ReplyPhase DEF Errors, Outcomes
    <2> QED BY <1>1, <2>1, <2>2 DEF Receive
<1>b. ASSUME NEW r \in Requests, ReadBody(r) PROVE \A q \in Requests : Phase(q)'
    <2>0. /\ pc[r] = "body" /\ required[r] = {} /\ upstream[r] = "none"
          /\ UNCHANGED <<input, required, upstream>>
        BY <1>0, <1>b DEF ReadBody, Phase
    <2>1. CASE Goto(r, "introspect")
        BY <2>0, <2>1, GotoPhase
    <2>2. CASE Reply(r, "Upstream") \/ Reply(r, "MissingToken")
        BY <2>0, <2>2, ReplyPhase DEF Errors, Outcomes
    <2> QED BY <1>b, <2>1, <2>2 DEF ReadBody
<1>2. ASSUME NEW r \in Requests, Introspect(r) PROVE \A q \in Requests : Phase(q)'
    <2>0. /\ pc[r] = "introspect" /\ required[r] = {} /\ upstream[r] = "none"
          /\ UNCHANGED <<input, upstream>>
        BY <1>0, <1>2 DEF Introspect, Phase
    <2>1. ASSUME NEW err \in Errors, Reply(r, err), UNCHANGED required
          PROVE  \A q \in Requests : Phase(q)'
        <3>1. err \notin Outcomes
            BY DEF Errors, Outcomes
        <3> QED BY <2>0, <2>1, <3>1, ReplyPhase
    <2>2. CASE \E err \in {"MissingToken", "TokenInactive", "Forbidden",
                            "IntrospectionFailed"} : Reply(r, err) /\ UNCHANGED required
        BY <2>1, <2>2 DEF Errors
    <2>3. CASE Denial(input[r]) # "none" /\ Reply(r, Denial(input[r])) /\ UNCHANGED required
        <3>1. Denial(input[r]) \in Errors
            BY <2>3, DenialType DEF Errors
        <3> QED BY <2>1, <2>3, <3>1
    <2>4. CASE /\ Denial(input[r]) = "none"
               /\ required' = [required EXCEPT ![r] = Required(input[r])]
               /\ Goto(r, "exchange")
        <3>1. Checked(input[r], Required(input[r]))
            BY <2>4, UndeniedIsChecked DEF Inv, TypeOK
        <3>2. /\ required'[r] = Required(input[r])
              /\ \A q \in Requests \ {r} : required'[q] = required[q]
            BY <2>4 DEF Inv, TypeOK
        <3>3. required'[r] # {}
            BY <3>1, <3>2 DEF Checked
        <3> QED BY <2>0, <2>4, <3>1, <3>2, <3>3, GotoPhase
    <2> QED BY <1>2, <2>2, <2>3, <2>4 DEF Introspect
<1>3. ASSUME NEW r \in Requests, Exchange(r) PROVE \A q \in Requests : Phase(q)'
    <2>0. /\ pc[r] = "exchange" /\ required[r] # {} /\ upstream[r] = "none"
          /\ Checked(input[r], required[r])
          /\ UNCHANGED <<input, required, upstream>>
        BY <1>0, <1>3 DEF Exchange, Phase
    <2>1. CASE Reply(r, "Upstream") \/ Reply(r, "ExchangeFailed")
        BY <2>0, <2>1, ReplyPhase DEF Errors, Outcomes
    <2>2. CASE Goto(r, "send")
        BY <2>0, <2>2, GotoPhase
    <2> QED BY <1>3, <2>1, <2>2 DEF Exchange
<1>4. ASSUME NEW r \in Requests, Send(r) PROVE \A q \in Requests : Phase(q)'
    <2>0. /\ pc[r] = "send" /\ required[r] # {} /\ upstream[r] = "none"
          /\ Checked(input[r], required[r])
          /\ UNCHANGED <<input, required>>
        BY <1>0, <1>4 DEF Send, Phase
    <2>1. CASE Reply(r, "Upstream") /\ UNCHANGED upstream
        BY <2>0, <2>1, ReplyPhase DEF Errors, Outcomes
    <2>2. CASE upstream' = [upstream EXCEPT ![r] = "sent"] /\ Goto(r, "await")
        <3>1. /\ upstream'[r] = "sent"
              /\ \A q \in Requests \ {r} : upstream'[q] = upstream[q]
            BY <2>2 DEF Inv, TypeOK
        <3> QED BY <2>0, <2>2, <3>1, GotoPhase
    <2> QED BY <1>4, <2>1, <2>2 DEF Send
<1>5. ASSUME NEW r \in Requests, Respond(r) PROVE \A q \in Requests : Phase(q)'
    <2>1. upstream[r] \in Outcomes /\ upstream[r] \notin Refusals
        BY <1>5 DEF Respond, Outcomes, Refusals
    <2> QED BY <1>5, <2>1, ReplyPhase DEF Respond
<1>6. ASSUME NEW r \in Requests, Timeout(r) PROVE \A q \in Requests : Phase(q)'
    <2>1. "Upstream" \in Errors /\ "Upstream" \notin Outcomes /\ "Upstream" \notin Refusals
        BY DEF Errors, Outcomes, Refusals
    <2> QED BY <1>6, <2>1, ReplyPhase DEF Timeout
<1>7. ASSUME NEW r \in Requests, KeycloakServes(r) PROVE \A q \in Requests : Phase(q)'
    <2>1. PICK outcome \in Outcomes : upstream' = [upstream EXCEPT ![r] = outcome]
        BY <1>7 DEF KeycloakServes
    <2>2. /\ upstream[r] = "sent" /\ upstream'[r] = outcome
          /\ \A q \in Requests \ {r} : upstream'[q] = upstream[q]
          /\ UNCHANGED <<input, pc, required, answer>>
        BY <1>7, <2>1 DEF KeycloakServes, Inv, TypeOK
    <2>3. Phase(r)'
        <3>1. outcome # "none" /\ "sent" \notin Outcomes
            BY DEF Outcomes
        <3> QED BY <1>0, <2>2, <3>1 DEF Phase, Forwarded, Checked
    <2>4. ASSUME NEW q \in Requests, q # r PROVE Phase(q)'
        BY <2>2, <2>4, PhaseFrame
    <2> QED BY <2>3, <2>4
<1>8. ASSUME NEW r \in Requests, Disconnect(r) PROVE \A q \in Requests : Phase(q)'
    <2>1. /\ pc[r] \in Awaits /\ pc[r] # "done" /\ Goto(r, "gone")
          /\ UNCHANGED <<input, required, upstream>>
        BY <1>8 DEF Disconnect, Awaits
    <2>2. /\ required[r] # {} => Checked(input[r], required[r])
          /\ upstream[r] # "none" => required[r] # {}
        BY <1>0 DEF Phase, Forwarded
    <2> QED BY <2>1, <2>2, GotoPhase
<1>9. CASE Expire
    BY <1>9, PhaseFrame DEF Expire
<1>10. CASE Restart
    <2> SUFFICES ASSUME NEW q \in Requests PROVE Phase(q)'
        OBVIOUS
    <2>1. /\ UNCHANGED <<input, required, upstream, answer>>
          /\ pc'[q] = IF pc[q] \in Awaits THEN "gone" ELSE pc[q]
        BY <1>10 DEF Restart
    <2>2. CASE pc[q] \in Awaits
        <3>1. pc'[q] = "gone" /\ pc[q] # "done"
            BY <2>1, <2>2 DEF Awaits
        <3> QED BY <1>0, <2>1, <3>1 DEF Phase, Forwarded, Checked
    <2>3. CASE pc[q] \notin Awaits
        BY <2>1, <2>3, PhaseFrame
    <2> QED BY <2>2, <2>3
<1>11. CASE UNCHANGED vars
    BY <1>11, PhaseFrame DEF vars
<1> QED BY <1>1, <1>b, <1>2, <1>3, <1>4, <1>5, <1>6, <1>7, <1>8, <1>9, <1>10, <1>11
        DEF Next, Step, Proxies

LEMMA InvStep == Inv /\ [Next]_vars => Inv'
BY TypeStep, PhaseStep DEF Inv

THEOREM InvHolds == Spec => []Inv
BY InitInv, InvStep, PTL DEF Spec

-----------------------------------------------------------------------------
(* The properties *)

(* Type correctness. *)
THEOREM TypeCorrect == Spec => []TypeOK
<1>1. Inv => TypeOK
    BY DEF Inv
<1> QED BY <1>1, InvHolds, PTL

(* Nothing reaches Keycloak's admin API but on behalf of a caller that is  *)
(* entitled to it, with scopes of its own (handlers.rs:297-488).           *)
THEOREM EntitledOnly == Spec => []ForwardedIsEntitled
<1>1. Inv => ForwardedIsEntitled
    BY DEF Inv, Phase, Checked, ForwardedIsEntitled
<1> QED BY <1>1, InvHolds, PTL

(* The class of the status a request is answered with. *)
LEMMA StatusClass ==
    ASSUME NEW result
    PROVE  /\ Status(result) \in Nat
           /\ Status(result) \in 400 .. 499 => result \in Refusals \cup {"rejected"}
           /\ Status(result) \in 200 .. 299 => result = "accepted"
BY DEF Status, Refusals

(* A 4xx means that nothing was changed, a 2xx that it was, in spite of    *)
(* timeouts, disconnections and restarts (errors.rs:52-63).                *)
THEOREM StatusTruthful == Spec => []StatusTellsEffect
<1>1. Inv => StatusTellsEffect
    BY StatusClass DEF Inv, Phase, StatusTellsEffect, Outcomes
<1> QED BY <1>1, InvHolds, PTL

-----------------------------------------------------------------------------
(* The gate *)

(* Entries that stay make fates and tales that stay. *)
LEMMA FateFrame ==
    ASSUME NEW q, upstream'[q] = upstream[q], required'[q] = required[q]
    PROVE  Fate(q)' = Fate(q)
BY DEF Fate

LEMMA ToldFrame ==
    ASSUME NEW q, answer'[q] = answer[q]
    PROVE  Told(q)' = Told(q)
BY DEF Told, Status

LEMMA StillGate ==
    ASSUME UNCHANGED <<required, upstream, answer, expired, restarts>>
    PROVE  UNCHANGED Gate!gateVars
<1>1. [q \in Requests |-> Fate(q)]' = [q \in Requests |-> Fate(q)]
    BY FateFrame
<1>2. [q \in Requests |-> Told(q)]' = [q \in Requests |-> Told(q)]
    BY ToldFrame
<1> QED BY <1>1, <1>2 DEF Gate!gateVars

(* A step that changes nothing but the fate of r. *)
LEMMA BecomeStep ==
    ASSUME NEW r \in Requests, NEW from, NEW to,
           UNCHANGED <<answer, expired, restarts>>,
           \A q \in Requests \ {r} : /\ required'[q] = required[q]
                                    /\ upstream'[q] = upstream[q],
           Fate(r) = from, Fate(r)' = to
    PROVE  Gate!Become(r, from, to)
<1>1. [q \in Requests |-> Told(q)]' = [q \in Requests |-> Told(q)]
    BY ToldFrame
<1>2. \A q \in Requests \ {r} : Fate(q)' = Fate(q)
    BY FateFrame
<1>3. [q \in Requests |-> Fate(q)]'
        = [[q \in Requests |-> Fate(q)] EXCEPT ![r] = to]
    BY <1>2
<1> QED BY <1>1, <1>3 DEF Gate!Become

(* A request without an answer has been told nothing. *)
LEMMA Untold ==
    ASSUME NEW r, answer[r] = "none"
    PROVE  Told(r) = "nothing"
BY DEF Told, Status

LEMMA ReplyGate ==
    ASSUME Inv, NEW r \in Requests, NEW result \in Errors \cup Outcomes,
           Reply(r, result), UNCHANGED <<required, upstream, expired, restarts>>,
           pc[r] # "done",
           result \in Outcomes => upstream[r] = result,
           result \in Refusals => upstream[r] = "none"
    PROVE  Gate!Tell(r)
<1>1. answer[r] = "none" /\ answer'[r] = result
    BY DEF Inv, Phase, Reply, TypeOK
<1>2. Told(r) = "nothing"
    BY <1>1, Untold
<1>3. \A q \in Requests \ {r} : Told(q)' = Told(q)
    <2>1. \A q \in Requests \ {r} : answer'[q] = answer[q]
        BY DEF Reply, Inv, TypeOK
    <2> QED BY <2>1, ToldFrame
<1>4. [q \in Requests |-> Told(q)]'
        = [[q \in Requests |-> Told(q)] EXCEPT ![r] = Told(r)']
    BY <1>3
<1>5. [q \in Requests |-> Fate(q)]' = [q \in Requests |-> Fate(q)]
    BY FateFrame
<1>6. Told(r)' \in {"refused", "failed", "served"}
    BY <1>1 DEF Told, Status, Errors, Outcomes
<1>7. Told(r)' = "refused" => Fate(r) \in {"new", "admitted", "declined"}
    <2>1. Told(r)' = "refused" => Status(result) \in 400 .. 499
        BY <1>1 DEF Told
    <2>2. Told(r)' = "refused" => upstream[r] \in {"none", "rejected"}
        BY <2>1, StatusClass DEF Outcomes
    <2> QED BY <2>2 DEF Fate
<1>8. Told(r)' = "served" => Fate(r) = "done"
    <2>1. Told(r)' = "served" => Status(result) \in 200 .. 299
        BY <1>1 DEF Told
    <2>2. Told(r)' = "served" => upstream[r] = "accepted"
        BY <2>1, StatusClass DEF Outcomes
    <2> QED BY <2>2 DEF Fate
<1>9. Gate!Truthful(r, Told(r)')
    BY <1>6, <1>7, <1>8 DEF Gate!Truthful
<1>10. Told(r)' \in Gate!Tales
    BY <1>6 DEF Gate!Tales
<1>11. [q \in Requests |-> Told(q)][r] = "nothing"
    BY <1>2
<1> QED BY <1>4, <1>5, <1>9, <1>10, <1>11 DEF Gate!Tell

LEMMA GateInitially == Init => Gate!GateInit
<1> SUFFICES ASSUME Init PROVE Gate!GateInit
    OBVIOUS
<1>1. \A r \in Requests : Fate(r) = "new" /\ Told(r) = "nothing"
    BY Untold DEF Init, Fate
<1>2. (~(AllowedAzp = {} /\ HasDeadline /\ expired)) = TRUE
    BY DEF Init
<1>3. restarts = 0
    BY DEF Init
<1> QED BY <1>1, <1>2, <1>3 DEF Gate!GateInit

LEMMA GateStep ==
    ASSUME Inv, [Next]_vars
    PROVE  [Gate!GateNext]_(Gate!gateVars)
<1>0. \A r \in Requests : Phase(r)
    BY DEF Inv
<1>a. \A r \in Requests : Gate!Tell(r) \/ Gate!Admit(r) \/ Gate!Forward(r)
                            \/ Gate!CarryOut(r) \/ Gate!Decline(r)
        => Gate!GateNext
    BY DEF Gate!GateNext
<1>b. \A r \in Requests : [q \in Requests |-> Told(q)][r] = Told(r)
    OBVIOUS
<1>1. ASSUME NEW r \in Requests, Receive(r)
      PROVE  [Gate!GateNext]_(Gate!gateVars)
    <2>0. /\ pc[r] = "new" /\ upstream[r] = "none"
          /\ UNCHANGED <<input, required, upstream, expired, restarts>>
        BY <1>0, <1>1 DEF Receive, Phase
    <2>1. CASE Goto(r, "body")
        BY <2>0, <2>1, StillGate DEF Goto
    <2>2. CASE Reply(r, "BadRequest")
        <3>1. Gate!Tell(r)
            BY <2>0, <2>2, ReplyGate DEF Errors, Outcomes
        <3> QED BY <1>a, <3>1
    <2> QED BY <1>1, <2>1, <2>2 DEF Receive
<1>d. ASSUME NEW r \in Requests, ReadBody(r)
      PROVE  [Gate!GateNext]_(Gate!gateVars)
    <2>0. /\ pc[r] = "body" /\ upstream[r] = "none"
          /\ UNCHANGED <<input, required, upstream, expired, restarts>>
        BY <1>0, <1>d DEF ReadBody, Phase
    <2>1. CASE Goto(r, "introspect")
        BY <2>0, <2>1, StillGate DEF Goto
    <2>2. CASE Reply(r, "Upstream") \/ Reply(r, "MissingToken")
        <3>1. Gate!Tell(r)
            BY <2>0, <2>2, ReplyGate DEF Errors, Outcomes
        <3> QED BY <1>a, <3>1
    <2> QED BY <1>d, <2>1, <2>2 DEF ReadBody
<1>2. ASSUME NEW r \in Requests, Introspect(r)
      PROVE  [Gate!GateNext]_(Gate!gateVars)
    <2>0. /\ pc[r] = "introspect" /\ required[r] = {} /\ upstream[r] = "none"
          /\ answer[r] = "none"
          /\ UNCHANGED <<input, upstream, expired, restarts>>
        BY <1>0, <1>2 DEF Introspect, Phase
    <2>1. ASSUME NEW err \in Errors, Reply(r, err), UNCHANGED required
          PROVE  Gate!Tell(r)
        <3>1. err \notin Outcomes
            BY DEF Errors, Outcomes
        <3> QED BY <2>0, <2>1, <3>1, ReplyGate
    <2>2. CASE \E err \in {"MissingToken", "TokenInactive", "Forbidden",
                            "IntrospectionFailed"} : Reply(r, err) /\ UNCHANGED required
        <3>1. Gate!Tell(r)
            BY <2>1, <2>2 DEF Errors
        <3> QED BY <1>a, <3>1
    <2>3. CASE Denial(input[r]) # "none" /\ Reply(r, Denial(input[r])) /\ UNCHANGED required
        <3>1. Denial(input[r]) \in Errors
            BY <2>3, DenialType DEF Errors
        <3>2. Gate!Tell(r)
            BY <2>1, <2>3, <3>1
        <3> QED BY <1>a, <3>2
    <2>4. CASE /\ Denial(input[r]) = "none"
               /\ required' = [required EXCEPT ![r] = Required(input[r])]
               /\ Goto(r, "exchange")
        <3>1. Required(input[r]) # {}
            BY <2>4, UndeniedIsChecked DEF Checked, Inv, TypeOK
        <3>2. /\ required'[r] # {}
              /\ \A q \in Requests \ {r} : required'[q] = required[q]
            BY <2>4, <3>1 DEF Inv, TypeOK
        <3>3. Fate(r) = "new" /\ Fate(r)' = "admitted"
            BY <2>0, <3>2 DEF Fate
        <3>4. Gate!Become(r, "new", "admitted")
            BY <2>0, <2>4, <3>2, <3>3, BecomeStep DEF Goto
        <3>5. ~(AllowedAzp = {} /\ HasDeadline /\ expired)
            BY <2>4 DEF Denial, BreakGlassExpired
        <3>6. Told(r) = "nothing"
            BY <2>0, Untold
        <3>7. Gate!Admit(r)
            BY <1>b, <3>4, <3>5, <3>6 DEF Gate!Admit
        <3> QED BY <1>a, <3>7
    <2> QED BY <1>2, <2>2, <2>3, <2>4 DEF Introspect
<1>3. ASSUME NEW r \in Requests, Exchange(r)
      PROVE  [Gate!GateNext]_(Gate!gateVars)
    <2>0. /\ pc[r] = "exchange" /\ upstream[r] = "none"
          /\ UNCHANGED <<input, required, upstream, expired, restarts>>
        BY <1>0, <1>3 DEF Exchange, Phase
    <2>1. CASE Reply(r, "Upstream") \/ Reply(r, "ExchangeFailed")
        <3>1. Gate!Tell(r)
            BY <2>0, <2>1, ReplyGate DEF Errors, Outcomes
        <3> QED BY <1>a, <3>1
    <2>2. CASE Goto(r, "send")
        BY <2>0, <2>2, StillGate DEF Goto
    <2> QED BY <1>3, <2>1, <2>2 DEF Exchange
<1>4. ASSUME NEW r \in Requests, Send(r)
      PROVE  [Gate!GateNext]_(Gate!gateVars)
    <2>0. /\ pc[r] = "send" /\ required[r] # {} /\ upstream[r] = "none"
          /\ answer[r] = "none"
          /\ UNCHANGED <<input, required, expired, restarts>>
        BY <1>0, <1>4 DEF Send, Phase
    <2>1. CASE Reply(r, "Upstream") /\ UNCHANGED upstream
        <3>1. Gate!Tell(r)
            BY <2>0, <2>1, ReplyGate DEF Errors, Outcomes
        <3> QED BY <1>a, <3>1
    <2>2. CASE upstream' = [upstream EXCEPT ![r] = "sent"] /\ Goto(r, "await")
        <3>1. /\ upstream'[r] = "sent"
              /\ \A q \in Requests \ {r} : upstream'[q] = upstream[q]
            BY <2>2 DEF Inv, TypeOK
        <3>2. Fate(r) = "admitted" /\ Fate(r)' = "forwarded"
            BY <2>0, <3>1 DEF Fate
        <3>3. Gate!Become(r, "admitted", "forwarded")
            BY <2>0, <2>2, <3>1, <3>2, BecomeStep DEF Goto
        <3>4. Told(r) = "nothing"
            BY <2>0, Untold
        <3>5. Gate!Forward(r)
            BY <1>b, <3>3, <3>4 DEF Gate!Forward
        <3> QED BY <1>a, <3>5
    <2> QED BY <1>4, <2>1, <2>2 DEF Send
<1>5. ASSUME NEW r \in Requests, Respond(r)
      PROVE  [Gate!GateNext]_(Gate!gateVars)
    <2>1. /\ upstream[r] \in Outcomes /\ upstream[r] \notin Refusals /\ pc[r] = "await"
          /\ Reply(r, upstream[r]) /\ UNCHANGED <<input, required, upstream, expired, restarts>>
        BY <1>5 DEF Respond, Outcomes, Refusals
    <2>2. Gate!Tell(r)
        BY <2>1, ReplyGate
    <2> QED BY <1>a, <2>2
<1>6. ASSUME NEW r \in Requests, Timeout(r)
      PROVE  [Gate!GateNext]_(Gate!gateVars)
    <2>1. "Upstream" \in Errors /\ "Upstream" \notin Outcomes /\ "Upstream" \notin Refusals
        BY DEF Errors, Outcomes, Refusals
    <2>2. Gate!Tell(r)
        BY <1>6, <2>1, ReplyGate DEF Timeout
    <2> QED BY <1>a, <2>2
<1>7. ASSUME NEW r \in Requests, KeycloakServes(r)
      PROVE  [Gate!GateNext]_(Gate!gateVars)
    <2>1. PICK outcome \in Outcomes : upstream' = [upstream EXCEPT ![r] = outcome]
        BY <1>7 DEF KeycloakServes
    <2>2. /\ upstream[r] = "sent" /\ upstream'[r] = outcome
          /\ \A q \in Requests \ {r} : upstream'[q] = upstream[q]
          /\ UNCHANGED <<required, answer, expired, restarts>>
        BY <1>7, <2>1 DEF KeycloakServes, Inv, TypeOK
    <2>3. Fate(r) = "forwarded" /\ Fate(r)' \in {"done", "declined"}
        BY <2>2 DEF Fate, Outcomes
    <2>4. Gate!Become(r, "forwarded", Fate(r)')
        BY <2>2, <2>3, BecomeStep
    <2>5. Gate!CarryOut(r) \/ Gate!Decline(r)
        BY <2>3, <2>4 DEF Gate!CarryOut, Gate!Decline
    <2> QED BY <1>a, <2>5
<1>8. ASSUME NEW r \in Requests, Disconnect(r)
      PROVE  [Gate!GateNext]_(Gate!gateVars)
    BY <1>8, StillGate DEF Disconnect, Goto
<1>c. ASSUME UNCHANGED <<required, upstream, answer>>
      PROVE  UNCHANGED <<[q \in Requests |-> Fate(q)], [q \in Requests |-> Told(q)]>>
    BY <1>c, FateFrame, ToldFrame
<1>9. CASE Expire
    <2>1. UNCHANGED <<[q \in Requests |-> Fate(q)], [q \in Requests |-> Told(q)]>>
        BY <1>9, <1>c DEF Expire
    <2>2. ~expired /\ expired' = TRUE /\ HasDeadline /\ restarts' = restarts
        BY <1>9 DEF Expire
    <2>3. CASE AllowedAzp = {}
        BY <2>1, <2>2, <2>3 DEF Gate!GateNext, Gate!Close
    <2>4. CASE AllowedAzp # {}
        BY <2>1, <2>2, <2>4 DEF Gate!gateVars
    <2> QED BY <2>3, <2>4
<1>10. CASE Restart
    <2>1. UNCHANGED <<[q \in Requests |-> Fate(q)], [q \in Requests |-> Told(q)]>>
        BY <1>10, <1>c DEF Restart
    <2>2. restarts' = restarts + 1 /\ expired' = FALSE
        BY <1>10 DEF Restart
    <2> QED BY <2>1, <2>2 DEF Gate!GateNext, Gate!Renew
<1>11. CASE UNCHANGED vars
    BY <1>11, StillGate DEF vars
<1> QED BY <1>1, <1>d, <1>2, <1>3, <1>4, <1>5, <1>6, <1>7, <1>8, <1>9, <1>10, <1>11
        DEF Next, Step, Proxies

(* The gateway implements the gate: no request is forwarded but once, none *)
(* is admitted once break-glass has run out until a new process starts,    *)
(* and no answer contradicts what became of the request.                   *)
THEOREM ImplementsGate == Spec => GateSpec
<1>1. Init => Gate!GateInit
    BY GateInitially
<1>2. Inv /\ [Next]_vars => [Gate!GateNext]_(Gate!gateVars)
    BY GateStep
<1> QED BY <1>1, <1>2, InvHolds, PTL DEF Spec, GateSpec, Gate!GateSpec

-----------------------------------------------------------------------------
(* What the policy asks of readers, writers and for secrets *)

(* The scopes a request is judged by are those of its own path, and one    *)
(* that was refused for its scopes did not hold them.                      *)
Judged(r) ==
    /\ required[r] # {} => /\ required[r] = Required(input[r])
                           /\ Required(input[r]) \subseteq input[r].scopes
    /\ answer[r] = "MissingScopes" => ~(Required(input[r]) \subseteq input[r].scopes)

LEMMA JudgedFrame ==
    ASSUME Inv, NEW q \in Requests, Judged(q), input' = input,
           required'[q] = required[q], answer'[q] = answer[q]
    PROVE  Judged(q)'
BY DEF Judged, Required

LEMMA ReplyJudged ==
    ASSUME Inv, \A q \in Requests : Judged(q), NEW r \in Requests, NEW result,
           Reply(r, result), UNCHANGED <<input, required>>,
           result = "MissingScopes" => ~(Required(input[r]) \subseteq input[r].scopes)
    PROVE  \A q \in Requests : Judged(q)'
<1>1. Judged(r)'
    <2>1. answer'[r] = result
        BY DEF Reply, Inv, TypeOK
    <2> QED BY <2>1 DEF Judged, Required
<1>2. ASSUME NEW q \in Requests, q # r PROVE Judged(q)'
    <2>1. answer'[q] = answer[q]
        BY <1>2 DEF Reply, Inv, TypeOK
    <2> QED BY <2>1, JudgedFrame
<1> QED BY <1>1, <1>2

LEMMA JudgedStep ==
    ASSUME Inv, \A q \in Requests : Judged(q), [Next]_vars
    PROVE  \A q \in Requests : Judged(q)'
<1>1. ASSUME UNCHANGED <<input, required, answer>> PROVE \A q \in Requests : Judged(q)'
    BY <1>1, JudgedFrame
<1>2. ASSUME NEW r \in Requests, Receive(r) PROVE \A q \in Requests : Judged(q)'
    BY <1>1, <1>2, ReplyJudged DEF Receive, Goto
<1>b. ASSUME NEW r \in Requests, ReadBody(r) PROVE \A q \in Requests : Judged(q)'
    BY <1>1, <1>b, ReplyJudged DEF ReadBody, Goto
<1>3. ASSUME NEW r \in Requests, Introspect(r) PROVE \A q \in Requests : Judged(q)'
    <2>1. CASE \E err \in {"MissingToken", "TokenInactive", "Forbidden",
                            "IntrospectionFailed"} : Reply(r, err) /\ UNCHANGED required
        BY <1>3, <2>1, ReplyJudged DEF Introspect
    <2>2. CASE Reply(r, Denial(input[r])) /\ UNCHANGED required
        <3>1. Denial(input[r]) = "MissingScopes"
                  => ~(Required(input[r]) \subseteq input[r].scopes)
            BY DEF Denial, EnforceScopes
        <3> QED BY <1>3, <2>2, <3>1, ReplyJudged DEF Introspect
    <2>3. CASE /\ Denial(input[r]) = "none"
               /\ required' = [required EXCEPT ![r] = Required(input[r])]
               /\ Goto(r, "exchange")
        <3>1. Required(input[r]) \subseteq input[r].scopes
            BY <2>3 DEF Denial, EnforceScopes
        <3>2. required'[r] = Required(input[r]) /\ answer' = answer /\ input' = input
            BY <1>3, <2>3 DEF Goto, Introspect, Inv, TypeOK
        <3>3. answer[r] # "MissingScopes"
            BY <1>3 DEF Inv, Phase, Introspect
        <3>4. Judged(r)'
            BY <3>1, <3>2, <3>3 DEF Judged, Required
        <3>5. ASSUME NEW q \in Requests, q # r PROVE Judged(q)'
            <4>1. required'[q] = required[q]
                BY <2>3, <3>5 DEF Inv, TypeOK
            <4> QED BY <3>2, <4>1, JudgedFrame
        <3> QED BY <3>4, <3>5
    <2> QED BY <1>3, <2>1, <2>2, <2>3 DEF Introspect
<1>4. ASSUME NEW r \in Requests, Exchange(r) \/ Send(r) \/ Timeout(r)
      PROVE \A q \in Requests : Judged(q)'
    BY <1>1, <1>4, ReplyJudged DEF Exchange, Send, Timeout, Goto
<1>5. ASSUME NEW r \in Requests, Respond(r) PROVE \A q \in Requests : Judged(q)'
    BY <1>5, ReplyJudged DEF Respond, Outcomes
<1>6. ASSUME NEW r \in Requests, KeycloakServes(r) \/ Disconnect(r)
      PROVE \A q \in Requests : Judged(q)'
    BY <1>1, <1>6 DEF KeycloakServes, Disconnect, Goto
<1>7. CASE Expire \/ Restart \/ UNCHANGED vars
    BY <1>1, <1>7 DEF Expire, Restart, vars
<1> QED BY <1>2, <1>b, <1>3, <1>4, <1>5, <1>6, <1>7 DEF Next, Step, Proxies

JudgedInv == Inv /\ \A q \in Requests : Judged(q)

LEMMA AllJudged == Spec => []JudgedInv
<1>1. Init => JudgedInv
    BY InitInv DEF Init, Judged, JudgedInv
<1>2. JudgedInv /\ [Next]_vars => JudgedInv'
    BY JudgedStep, InvStep DEF JudgedInv
<1> QED BY <1>1, <1>2, PTL DEF Spec

(* What a method that is not a reader's asks for changes something. *)
LEMMA WritersScope ==
    ASSUME NEW method, NEW segments, ~IsRead(method),
           ScopeFamily(ResourceTail(segments)) # "observability"
    PROVE  FamilyScope(method, segments) \in ChangingScopes
<1> DEFINE tail == ResourceTail(segments)
           family == IF tail = <<"events", "config">> THEN "realm" ELSE ScopeFamily(tail)
<1>1. ScopeFamily(tail) \in {"users", "groups", "roles", "clients", "client-scopes", "idp",
                             "events", "tokens", "observability", "realm"}
    BY DEF ScopeFamily
<1>2. family \in {"users", "groups", "roles", "clients", "client-scopes", "idp", "events",
                  "tokens", "realm"}
    BY <1>1
<1>3. \/ FamilyScope(method, segments) = "clients:secrets"
      \/ FamilyScope(method, segments) = WriteScope(family)
    BY DEF FamilyScope
<1> HIDE DEF family
<1>4. CASE family \in {"events", "tokens"}
    BY <1>3, <1>4 DEF WriteScope, ChangingScopes
<1>5. CASE family \notin {"events", "tokens"}
    BY <1>2, <1>3, <1>5 DEF WriteScope, ChangingScopes
<1> QED BY <1>4, <1>5

LEMMA ForwardedByItsScopes ==
    ASSUME Inv, NEW r \in Requests, Judged(r), Forwarded(r)
    PROVE  Required(input[r]) \subseteq input[r].scopes
BY DEF Inv, Phase, Judged

(* A token without any scope that changes something does no more than read *)
(* (handlers.rs 1053-1080), for all paths and queries.                     *)
THEOREM ReadersOnlyRead == Spec => []ReadersNeverWrite
<1>1. JudgedInv => ReadersNeverWrite
    <2> SUFFICES ASSUME Inv, NEW r \in Requests, Judged(r), Forwarded(r),
                        input[r].method \notin {"GET", "HEAD", "OPTIONS"},
                        ScopeFamily(ResourceTail(input[r].segments)) # "observability"
                 PROVE  input[r].scopes \cap ChangingScopes # {}
        BY DEF ReadersNeverWrite, JudgedInv
    <2> DEFINE f == FamilyScope(input[r].method, input[r].segments)
    <2>1. f \in ChangingScopes
        BY WritersScope DEF IsRead
    <2>2. Required(input[r]) = {f}
        BY AsksFamilyScope DEF Required
    <2> QED BY <2>1, <2>2, ForwardedByItsScopes
<1> QED BY <1>1, AllJudged, PTL

(* A client's secret needs clients:secrets (handlers.rs 1053-1055), for    *)
(* all paths, methods and queries.                                         *)
THEOREM SecretsKept == Spec => []SecretsNeedTheirScope
<1>1. JudgedInv => SecretsNeedTheirScope
    <2> DEFINE tail(r) == ResourceTail(input[r].segments)
    <2> SUFFICES ASSUME Inv, NEW r \in Requests, Judged(r), Forwarded(r),
                        Len(tail(r)) >= 3, tail(r)[1] = "clients", tail(r)[3] = "client-secret"
                 PROVE  "clients:secrets" \in input[r].scopes
        BY DEF SecretsNeedTheirScope, JudgedInv
    <2> DEFINE s == input[r].segments
    <2>1. s \in Seq(STRING)
        BY GatewayAssumption DEF Inv, TypeOK, AnInput
    <2>2. tail(r) \in Seq(STRING) /\ \E i \in DOMAIN s : s[i] = tail(r)[3]
        <3> DEFINE n == ResourceIndex(s)
        <3>1. n \in Nat
            BY <2>1 DEF ResourceIndex
        <3>2. tail(r) = SubSeq(s, n + 1, Len(s))
            BY DEF ResourceTail
        <3> HIDE DEF n
        <3>3. /\ Len(s) \in Nat /\ DOMAIN s = 1 .. Len(s)
            BY <2>1
        <3>4. n + 3 <= Len(s)
            BY <2>1, <3>1, <3>2, <3>3
        <3>5. tail(r)[3] = s[n + 3]
            BY <2>1, <3>1, <3>2, <3>3, <3>4
        <3>6. n + 3 \in DOMAIN s
            BY <3>1, <3>3, <3>4
        <3>7. tail(r) \in Seq(STRING)
            BY <2>1, <3>1, <3>2, <3>3, <3>4
        <3> QED BY <3>5, <3>6, <3>7
    <2>3. tail(r) # <<"events", "config">> /\ tail(r) # <<"clients">> /\ tail(r) # << >>
          /\ tail(r) # <<"client-scopes">>
        BY <2>2
    <2>4. LookupScopes(tail(r), input[r].query) = << >>
        BY <2>2, <2>3 DEF LookupScopes, IsRealmRoleLookup, IsClientRoleLookup, IsClientLookup,
                          IsClientScopeLookup
    <2>5. ScopeFamily(tail(r)) = "clients"
        BY <2>3 DEF ScopeFamily
    <2>6. FamilyScope(input[r].method, s) = "clients:secrets"
        BY <2>2, <2>3, <2>5 DEF FamilyScope, IsClientSecretPath
    <2>7. Required(input[r]) = {"clients:secrets"}
        BY <2>4, <2>6, AsksFamilyScope DEF Required
    <2> QED BY <2>7, ForwardedByItsScopes
<1> QED BY <1>1, AllJudged, PTL

(* A caller is refused for its scopes only when none of the acceptable     *)
(* ones is held (handlers.rs 1085-1095).                                   *)
THEOREM RefusedRightly == Spec => []NoSpuriousRefusal
<1>1. JudgedInv => NoSpuriousRefusal
    BY HeldIsChosen DEF JudgedInv, Judged, NoSpuriousRefusal, Required
<1> QED BY <1>1, AllJudged, PTL
=============================================================================
