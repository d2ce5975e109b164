--------------------------- MODULE ToolCallsProofs ---------------------------
(***************************************************************************)
(* What holds of ToolCalls for every table of tools, call and deployment.  *)
(*                                                                         *)
(* The requests of a plan before the one the handler is at are done, save  *)
(* those whose failure is tolerated, and those after it have not been      *)
(* sent: SuccessIsComplete alone is not inductive, for it says nothing of  *)
(* a call that is under way.                                               *)
(***************************************************************************)
EXTENDS ToolCalls, ScopePolicyProofs, TLAPS

Strict(i) == call.plan[i].tolerates = {}

(* Nothing beyond the request the handler is at has been sent. *)
NothingAhead ==
    \A i \in DOMAIN fates :
        i > at \/ (i = at /\ pc \in {"called", "ready"}) => fates[i] = "none"

(* All behind it is done, where it had to be. *)
DoneBehind == \A i \in DOMAIN fates : i < at /\ Strict(i) => fates[i] = "done"

(* A success is told at the end of the plan, or by a tool that only reads. *)
SuccessAtEnd ==
    outcome = "success" => at > Len(call.plan) \/ \A i \in DOMAIN fates : ~Writes(i)

Ended == outcome # "none" => pc = "done"

AskingInPlan == pc = "asked" => at <= Len(call.plan)

Inv == TypeOK /\ AskingInPlan /\ NothingAhead /\ DoneBehind /\ SuccessAtEnd /\ Ended

-----------------------------------------------------------------------------
(* What the assumption says of the call at hand. *)
LEMMA CallFacts ==
    ASSUME TypeOK
    PROVE  /\ call.plan \in Seq(ARequest)
           /\ DOMAIN call.plan = 1 .. Len(call.plan)
           /\ Len(call.plan) \in Nat
           /\ DOMAIN fates = 1 .. Len(call.plan)
           /\ \A i \in DOMAIN call.plan :
                 /\ call.plan[i] \in ARequest
                 /\ call.plan[i].skips \in Nat
                 /\ i + call.plan[i].skips <= Len(call.plan)
                 /\ \A k \in i + 1 .. i + call.plan[i].skips : ~Strict(k)
           /\ tool.missing \in {"missing", "success"}
           /\ tool.missing = "success" => \A i \in DOMAIN call.plan : ~Writes(i)
           /\ \A i \in DOMAIN call.plan :
                 /\ Writes(i) /\ tool.gated => tool.scopes \cap WriteScopes # {}
                 /\ IsClientSecretPath(call.plan[i].segments) =>
                       tool.gated /\ tool.secret /\ "clients:secrets" \in tool.scopes
<1>1. ACall(call)  BY ToolAssumption DEF TypeOK
<1>2. call.plan \in Seq(ARequest) /\ DOMAIN fates = DOMAIN call.plan
      BY <1>1 DEF ACall, TypeOK
<1>3. DOMAIN call.plan = 1 .. Len(call.plan) /\ Len(call.plan) \in Nat
      BY <1>2
<1>4. \A i \in DOMAIN call.plan : call.plan[i] \in ARequest
      BY <1>2, <1>3
<1>5. \A r \in ARequest : r.skips \in Nat  BY DEF ARequest
<1>. QED  BY <1>1, <1>2, <1>3, <1>4, <1>5 DEF ACall, Strict, Writes, tool

(* The cursor of a list read by pages stays within its integer's width.    *)
LEMMA StartsAtFirstPage == 0 \in Cursor
BY PageAssumption DEF Cursor

LEMMA NextPageIsOne == \A n \in Cursor : NextFirst(n) \in Cursor
BY PageAssumption DEF Cursor, NextFirst

(* A failure ends the call, or the handler goes on behind what is left out.*)
LEMMA FailPreserves ==
    ASSUME Inv, NEW failure, NEW ending \in {"refused", "failed", "missing", "success"},
           pc \in {"ready", "asked"}, at <= Len(call.plan), Fail(failure, ending),
           UNCHANGED <<config, call, fates>>,
           ending = "success" => \A i \in DOMAIN call.plan : ~Writes(i)
    PROVE  Inv'
<1>. USE DEF Inv
<1>1. at \in DOMAIN call.plan
      BY CallFacts DEF TypeOK
<1>2. CASE failure \in request.tolerates
  <2>1. at' = at + 1 + request.skips /\ pc' = "ready" /\ outcome' = outcome /\ first' = 0
        BY <1>2 DEF Fail
  <2>2. request.skips \in Nat /\ at + request.skips <= Len(call.plan) /\ at \in Nat
        BY <1>1, CallFacts DEF request, TypeOK
  <2>3. TypeOK'
        BY <2>1, <2>2, CallFacts, StartsAtFirstPage DEF TypeOK
  <2>4. outcome = "none"  BY DEF Ended
  <2>5. NothingAhead'
        BY <2>1, <2>2, CallFacts DEF NothingAhead
  <2>6. ASSUME NEW i \in DOMAIN fates, i < at', Strict(i)
        PROVE  fates[i] = "done"
    <3>1. CASE i < at  BY <3>1, <2>6 DEF DoneBehind
    <3>2. i # at  BY <1>2, <2>6 DEF request, Strict
    <3>3. CASE i > at
      <4>1. i \in at + 1 .. at + request.skips  BY <3>3, <2>1, <2>2, <2>6, CallFacts
      <4>. QED  BY <4>1, <1>1, <2>6, CallFacts DEF request
    <3>. QED  BY <3>1, <3>2, <3>3, <2>2, CallFacts
  <2>7. DoneBehind'  BY <2>6 DEF DoneBehind, Strict
  <2>. QED  BY <2>1, <2>3, <2>4, <2>5, <2>7 DEF AskingInPlan, SuccessAtEnd, Ended
<1>3. CASE failure \notin request.tolerates
  <2>1. pc' = "done" /\ outcome' = ending /\ at' = at /\ first' = first
        BY <1>3 DEF Fail, End
  <2>2. TypeOK'  BY <2>1 DEF TypeOK
  <2>3. NothingAhead' /\ DoneBehind'
        BY <2>1 DEF NothingAhead, DoneBehind, Strict
  <2>4. SuccessAtEnd'  BY <2>1, CallFacts DEF SuccessAtEnd, Writes
  <2>. QED  BY <2>1, <2>2, <2>3, <2>4 DEF AskingInPlan, Ended
<1>. QED  BY <1>2, <1>3

LEMMA Initially == Init => Inv
<1>. SUFFICES ASSUME Init PROVE Inv  OBVIOUS
<1>1. ACall(call)  BY ToolAssumption DEF Init
<1>2. DOMAIN call.plan = 1 .. Len(call.plan) /\ Len(call.plan) \in Nat
      BY <1>1 DEF ACall
<1>. QED  BY <1>2, StartsAtFirstPage DEF Init, Inv, TypeOK, AskingInPlan,
               NothingAhead, DoneBehind, SuccessAtEnd, Ended

(* Keycloak may settle a request that was sent, never one that is done. *)
LEMMA KeycloakPreserves == Inv /\ KeycloakServes => Inv'
<1>. SUFFICES ASSUME Inv, KeycloakServes PROVE Inv'  OBVIOUS
<1>. USE DEF Inv
<1>1. PICK i \in DOMAIN fates, fate \in {"done", "declined"} :
         fates[i] = "sent" /\ fates' = [fates EXCEPT ![i] = fate]
      BY DEF KeycloakServes
<1>2. UNCHANGED <<config, call, pc, at, first, outcome>>  BY DEF KeycloakServes
<1>3. fates' \in [DOMAIN call.plan -> {"none", "sent", "done", "declined"}]
      BY <1>1 DEF TypeOK
<1>4. TypeOK'  BY <1>2, <1>3 DEF TypeOK
<1>5. \A k \in DOMAIN fates : fates[k] \in {"none", "done"} => fates'[k] = fates[k]
      BY <1>1 DEF TypeOK
<1>6. DOMAIN fates' = DOMAIN fates  BY <1>1
<1>7. NothingAhead'  BY <1>2, <1>5, <1>6 DEF NothingAhead
<1>8. DoneBehind'  BY <1>2, <1>5, <1>6 DEF DoneBehind, Strict
<1>9. SuccessAtEnd' /\ Ended' /\ AskingInPlan'
      BY <1>2, <1>6 DEF SuccessAtEnd, Ended, Writes, AskingInPlan
<1>. QED  BY <1>4, <1>7, <1>8, <1>9

LEMMA StepPreserves == Inv /\ Step => Inv'
<1>. SUFFICES ASSUME Inv, Step PROVE Inv'  OBVIOUS
<1>. USE DEF Inv
<1>1. CASE Admit
  <2>. USE <1>1 DEF Admit
  <2>1. TypeOK'  BY DEF TypeOK
  <2>2. NothingAhead' /\ DoneBehind'  BY DEF NothingAhead, DoneBehind, Strict
  <2>. QED  BY <2>1, <2>2 DEF SuccessAtEnd, Ended, AskingInPlan
<1>2. CASE Deny
  <2>. USE <1>2 DEF Deny, End
  <2>1. TypeOK'  BY DEF TypeOK
  <2>2. NothingAhead' /\ DoneBehind'  BY DEF NothingAhead, DoneBehind, Strict
  <2>. QED  BY <2>1, <2>2 DEF SuccessAtEnd, Ended, AskingInPlan
<1>3. CASE Send
  <2>. USE <1>3 DEF Send
  <2>1. at \in DOMAIN fates /\ at \in Nat  BY CallFacts DEF TypeOK
  <2>2. fates' \in [DOMAIN call.plan -> {"none", "sent", "done", "declined"}]
        BY <2>1 DEF TypeOK
  <2>3. TypeOK'  BY <2>2 DEF TypeOK
  <2>4. DOMAIN fates' = DOMAIN fates /\ \A k \in DOMAIN fates : k # at => fates'[k] = fates[k]
        OBVIOUS
  <2>5. UNCHANGED <<call, at>> /\ DOMAIN fates \subseteq Nat  BY CallFacts
  <2>6. NothingAhead'
    <3>1. \A k \in DOMAIN fates : k > at => fates[k] = "none"  BY DEF NothingAhead
    <3>2. pc' = "asked"  OBVIOUS
    <3>. HIDE <1>3 DEF Send
    <3>. QED  BY <2>1, <2>4, <2>5, <3>1, <3>2 DEF NothingAhead
  <2>7. DoneBehind'
    <3>. HIDE <1>3 DEF Send
    <3>. QED  BY <2>1, <2>4, <2>5 DEF DoneBehind, Strict
  <2>. QED  BY <2>3, <2>4, <2>5, <2>6, <2>7 DEF SuccessAtEnd, Ended, AskingInPlan, Writes
<1>4. CASE Refuse
  BY <1>4, FailPreserves DEF Refuse
<1>5. CASE Lose
  BY <1>5, FailPreserves DEF Lose
<1>6. CASE Answer
  <2>1. CASE at' = at + 1 /\ first' = 0 /\ pc' = "ready" /\ UNCHANGED outcome
    <3>. USE <1>6, <2>1 DEF Answer
    <3>1. at \in 1 .. Len(call.plan)  BY CallFacts DEF TypeOK, AskingInPlan
    <3>2. TypeOK'  BY <3>1, CallFacts, StartsAtFirstPage DEF TypeOK
    <3>3. NothingAhead' /\ DoneBehind'
          BY <3>1, CallFacts DEF NothingAhead, DoneBehind, Strict
    <3>. QED  BY <3>2, <3>3 DEF SuccessAtEnd, Ended, AskingInPlan
  <2>2. CASE request.finds /\ Fail("nothing", tool.missing)
    <3>1. tool.missing \in {"missing", "success"}  BY CallFacts
    <3>. QED  BY <1>6, <2>2, <3>1, CallFacts, FailPreserves DEF Answer, AskingInPlan
  <2>. QED  BY <1>6, <2>1, <2>2 DEF Answer
<1>7. CASE Decline
  BY <1>7, FailPreserves DEF Decline, AskingInPlan
<1>8. CASE Timeout
  BY <1>8, FailPreserves DEF Timeout, AskingInPlan
<1>9. CASE Succeed
  <2>. USE <1>9 DEF Succeed, End
  <2>1. TypeOK'  BY DEF TypeOK
  <2>2. NothingAhead' /\ DoneBehind'  BY DEF NothingAhead, DoneBehind, Strict
  <2>. QED  BY <2>1, <2>2 DEF SuccessAtEnd, Ended, AskingInPlan
<1>10. CASE AnswerFullPage
  <2>1. at \in DOMAIN fates /\ at \in Nat /\ at <= Len(call.plan)
        BY <1>10, CallFacts DEF AnswerFullPage, TypeOK, AskingInPlan
  <2>2. CASE Advances(first)
    <3>1. /\ first' = NextFirst(first) /\ pc' = "ready"
          /\ fates' = [fates EXCEPT ![at] = "none"]
          /\ UNCHANGED <<config, call, at, outcome>>
          BY <1>10, <2>2 DEF AnswerFullPage
    <3>2. fates' \in [DOMAIN call.plan -> {"none", "sent", "done", "declined"}]
          BY <2>1, <3>1 DEF TypeOK
    <3>3. TypeOK'  BY <3>1, <3>2, NextPageIsOne DEF TypeOK
    <3>4. DOMAIN fates' = DOMAIN fates /\ DOMAIN fates \subseteq Nat /\ fates'[at] = "none"
          /\ \A k \in DOMAIN fates : k # at => fates'[k] = fates[k]
          BY <2>1, <3>1, CallFacts DEF TypeOK
    <3>5. NothingAhead'
          BY <2>1, <3>1, <3>4 DEF NothingAhead
    <3>6. DoneBehind'
          BY <2>1, <3>1, <3>4 DEF DoneBehind, Strict
    <3>7. outcome = "none"  BY <1>10 DEF Ended, AnswerFullPage
    <3>. QED  BY <3>1, <3>3, <3>4, <3>5, <3>6, <3>7 DEF SuccessAtEnd, Ended, AskingInPlan
  <2>3. CASE ~Advances(first)
    <3>1. Fail("failed", "failed") /\ UNCHANGED <<config, call, fates>> /\ pc = "asked"
          BY <1>10, <2>3 DEF AnswerFullPage
    <3>. QED  BY <2>1, <3>1, FailPreserves
  <2>. QED  BY <2>2, <2>3
<1>. QED  BY <1>1, <1>2, <1>3, <1>4, <1>5, <1>6, <1>7, <1>8, <1>9, <1>10 DEF Step

THEOREM InvHolds == Spec => []Inv
<1>1. Inv /\ UNCHANGED vars => Inv'
  <2>. SUFFICES ASSUME Inv, UNCHANGED vars PROVE Inv'  OBVIOUS
  <2>1. TypeOK'  BY DEF Inv, TypeOK, vars
  <2>2. NothingAhead' /\ DoneBehind'
        BY DEF Inv, NothingAhead, DoneBehind, Strict, vars
  <2>. QED  BY <2>1, <2>2 DEF Inv, AskingInPlan, SuccessAtEnd, Ended, Writes, vars
<1>2. Inv /\ [Next]_vars => Inv'
      BY <1>1, StepPreserves, KeycloakPreserves DEF Next
<1>. QED  BY Initially, <1>2, PTL DEF Spec

(* Every reachable state is well typed; the handler never steps beyond the *)
(* end of its plan.                                                        *)
THEOREM TypeCorrect == Spec => []TypeOK
<1>1. Inv => TypeOK  BY DEF Inv
<1>. QED  BY <1>1, InvHolds, PTL

(* Whatever the tools: a call tells success only when all it was to change *)
(* is changed, and sends no change after one it cannot tell was made.      *)
THEOREM CompleteSuccess == Spec => []SuccessIsComplete
<1>1. Inv => SuccessIsComplete
  <2>. SUFFICES ASSUME Inv, NEW i \in DOMAIN fates, Writes(i), Strict(i)
                PROVE  /\ outcome = "success" => fates[i] = "done"
                       /\ \A j \in DOMAIN fates : j > i /\ Sent(j) => fates[i] = "done"
       BY DEF SuccessIsComplete, Strict
  <2>. USE DEF Inv
  <2>1. i \in Nat /\ i <= Len(call.plan) /\ at \in Nat /\ Len(call.plan) \in Nat
        BY CallFacts DEF TypeOK
  <2>2. i < at => fates[i] = "done"  BY DEF DoneBehind
  <2>3. outcome = "success" => at > Len(call.plan)  BY DEF SuccessAtEnd
  <2>4. ASSUME NEW j \in DOMAIN fates, j > i, Sent(j) PROVE i < at
    <3>1. j \in Nat /\ ~(j > at)  BY <2>4, CallFacts DEF NothingAhead, Sent
    <3>. QED  BY <3>1, <2>1, <2>4
  <2>. QED  BY <2>1, <2>2, <2>3, <2>4
<1>. QED  BY <1>1, InvHolds, PTL

-----------------------------------------------------------------------------
(* A call that has come to its first request, or sent one, has passed the  *)
(* gates; and the call and the deployment do not change under way.         *)
PassedGates ==
    pc \in {"ready", "asked"} \/ (\E i \in DOMAIN fates : Sent(i)) => Admitted

LEMMA GatesFirst == Spec => []PassedGates
<1>1. Init => PassedGates
  BY DEF Init, PassedGates, Sent
<1>2. PassedGates /\ [Next]_vars => PassedGates'
  <2>. SUFFICES ASSUME PassedGates, [Next]_vars PROVE PassedGates'
       OBVIOUS
  <2>1. UNCHANGED <<config, call>>
        BY DEF Next, Step, Admit, Deny, Send, Refuse, Lose, Answer,
               AnswerFullPage, Decline, Timeout, Succeed, KeycloakServes, vars
  <2>2. Admitted' = Admitted
        BY <2>1 DEF Admitted, tool, RequireScopes, RequireRolesForScopes, RolesConfigured
  <2>3. CASE Admit
        BY <2>2, <2>3 DEF Admit, PassedGates
  <2>4. CASE Send
        BY <2>2, <2>4 DEF Send, PassedGates
  <2>5. CASE KeycloakServes
        BY <2>2, <2>5 DEF KeycloakServes, PassedGates, Sent
  <2>6. CASE Deny \/ Succeed \/ UNCHANGED vars
        BY <2>2, <2>6 DEF Deny, Succeed, End, PassedGates, Sent, vars
  <2>7. CASE Refuse \/ Lose \/ Answer \/ Decline \/ Timeout
        BY <2>2, <2>7 DEF Refuse, Lose, Answer, Decline, Timeout, PassedGates, Sent
  <2>8. CASE AnswerFullPage
    <3>1. pc = "asked" /\ \A i \in DOMAIN fates' : i \in DOMAIN fates
          BY <2>8 DEF AnswerFullPage
    <3>. QED  BY <2>2, <3>1 DEF PassedGates
  <2>. QED  BY <2>3, <2>4, <2>5, <2>6, <2>7, <2>8 DEF Next, Step
<1>. QED  BY <1>1, <1>2, PTL DEF Spec

(* Whatever the tools, as long as those that write ask for a write scope:  *)
(* nobody without a write role changes anything through a tool with gates. *)
THEOREM WritersHoldRoles == Spec => []GatedWritersHoldWriteRole
<1>1. Inv /\ PassedGates => GatedWritersHoldWriteRole
  <2>. SUFFICES ASSUME Inv, PassedGates, NEW i \in DOMAIN fates,
                       Writes(i), Sent(i), tool.gated, RolesConfigured
                PROVE  call.roles \cap config.writeRoles # {}
       BY DEF GatedWritersHoldWriteRole
  <2>1. tool.scopes \cap WriteScopes # {}
        BY CallFacts DEF Inv, TypeOK
  <2>2. ClassifyScopes(tool.scopes) = "write"
        BY <2>1 DEF ClassifyScopes
  <2>3. RequireRolesForScopes
        BY DEF PassedGates, Admitted
  <2>. QED  BY <2>2, <2>3 DEF RequireRolesForScopes
<1>. QED  BY <1>1, InvHolds, GatesFirst, PTL

(* Whatever the tools, as long as those that ask for client secrets say so *)
(* in their gates: no request for one is sent where secret tools are       *)
(* disabled, or for a caller without their scope.                          *)
THEOREM SecretsGuarded == Spec => []SecretsNeedSwitchAndScope
<1>1. Inv /\ PassedGates => SecretsNeedSwitchAndScope
  <2>. SUFFICES ASSUME Inv, PassedGates, NEW i \in DOMAIN fates,
                       Sent(i), IsClientSecretPath(call.plan[i].segments)
                PROVE  config.secrets /\ "clients:secrets" \in call.scopes
       BY DEF SecretsNeedSwitchAndScope
  <2>1. tool.gated /\ tool.secret /\ "clients:secrets" \in tool.scopes
        BY CallFacts DEF Inv, TypeOK
  <2>2. Admitted
        BY DEF PassedGates
  <2>. QED  BY <2>1, <2>2 DEF Admitted, RequireScopes
<1>. QED  BY <1>1, InvHolds, GatesFirst, PTL

-----------------------------------------------------------------------------
(* The gateway's scopes against the tools' own. *)

(* A gated tool whose own scopes cover a request has it taken, whatever    *)
(* else the caller holds.                                                  *)
LEMMA CoveredByOwnScopes ==
    ASSUME Admitted, tool.gated, OwnScopesCover(request, tool.scopes)
    PROVE  Covered
<1>1. tool.scopes \subseteq call.scopes
      BY DEF Admitted, RequireScopes
<1> DEFINE candidates == ScopeCandidates(request.method, request.segments, request.query)
<1>2. PICK i \in DOMAIN candidates : candidates[i] \subseteq tool.scopes
      BY DEF OwnScopesCover
<1>3. candidates[i] \subseteq call.scopes
      BY <1>1, <1>2
<1>. QED  BY <1>2, <1>3, HeldIsChosen DEF Covered

(* Where a refusal may end a call: at the first requests of a tool that    *)
(* asks for less than they need, before its first change.                  *)
LEMMA RefusalsComeEarly ==
    ASSUME Inv, PassedGates, Refuse, outcome' = "refused"
    PROVE  /\ call.tool \in UnderScoped
           /\ \A i \in DOMAIN fates : Writes(i) => ~Sent(i)
<1>1. /\ at \in DOMAIN call.plan /\ at \in Nat /\ pc = "ready" /\ ~Covered
      /\ Fail("refused", "refused") /\ DOMAIN fates = DOMAIN call.plan
      /\ DOMAIN call.plan = 1 .. Len(call.plan)
      BY CallFacts DEF Refuse, Inv, TypeOK
<1>2. "refused" \notin request.tolerates
      BY <1>1 DEF Fail, Inv, Ended
<1>3. Admitted
      BY <1>1 DEF PassedGates
<1>4. ~(tool.gated /\ OwnScopesCover(request, tool.scopes))
      BY <1>1, <1>3, CoveredByOwnScopes
<1>5. call.tool \in UnderScoped /\ \A k \in 1 .. at - 1 : call.plan[k].method = "GET"
      BY <1>1, <1>2, <1>4, ToolAssumption DEF ACall, Inv, TypeOK, tool, request
<1>6. ASSUME NEW i \in DOMAIN fates, Writes(i), Sent(i)
      PROVE  FALSE
  <2>1. i \in Nat /\ i >= 1 /\ i < at
        BY <1>1, <1>6 DEF Inv, NothingAhead, Sent
  <2>. QED  BY <1>1, <1>5, <1>6, <2>1 DEF Writes
<1>. QED  BY <1>5, <1>6

EarlyRefusals == NeverRefusedHalfway /\ ScopesSuffice

LEMMA EarlyRefusalsHold == Spec => []EarlyRefusals
<1>1. Init => EarlyRefusals
  BY DEF Init, EarlyRefusals, NeverRefusedHalfway, ScopesSuffice
<1>2. Inv /\ PassedGates /\ EarlyRefusals /\ [Next]_vars => EarlyRefusals'
  <2>. SUFFICES ASSUME Inv, PassedGates, EarlyRefusals, [Next]_vars, outcome' = "refused"
                PROVE  /\ call'.tool \in UnderScoped
                       /\ \A i \in DOMAIN fates' : Writes(i)' => ~Sent(i)'
       BY DEF EarlyRefusals, NeverRefusedHalfway, ScopesSuffice
  <2>1. call' = call
        BY DEF Next, Step, Admit, Deny, Send, Refuse, Lose, Answer,
               AnswerFullPage, Decline, Timeout, Succeed, KeycloakServes, vars
  <2>2. CASE Refuse
        BY <2>1, <2>2, RefusalsComeEarly DEF Refuse, Writes, Sent
  <2>3. CASE outcome = "refused"
    <3>1. pc = "done"
          BY <2>3 DEF Inv, Ended
    <3>2. ~Step
          BY <3>1 DEF Step, Admit, Deny, Send, Refuse, Lose, Answer,
                        AnswerFullPage, Decline, Timeout, Succeed
    <3>3. DOMAIN fates' = DOMAIN fates /\ \A i \in DOMAIN fates : Sent(i)' => Sent(i)
          BY <3>2 DEF Next, KeycloakServes, vars, Sent, Inv, TypeOK
    <3>. QED  BY <2>1, <2>3, <3>3 DEF EarlyRefusals, NeverRefusedHalfway, ScopesSuffice, Writes
  <2>4. CASE ~Refuse /\ outcome # "refused"
    <3>1. tool.missing # "refused"
          BY CallFacts DEF Inv
    <3>2. outcome' # "refused"
          BY <2>4, <3>1 DEF Next, Step, Admit, Deny, Send, Lose, Answer,
                            AnswerFullPage, Decline, Timeout, Succeed, KeycloakServes, vars, Fail, End
    <3>. QED  BY <3>2
  <2>. QED  BY <2>2, <2>3, <2>4
<1>. QED  BY <1>1, <1>2, InvHolds, GatesFirst, PTL DEF Spec

(* Whatever a caller holds, the gateway refuses a call for its scopes      *)
(* before the call's first change or not at all (handlers.rs 1011-1082     *)
(* against the gates of tools/shared.rs).                                  *)
THEOREM RefusedBeforeChanges == Spec => []NeverRefusedHalfway
<1>1. EarlyRefusals => NeverRefusedHalfway
      BY DEF EarlyRefusals
<1>. QED  BY <1>1, EarlyRefusalsHold, PTL

(* Whatever a caller holds, what the gates of a tool that is not under-    *)
(* scoped let through, the gateway never refuses for a scope.              *)
THEOREM OwnScopesSuffice == Spec => []ScopesSuffice
<1>1. EarlyRefusals => ScopesSuffice
      BY DEF EarlyRefusals
<1>. QED  BY <1>1, EarlyRefusalsHold, PTL
=============================================================================
