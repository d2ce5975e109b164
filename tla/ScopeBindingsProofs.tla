------------------------- MODULE ScopeBindingsProofs -------------------------
(***************************************************************************)
(* What holds of the calls of ScopeBindings for any clients, scopes,       *)
(* requests and number of calls, whatever others do to the bindings.       *)
(*                                                                         *)
(* The properties speak of calls that ended; the invariant says of a call  *)
(* under way that what it was asked for is met already or still in its     *)
(* plan, and, while nobody interferes, that the bindings differ from the   *)
(* target by exactly the part of the plan Keycloak has not carried out.    *)
(***************************************************************************)
EXTENDS ScopeBindings, TLAPS

Planning == {"resolve", "page", "list", "list2"}
Applying == {"apply", "wait"}
Of(e) == edit[e].req
Now(e) == bound[Of(e).client]
Plan(e) == edit[e].remove \cup edit[e].add

(* The plan is what the call read and was asked for; only a call that is   *)
(* to change something has a request out, which is of its plan.            *)
PlanSound(e) ==
    /\ Started(e) => Of(e) \in Request
    /\ edit[e].pc \in Planning \cup {"idle"} => Plan(e) = {} /\ edit[e].answer = "none"
    /\ Plan(e) # {} => /\ edit[e].remove \subseteq ToRemove(Of(e), edit[e].seen)
                       /\ edit[e].add \subseteq ToAdd(Of(e), edit[e].seen)
    /\ edit[e].pc \in Applying \/ wire[e] # NoWire => ~Of(e).dry /\ Started(e)
    /\ edit[e].pc = "wait" => edit[e].sent \in Plan(e)
    /\ wire[e] # NoWire => /\ wire[e] = edit[e].sent /\ wire[e] \in Plan(e)
                           /\ edit[e].answer = "none"
                           /\ edit[e].pc \in {"wait", "error"}
    /\ edit[e].answer # "none" => Started(e) /\ ~Of(e).dry
    /\ edit[e].pc = "apply" /\ edit[e].answer = "done" => edit[e].sent \notin Plan(e)

(* The change of the plan that a goal waits for. *)
ChangeFor(r, g) == IF r.tool = "ensure_bound" THEN <<"default", g[2]>> ELSE g

Serving(e) ==
    /\ Live(e) => \A g \in Goals(Of(e)) : Holds(Of(e), g, Now(e)) => g \in met[e]
    /\ edit[e].pc = "list2" /\ Of(e).tool = "ensure_bound" =>
           \A s \in Of(e).asked : s \in edit[e].seen["default"] => <<"either", s>> \in met[e]
    /\ edit[e].pc = "list2" /\ Of(e).tool = "ensure_unbound" =>
           \A s \in Of(e).asked : s \notin edit[e].seen["default"] => <<"default", s>> \in met[e]
    /\ edit[e].pc = "list2" => Ensures(Of(e))
    /\ edit[e].pc \in Applying =>
           \A g \in Goals(Of(e)) : g \in met[e] \/ ChangeFor(Of(e), g) \in Plan(e)
    /\ edit[e].pc = "wait" /\ edit[e].answer = "done" =>
           \A g \in Goals(Of(e)) : ChangeFor(Of(e), g) = edit[e].sent => g \in met[e]
    /\ edit[e].pc = "ok" /\ ~Of(e).dry => Goals(Of(e)) \subseteq met[e]

(* The part of the plan Keycloak has not carried out. *)
Undone(e) == Plan(e) \ (IF edit[e].answer = "done" THEN {edit[e].sent} ELSE {})

Difference(r, b, k, s) == (s \in b[k]) # (s \in Target(r, b)[k])

Undisturbed(e) == Started(e) /\ clean[e] =>
    LET r == Of(e)
        old == before[e]
        new == Target(r, old)
    IN  /\ edit[e].pc \in Planning \/ r.dry => Now(e) = old
        /\ edit[e].pc = "list2" => edit[e].seen["default"] = old["default"]
                                   /\ edit[e].seen["optional"] = {}
        /\ edit[e].pc \in Planning \ {"list2"} => edit[e].seen = Unbound
        /\ \A k \in Kind : \A s \in Scope :
               /\ <<k, s>> \in edit[e].remove => s \in old[k] /\ s \notin new[k]
               /\ <<k, s>> \in edit[e].add => s \notin old[k] /\ s \in new[k]
               /\ s \in Now(e)[k] => s \in old[k] \/ s \in new[k]
               /\ s \in old[k] /\ s \in new[k] => s \in Now(e)[k]
               /\ edit[e].pc \in Applying \/ (edit[e].pc = "ok" /\ ~r.dry) =>
                      (s \in Now(e)[k] <=> IF <<k, s>> \in Undone(e)
                                           THEN s \in old[k] ELSE s \in new[k])
               /\ edit[e].pc = "ok" /\ r.dry =>
                      /\ s \in old[k] /\ s \notin new[k] => <<k, s>> \in edit[e].remove
                      /\ s \notin old[k] /\ s \in new[k] => <<k, s>> \in edit[e].add
        /\ edit[e].pc = "ok" /\ ~r.dry => Plan(e) = {}

Core(e) == PlanSound(e) /\ Serving(e) /\ Undisturbed(e)
EditInv == EditTypeOK /\ \A e \in Edit : Core(e)

-----------------------------------------------------------------------------
(* The plans.                                                              *)

LEMMA EdgeFacts ==
    /\ \A x \in Edge : x[1] \in Kind /\ x[2] \in Scope /\ x = <<x[1], x[2]>>
    /\ Unbound \in Bindings
    /\ NoWire \notin Edge
    /\ 0 \in Cursor
BY PageAssumption DEF Edge, Kind, Bindings, Unbound, NoWire, Cursor

LEMMA RequestFacts ==
    ASSUME NEW r \in Request
    PROVE  /\ r.client \in Client /\ r.kind \in Kind /\ r.asked \in SUBSET Scope
           /\ r.tool \in Tools /\ r.dry \in BOOLEAN
BY EditAssumption DEF ARequest

LEMMA TargetType ==
    ASSUME NEW r \in Request, NEW b \in Bindings
    PROVE  Target(r, b) \in Bindings
BY RequestFacts DEF Target, Bindings, Kind, Tools

LEMMA PlanType ==
    ASSUME NEW r \in Request, NEW seen \in Bindings
    PROVE  ToRemove(r, seen) \in SUBSET Edge /\ ToAdd(r, seen) \in SUBSET Edge
BY RequestFacts DEF ToRemove, ToAdd, Edge, Bindings, Kind, Tools

LEMMA GoalType ==
    ASSUME NEW r \in Request
    PROVE  Goals(r) \subseteq (Kind \cup {"either"}) \X Scope
BY RequestFacts DEF Goals, Kind, Tools

(* A plan never adds what it removes. *)
LEMMA PlanDisjoint ==
    ASSUME NEW r \in Request, NEW seen \in Bindings
    PROVE  ToRemove(r, seen) \cap ToAdd(r, seen) = {}
BY RequestFacts DEF ToRemove, ToAdd, Edge, Bindings, Kind, Tools

(* A plan made from the bindings as they are is the difference to the target. *)
LEMMA PlanIsDifference ==
    ASSUME NEW r \in Request, NEW seen \in Bindings, NEW b \in Bindings,
           IF Ensures(r) THEN seen = b ELSE seen[r.kind] = b[r.kind],
           NEW k \in Kind, NEW s \in Scope
    PROVE  /\ <<k, s>> \in ToRemove(r, seen) <=> s \in b[k] /\ s \notin Target(r, b)[k]
           /\ <<k, s>> \in ToAdd(r, seen) <=> s \notin b[k] /\ s \in Target(r, b)[k]
<1>. USE RequestFacts DEF Kind, Bindings, Ensures, Target, ToRemove, ToAdd
<1>1. CASE r.tool = "add"  BY <1>1
<1>2. CASE r.tool = "delete"  BY <1>2
<1>3. CASE r.tool = "replace"  BY <1>3
<1>4. CASE r.tool = "ensure_bound"  BY <1>4
<1>5. CASE r.tool = "ensure_unbound"  BY <1>5
<1>. QED  BY <1>1, <1>2, <1>3, <1>4, <1>5 DEF Tools

(* What is not planned was found in the state asked for. *)
LEMMA UnplannedHolds ==
    ASSUME NEW r \in Request, NEW seen \in Bindings, NEW g \in Goals(r),
           ChangeFor(r, g) \notin ToRemove(r, seen) \cup ToAdd(r, seen)
    PROVE  Holds(r, g, seen)
<1>. USE RequestFacts DEF Kind, Bindings, ToRemove, ToAdd, Goals, Holds, ChangeFor
<1>1. CASE r.tool = "add"  BY <1>1
<1>2. CASE r.tool = "delete"  BY <1>2
<1>3. CASE r.tool = "replace"  BY <1>3
<1>4. CASE r.tool = "ensure_bound"  BY <1>4
<1>5. CASE r.tool = "ensure_unbound"  BY <1>5
<1>. QED  BY <1>1, <1>2, <1>3, <1>4, <1>5 DEF Tools

(* Keycloak's carrying out a change brings about its goal. *)
LEMMA ChangeBringsGoal ==
    ASSUME NEW r \in Request, NEW seen \in Bindings, NEW b \in Bindings,
           NEW g \in Goals(r), NEW k \in Kind, NEW s \in Scope,
           ChangeFor(r, g) = <<k, s>>
    PROVE  /\ <<k, s>> \in ToAdd(r, seen) /\ s \in b[k] => Holds(r, g, b)
           /\ <<k, s>> \in ToRemove(r, seen) /\ s \notin b[k] => Holds(r, g, b)
<1>. USE RequestFacts DEF Kind, Bindings, ToRemove, ToAdd, Goals, Holds, ChangeFor
<1>1. CASE r.tool = "add"  BY <1>1
<1>2. CASE r.tool = "delete"  BY <1>2
<1>3. CASE r.tool = "replace"  BY <1>3
<1>4. CASE r.tool = "ensure_bound"  BY <1>4
<1>5. CASE r.tool = "ensure_unbound"  BY <1>5
<1>. QED  BY <1>1, <1>2, <1>3, <1>4, <1>5 DEF Tools

-----------------------------------------------------------------------------
(* Calls that a step is not about.                                         *)

(* What a step does to call f at most, when f itself does nothing: others  *)
(* may change the bindings, and its history notes it.                      *)
Bystands(f) ==
    /\ edit'[f] = edit[f] /\ wire'[f] = wire[f] /\ before'[f] = before[f]
    /\ clean'[f] => clean[f] /\ (Started(f) => Now(f)' = Now(f))
    /\ met[f] \subseteq met'[f]
    /\ Live(f) => \A g \in Goals(Of(f)) : Holds(Of(f), g, Now(f)') => g \in met'[f]

LEMMA BystanderKeeps ==
    ASSUME NEW f \in Edit, Core(f), Bystands(f)
    PROVE  Core(f)'
<1>1. PlanSound(f)'
      BY DEF Core, PlanSound, Bystands, Of, Plan, Started
<1>2. Serving(f)'
      BY DEF Core, Serving, Bystands, Of, Plan, Live
<1>3. Undisturbed(f)'
  <2>1. CASE ~(Started(f)' /\ clean'[f])
        BY <2>1 DEF Undisturbed
  <2>2. CASE Started(f)' /\ clean'[f]
    <3>1. Started(f) /\ clean[f] /\ Now(f)' = Now(f)
          BY <2>2 DEF Bystands, Started
    <3>. QED  BY <3>1 DEF Core, Undisturbed, Bystands, Of, Plan, Undone, Started
  <2>. QED  BY <2>1, <2>2
<1>. QED  BY <1>1, <1>2, <1>3 DEF Core

(* A step of a handler: it changes nothing but its own record. *)
LEMMA RunLeavesOthers ==
    ASSUME EditInv, NEW e \in Edit, NEW d,
           edit' = [edit EXCEPT ![e] = d], UNCHANGED <<registry, clean, before, met>>,
           \A f \in Edit : f # e => wire'[f] = wire[f]
    PROVE  \A f \in Edit : f # e => Core(f)'
<1>. SUFFICES ASSUME NEW f \in Edit, f # e PROVE Core(f)'  OBVIOUS
<1>1. edit'[f] = edit[f]  BY DEF EditInv, EditTypeOK
<1>2. Now(f)' = Now(f)  BY <1>1 DEF Now, Of, registry
<1>3. Core(f)  BY DEF EditInv
<1>4. Bystands(f)
      BY <1>1, <1>2, <1>3 DEF Bystands, Core, Serving, Of
<1>. QED  BY <1>3, <1>4, BystanderKeeps

(* What Noted says of a call that is not among those that step. *)
LEMMA NotedLeavesOthers ==
    ASSUME EditInv, NEW own \in SUBSET Edit, Noted(own), NEW f \in Edit, f \notin own,
           edit'[f] = edit[f], wire'[f] = wire[f]
    PROVE  Core(f)'
<1>1. Core(f)  BY DEF EditInv
<1>2. met'[f] = IF Live(f) THEN met[f] \cup {g \in Goals(Of(f)) : Holds(Of(f), g, Now(f)')}
                ELSE met[f]
      BY DEF Noted, Of, Now
<1>3. clean'[f] => clean[f] /\ (Started(f) => Now(f)' = Now(f))
      BY DEF Noted, Of, Now, EditInv, EditTypeOK
<1>4. before'[f] = before[f]  BY DEF Noted
<1>5. met[f] \subseteq met'[f]  BY <1>2
<1>6. Live(f) => \A g \in Goals(Of(f)) : Holds(Of(f), g, Now(f)') => g \in met'[f]
      BY <1>2
<1>. QED  BY <1>1, <1>3, <1>4, <1>5, <1>6, BystanderKeeps DEF Bystands

LEMMA NotedTyped ==
    ASSUME EditInv, NEW own \in SUBSET Edit, Noted(own)
    PROVE  /\ clean' \in [Edit -> BOOLEAN] /\ before' = before
           /\ met' \in [Edit -> SUBSET ((Kind \cup {"either"}) \X Scope)]
<1>1. clean' \in [Edit -> BOOLEAN] /\ before' = before
      BY DEF EditInv, EditTypeOK, Noted
<1>2. ASSUME NEW f \in Edit
      PROVE  met'[f] \in SUBSET ((Kind \cup {"either"}) \X Scope)
  <2>1. met'[f] = met[f] \/ (Live(f) /\ met'[f] \subseteq met[f] \cup Goals(Of(f)))
        BY DEF Noted, Of
  <2>2. Live(f) => Of(f) \in Request
        BY DEF EditInv, EditTypeOK, Live, Started, Of
  <2>. QED  BY <2>1, <2>2, GoalType DEF EditInv, EditTypeOK
<1>3. met' = [f \in Edit |-> met'[f]]
      BY DEF Noted
<1>. QED  BY <1>1, <1>2, <1>3

LEMMA OthersKeep == EditInv /\ Others => EditInv'
<1>. SUFFICES ASSUME EditInv, Others PROVE EditInv'  OBVIOUS
<1>1. EditTypeOK'  BY NotedTyped DEF EditInv, EditTypeOK, Others, Started
<1>2. \A f \in Edit : Core(f)'  BY NotedLeavesOthers DEF Others
<1>. QED  BY <1>1, <1>2 DEF EditInv

-----------------------------------------------------------------------------
(* The call a step is about.                                               *)

LEMMA Initially == RegistryTypeOK /\ EditInit => EditInv
BY EdgeFacts DEF EditInit, EditInv, EditTypeOK, AnEdit, Idle, NoRequest, NoWire, Core, PlanSound,
      Serving, Undisturbed, Started, Live, Plan, Planning, Applying, Of, Ensures

(* A new record of the right type keeps the types. *)
LEMMA RecordTyped ==
    ASSUME EditInv, NEW e \in Edit, NEW d \in AnEdit,
           edit' = [edit EXCEPT ![e] = d], UNCHANGED <<registry, clean, before, met>>,
           wire' \in [Edit -> Edge \cup {NoWire}],
           d.pc # "idle" => d.req \in Request
    PROVE  EditTypeOK' /\ edit'[e] = d /\ Now(e)' = bound[d.req.client]
BY DEF EditInv, EditTypeOK, RegistryTypeOK, registry, Started, Now, Of

LEMMA BeginKeeps ==
    ASSUME EditInv, NEW e \in Edit, NEW r \in Request, Begin(e, r)
    PROVE  EditInv'
<1>. DEFINE d == [Idle EXCEPT !.req = r, !.pc = "resolve"]
<1>1. /\ edit' = [edit EXCEPT ![e] = d] /\ edit'[e] = d
      /\ UNCHANGED <<registry, wire>>
      BY DEF Begin, Become, EditInv, EditTypeOK
<1>2. wire[e] = NoWire
      BY DEF EditInv, Core, PlanSound, Begin
<1>3. EditTypeOK'
  <2>1. bound[r.client] \in Bindings
        BY RequestFacts DEF EditInv, EditTypeOK, RegistryTypeOK
  <2>6. {g \in Goals(r) : Holds(r, g, bound[r.client])} \in SUBSET ((Kind \cup {"either"}) \X Scope)
        BY GoalType
  <2>2. d \in AnEdit  BY EdgeFacts DEF AnEdit, Idle
  <2>3. edit' \in [Edit -> AnEdit]  BY <1>1, <2>2 DEF EditInv, EditTypeOK
  <2>4. RegistryTypeOK' /\ wire' = wire
        BY <1>1 DEF EditInv, EditTypeOK, RegistryTypeOK, registry
  <2>5. \A f \in Edit : Started(f)' => edit'[f].req \in Request
        BY <1>1 DEF EditInv, EditTypeOK, Started
  <2>. QED  BY <2>1, <2>3, <2>4, <2>5, <2>6 DEF EditInv, EditTypeOK, Begin
<1>4. ASSUME NEW f \in Edit, f # e PROVE Core(f)'
  <2>1. Core(f)  BY DEF EditInv
  <2>2. edit'[f] = edit[f] /\ wire'[f] = wire[f] /\ before'[f] = before[f]
        /\ clean'[f] = clean[f] /\ met'[f] = met[f] /\ Now(f)' = Now(f)
        BY <1>1, <1>4 DEF EditInv, EditTypeOK, Begin, Now, Of, registry
  <2>. QED  BY <2>1, <2>2, BystanderKeeps DEF Bystands, Core, Serving, Of
<1>5. Core(e)'
  <2>1. d.req = r /\ d.pc = "resolve" /\ d.seen = Unbound /\ d.remove = {} /\ d.add = {}
        /\ d.sent = NoWire /\ d.answer = "none"
        BY DEF Idle
  <2>2. Of(e)' = r /\ Now(e)' = bound[r.client] /\ Plan(e)' = {} /\ wire'[e] = NoWire
        BY <1>1, <1>2, <2>1 DEF Of, Now, Plan, registry
  <2>3. before'[e] = bound[r.client]
        /\ met'[e] = {g \in Goals(r) : Holds(r, g, bound[r.client])}
        BY DEF Begin, EditInv, EditTypeOK
  <2>4. PlanSound(e)'
        BY <1>1, <2>1, <2>2 DEF PlanSound, Planning, Applying, Started
  <2>5. Serving(e)'
        BY <1>1, <2>1, <2>2, <2>3 DEF Serving, Applying
  <2>6. Undisturbed(e)'
        BY <1>1, <2>1, <2>2, <2>3 DEF Undisturbed, Planning, Applying
  <2>. QED  BY <2>4, <2>5, <2>6 DEF Core
<1>. QED  BY <1>3, <1>4, <1>5 DEF EditInv

(* A step of the handler alone, from its record to d. *)
LEMMA RunKeeps ==
    ASSUME EditInv, NEW e \in Edit, NEW d \in AnEdit,
           edit' = [edit EXCEPT ![e] = d], UNCHANGED <<registry, clean, before, met>>,
           wire' \in [Edit -> Edge \cup {NoWire}],
           \A f \in Edit : f # e => wire'[f] = wire[f],
           d.pc # "idle" => d.req \in Request,
           Core(e)'
    PROVE  EditInv'
BY RecordTyped, RunLeavesOthers DEF EditInv

LEMMA Same == ASSUME EditInv, UNCHANGED wire
              PROVE  wire' \in [Edit -> Edge \cup {NoWire}] /\ \A f \in Edit : wire'[f] = wire[f]
BY DEF EditInv, EditTypeOK

(* What a record keeps when only some fields change. *)
LEMMA RecordFacts ==
    ASSUME EditInv, NEW e \in Edit
    PROVE  /\ edit[e] \in AnEdit
           /\ Started(e) => Of(e) \in Request
           /\ Core(e)
           /\ Now(e)' = Now(e) \/ ~(UNCHANGED registry /\ Of(e)' = Of(e))
BY DEF EditInv, EditTypeOK, Now, Of, registry

(* A call that looks its scopes up has no plan yet, whichever page it is at. *)
LEMMA LookupKeeps ==
    ASSUME EditInv, NEW e \in Edit, edit[e].pc \in {"resolve", "page"},
           NEW p \in {"resolve", "page", "list"}, NEW n \in Cursor,
           Become(e, [edit[e] EXCEPT !.pc = p, !.first = n]),
           UNCHANGED <<registry, wire, clean, before, met>>
    PROVE  EditInv'
<1>. DEFINE d == [edit[e] EXCEPT !.pc = p, !.first = n]
<1>1. edit[e] \in AnEdit /\ Core(e) /\ Of(e) \in Request
      BY RecordFacts DEF Started
<1>2. d \in AnEdit /\ d.pc = p /\ d.req = edit[e].req /\ d.seen = edit[e].seen
      /\ d.remove = edit[e].remove /\ d.add = edit[e].add /\ d.sent = edit[e].sent
      /\ d.answer = edit[e].answer
      BY <1>1 DEF AnEdit
<1>3. edit' = [edit EXCEPT ![e] = d] /\ edit'[e] = d
      BY DEF Become, EditInv, EditTypeOK
<1>4. Of(e)' = Of(e) /\ Now(e)' = Now(e) /\ Plan(e)' = Plan(e)
      BY <1>2, <1>3 DEF Of, Now, Plan, registry
<1>. HIDE DEF d
<1>5. Core(e)'
  <2>1. PlanSound(e)'
        BY <1>1, <1>2, <1>3, <1>4 DEF Core, PlanSound, Planning, Applying, Started
  <2>2. Serving(e)'
        BY <1>1, <1>2, <1>3, <1>4 DEF Core, Serving, Applying, Live
  <2>3. Undisturbed(e)'
    <3>1. Undone(e)' = Undone(e)
          BY <1>2, <1>3, <1>4 DEF Undone
    <3>2. edit[e].pc \in Planning /\ d.pc \in Planning \ {"list2"} /\ Started(e)
          BY <1>2 DEF Planning, Started
    <3>. QED  BY <1>1, <1>2, <1>3, <1>4, <3>1, <3>2
              DEF Core, Undisturbed, Planning, Applying, Started
  <2>. QED  BY <2>1, <2>2, <2>3 DEF Core
<1>. QED  BY <1>1, <1>2, <1>3, <1>5, RunKeeps, Same DEF Of

LEMMA ResolveKeeps ==
    ASSUME EditInv, NEW e \in Edit, AskPage(e) \/ FullPage(e) \/ Resolve(e) PROVE EditInv'
<1>1. edit[e] \in AnEdit
      BY DEF EditInv, EditTypeOK
<1>2. edit[e].first \in Cursor /\ NextFirst(edit[e].first) \in Cursor
  <2>1. edit[e].first \in Cursor  BY <1>1 DEF AnEdit
  <2>. QED  BY <2>1, PageAssumption DEF Cursor, NextFirst
<1>3. \A p \in {"resolve", "page"} :
          [edit[e] EXCEPT !.pc = p] = [edit[e] EXCEPT !.pc = p, !.first = edit[e].first]
      BY <1>1 DEF AnEdit
<1>4. CASE AskPage(e)
      BY <1>2, <1>3, <1>4, LookupKeeps DEF AskPage
<1>5. CASE FullPage(e)
      BY <1>2, <1>5, LookupKeeps DEF FullPage
<1>6. CASE Resolve(e)
  <2>1. 0 \in Cursor  BY PageAssumption DEF Cursor
  <2>. QED  BY <1>6, <2>1, LookupKeeps DEF Resolve
<1>. QED  BY <1>4, <1>5, <1>6

(* The call ends in an error where it is; its request may be out still. *)
LEMMA FailKeeps ==
    ASSUME EditInv, NEW e \in Edit, Live(e), NEW first \in Cursor,
           Become(e, [edit[e] EXCEPT !.pc = "error", !.first = first]),
           edit[e].pc # "apply",
           UNCHANGED <<registry, wire, clean, before, met>>
    PROVE  EditInv'
<1>. DEFINE d == [edit[e] EXCEPT !.pc = "error", !.first = first]
<1>1. edit[e] \in AnEdit /\ Core(e) /\ Of(e) \in Request /\ Started(e)
      BY RecordFacts DEF Live, Started
<1>2. d \in AnEdit /\ d.pc = "error" /\ d.req = edit[e].req /\ d.seen = edit[e].seen
      /\ d.remove = edit[e].remove /\ d.add = edit[e].add /\ d.sent = edit[e].sent
      /\ d.answer = edit[e].answer
      BY <1>1 DEF AnEdit
<1>3. edit' = [edit EXCEPT ![e] = d] /\ edit'[e] = d
      BY DEF Become, EditInv, EditTypeOK
<1>4. Of(e)' = Of(e) /\ Now(e)' = Now(e) /\ Plan(e)' = Plan(e) /\ Undone(e)' = Undone(e)
      BY <1>2, <1>3 DEF Of, Now, Plan, Undone, registry
<1>. HIDE DEF d
<1>5. Core(e)'
  <2>1. PlanSound(e)'
        BY <1>1, <1>2, <1>3, <1>4 DEF Core, PlanSound, Planning, Applying, Started
  <2>2. Serving(e)'
        BY <1>1, <1>2, <1>3, <1>4 DEF Core, Serving, Applying, Live
  <2>3. Undisturbed(e)'
        BY <1>1, <1>2, <1>3, <1>4 DEF Core, Undisturbed, Planning, Applying, Started
  <2>. QED  BY <2>1, <2>2, <2>3 DEF Core
<1>. QED  BY <1>1, <1>2, <1>3, <1>5, RunKeeps, Same DEF Of

LEMMA RefusalsKeep ==
    ASSUME EditInv, NEW e \in Edit, Refuse(e) \/ ListFails(e) \/ GiveUp(e) PROVE EditInv'
<1>1. edit[e] \in AnEdit
      BY DEF EditInv, EditTypeOK
<1>2. /\ edit[e].first \in Cursor
      /\ [edit[e] EXCEPT !.pc = "error"] = [edit[e] EXCEPT !.pc = "error", !.first = edit[e].first]
      BY <1>1 DEF AnEdit
<1>3. CASE Refuse(e)
  <2>1. 0 \in Cursor  BY PageAssumption DEF Cursor
  <2>. QED  BY <1>3, <2>1, FailKeeps DEF Refuse, Live
<1>4. CASE ListFails(e) \/ GiveUp(e)
      BY <1>2, <1>4, FailKeeps DEF ListFails, GiveUp, Fail, Live
<1>. QED  BY <1>3, <1>4

(* The plan is made from what was read: p is the record with its reading.  *)
LEMMA PlannedKeeps ==
    ASSUME EditInv, NEW e \in Edit, NEW p \in AnEdit,
           edit[e].pc \in {"list", "list2"},
           edit' = [edit EXCEPT ![e] = Planned(p)],
           UNCHANGED <<registry, wire, clean, before, met>>,
           p.req = Of(e), p.answer = edit[e].answer,
           clean[e] => IF Ensures(Of(e)) THEN p.seen = before[e]
                       ELSE p.seen[Of(e).kind] = before[e][Of(e).kind],
           \A g \in Goals(Of(e)) : Holds(Of(e), g, p.seen) => g \in met[e]
    PROVE  EditInv'
<1>. DEFINE r == Of(e)
            d == Planned(p)
<1>1. edit[e] \in AnEdit /\ Core(e) /\ r \in Request /\ Started(e) /\ p.seen \in Bindings
      BY RecordFacts DEF Started, AnEdit
<1>2. /\ d.pc = (IF r.dry THEN "ok" ELSE "apply") /\ d.req = r /\ d.seen = p.seen
      /\ d.remove = ToRemove(r, p.seen) /\ d.add = ToAdd(r, p.seen) /\ d.sent = p.sent
      /\ d.answer = p.answer
      BY DEF AnEdit, Planned
<1>3. d \in AnEdit
      BY <1>1, <1>2, PlanType DEF AnEdit, Planned
<1>4. edit' = [edit EXCEPT ![e] = d] /\ edit'[e] = d
      BY DEF EditInv, EditTypeOK
<1>5. Of(e)' = r /\ Now(e)' = Now(e) /\ Plan(e)' = ToRemove(r, p.seen) \cup ToAdd(r, p.seen)
      BY <1>2, <1>4 DEF Of, Now, Plan, registry
<1>6. wire[e] = NoWire /\ edit[e].answer = "none"
      BY <1>1 DEF Core, PlanSound, AnEdit, Of, Planning
<1>7. edit[e].pc \in Planning
      BY DEF Planning
<1>. HIDE DEF d
<1>8. Core(e)'
  <2>1. PlanSound(e)'
        BY <1>1, <1>2, <1>4, <1>5, <1>6 DEF PlanSound, Planning, Applying, Started
  <2>2. Serving(e)'
    <3>1. \A g \in Goals(r) : g \in met[e] \/ ChangeFor(r, g) \in Plan(e)'
          BY <1>1, <1>5, UnplannedHolds
    <3>2. Live(e) => \A g \in Goals(r) : Holds(r, g, Now(e)) => g \in met[e]
          BY <1>1 DEF Core, Serving
    <3>3. Live(e)  BY DEF Live
    <3>. QED  BY <1>2, <1>4, <1>5, <3>1, <3>2, <3>3 DEF Serving, Applying
  <2>3. Undisturbed(e)'
    <3>1. SUFFICES ASSUME clean[e] PROVE Undisturbed(e)'
          BY DEF Undisturbed
    <3>2. before[e] \in Bindings
          BY DEF EditInv, EditTypeOK
    <3>3. Now(e) = before[e]
          BY <1>1, <1>7, <3>1 DEF Core, Undisturbed
    <3>4. \A k \in Kind : \A s \in Scope :
             /\ <<k, s>> \in ToRemove(r, p.seen)
                   <=> s \in before[e][k] /\ s \notin Target(r, before[e])[k]
             /\ <<k, s>> \in ToAdd(r, p.seen)
                   <=> s \notin before[e][k] /\ s \in Target(r, before[e])[k]
      <4>1. /\ r \in Request /\ p.seen \in Bindings
            /\ IF Ensures(r) THEN p.seen = before[e]
               ELSE p.seen[r.kind] = before[e][r.kind]
            BY <1>1, <3>1
      <4>. HIDE DEF r
      <4>. QED  BY <4>1, <3>2, PlanIsDifference
    <3>5. Undone(e)' = Plan(e)'
          BY <1>2, <1>4, <1>6 DEF Undone
    <3>6. /\ Of(e)' = r /\ Now(e)' = before[e] /\ before'[e] = before[e]
          /\ edit'[e].remove = ToRemove(r, p.seen) /\ edit'[e].add = ToAdd(r, p.seen)
          /\ edit'[e].pc = (IF r.dry THEN "ok" ELSE "apply")
          BY <1>2, <1>4, <1>5, <3>3
    <3>. QED  BY <1>5, <3>1, <3>4, <3>5, <3>6
              DEF Undisturbed, Planning, Applying
  <2>. QED  BY <2>1, <2>2, <2>3 DEF Core
<1>. QED  BY <1>1, <1>2, <1>3, <1>4, <1>8, RunKeeps, Same

(* A tool for one kind looks at the bindings of that kind only. *)
LEMMA OneKindDecides ==
    ASSUME NEW r \in Request, ~Ensures(r), NEW b, NEW c, b[r.kind] = c[r.kind],
           NEW g \in Goals(r)
    PROVE  Holds(r, g, b) => Holds(r, g, c)
<1>. USE RequestFacts DEF Ensures, Goals, Holds
<1>1. CASE r.tool = "add"  BY <1>1
<1>2. CASE r.tool = "delete"  BY <1>2
<1>3. CASE r.tool = "replace"  BY <1>3
<1>. QED  BY <1>1, <1>2, <1>3 DEF Tools

LEMMA ListKeeps ==
    ASSUME EditInv, NEW e \in Edit, List(e) PROVE EditInv'
<1>. DEFINE r == Of(e)
            k == IF Ensures(r) THEN "default" ELSE r.kind
            p == [edit[e] EXCEPT !.seen[k] = bound[r.client][k]]
<1>1. edit[e] \in AnEdit /\ Core(e) /\ r \in Request /\ edit[e].pc = "list"
      BY RecordFacts DEF List, Started
<1>2. k \in Kind /\ Now(e) \in Bindings /\ Now(e) = bound[r.client]
      BY <1>1, RequestFacts DEF EditInv, EditTypeOK, RegistryTypeOK, Kind, Now
<1>3. edit[e].seen \in Bindings
      BY <1>1 DEF AnEdit
<1>4. /\ p.seen = [edit[e].seen EXCEPT ![k] = Now(e)[k]] /\ p.req = r
      /\ p.remove = edit[e].remove /\ p.add = edit[e].add /\ p.sent = edit[e].sent
      /\ p.answer = edit[e].answer /\ p.pc = "list"
      BY <1>1, <1>2 DEF AnEdit, Of
<1>5. p.seen \in Bindings /\ p.seen[k] = Now(e)[k]
      /\ \A j \in Kind : j # k => p.seen[j] = edit[e].seen[j]
      BY <1>2, <1>3, <1>4 DEF Bindings
<1>6. p \in AnEdit
      BY <1>1, <1>5 DEF AnEdit
<1>7. clean[e] => Now(e) = before[e] /\ edit[e].seen = Unbound
      BY <1>1 DEF Core, Undisturbed, Planning, Started
<1>8. \A g \in Goals(r) : Holds(r, g, Now(e)) => g \in met[e]
      BY <1>1 DEF Core, Serving, Live
<1>9. CASE ~Ensures(r)
  <2>1. edit' = [edit EXCEPT ![e] = Planned(p)]
        BY <1>9 DEF List, Become, Of
  <2>2. \A g \in Goals(r) : Holds(r, g, p.seen) => g \in met[e]
        BY <1>1, <1>5, <1>8, <1>9, OneKindDecides
  <2>3. clean[e] => p.seen[r.kind] = before[e][r.kind]
        BY <1>5, <1>7, <1>9
  <2>. HIDE DEF p
  <2>. QED  BY <1>1, <1>4, <1>6, <1>9, <2>1, <2>2, <2>3, PlannedKeeps DEF List
<1>10. CASE Ensures(r)
  <2>. DEFINE d == [p EXCEPT !.pc = "list2"]
  <2>1. edit' = [edit EXCEPT ![e] = d]
        BY <1>10 DEF List, Become, Of
  <2>. HIDE DEF p
  <2>2. d \in AnEdit /\ d.pc = "list2" /\ d.req = r /\ d.seen = p.seen /\ d.remove = p.remove
        /\ d.add = p.add /\ d.sent = p.sent /\ d.answer = p.answer
        BY <1>4, <1>6 DEF AnEdit
  <2>. HIDE DEF d
  <2>3. edit'[e] = d
        BY <2>1 DEF EditInv, EditTypeOK
  <2>4. Of(e)' = r /\ Now(e)' = Now(e) /\ Plan(e)' = Plan(e)
        BY <1>4, <2>2, <2>3 DEF Of, Now, Plan, List, registry
  <2>5. wire' = wire /\ wire[e] = NoWire /\ met' = met /\ Plan(e) = {} /\ edit[e].answer = "none"
        BY <1>1 DEF List, Core, PlanSound, Planning
  <2>6. PlanSound(e)'
        BY <1>1, <1>4, <2>2, <2>3, <2>4, <2>5 DEF PlanSound, Planning, Applying, Started
  <2>7. Serving(e)'
    <3>1. ASSUME r.tool = "ensure_bound", NEW s \in r.asked, s \in p.seen["default"]
          PROVE  <<"either", s>> \in met[e]
      <4>1. <<"either", s>> \in Goals(r) /\ Holds(r, <<"either", s>>, Now(e))
            BY <1>5, <1>10, <3>1 DEF Goals, Holds, Kind
      <4>. QED  BY <4>1, <1>8
    <3>2. ASSUME r.tool = "ensure_unbound", NEW s \in r.asked, s \notin p.seen["default"]
          PROVE  <<"default", s>> \in met[e]
      <4>1. <<"default", s>> \in Goals(r) /\ Holds(r, <<"default", s>>, Now(e))
            BY <1>5, <1>10, <3>2 DEF Goals, Holds, Kind
      <4>. QED  BY <4>1, <1>8
    <3>. QED  BY <1>8, <1>10, <2>2, <2>3, <2>4, <2>5, <3>1, <3>2 DEF Serving, Applying
  <2>8. Undisturbed(e)'
    <3>1. clean[e] => p.seen["default"] = before[e]["default"] /\ p.seen["optional"] = {}
          BY <1>5, <1>7, <1>10 DEF Kind, Unbound
    <3>2. clean' = clean /\ before' = before  BY DEF List
    <3>. QED  BY <1>4, <1>7, <2>2, <2>3, <2>4, <2>5, <3>1, <3>2
              DEF Undisturbed, Planning, Applying, Plan
  <2>. QED  BY <1>1, <2>1, <2>2, <2>6, <2>7, <2>8, RunKeeps, Same DEF List, Core
<1>. QED  BY <1>9, <1>10

LEMMA ListOptionalKeeps ==
    ASSUME EditInv, NEW e \in Edit, ListOptional(e) PROVE EditInv'
<1>. DEFINE r == Of(e)
            p == [edit[e] EXCEPT !.seen["optional"] = bound[r.client]["optional"]]
<1>1. edit[e] \in AnEdit /\ Core(e) /\ r \in Request /\ edit[e].pc = "list2"
      BY RecordFacts DEF ListOptional, Started
<1>2. Now(e) \in Bindings /\ Now(e) = bound[r.client] /\ edit[e].seen \in Bindings
      BY <1>1, RequestFacts DEF EditInv, EditTypeOK, RegistryTypeOK, Now, AnEdit
<1>3. /\ p.seen = [edit[e].seen EXCEPT !["optional"] = Now(e)["optional"]] /\ p.req = r
      /\ p.answer = edit[e].answer
      BY <1>1, <1>2 DEF AnEdit, Of
<1>4. p.seen \in Bindings /\ p.seen["optional"] = Now(e)["optional"]
      /\ p.seen["default"] = edit[e].seen["default"]
      BY <1>2, <1>3 DEF Bindings, Kind
<1>5. p \in AnEdit
      BY <1>1, <1>4 DEF AnEdit
<1>6. clean[e] => p.seen = before[e]
  <2>1. before[e] \in Bindings  BY DEF EditInv, EditTypeOK
  <2>2. clean[e] => \A k \in Kind : p.seen[k] = before[e][k]
        BY <1>1, <1>4 DEF Core, Undisturbed, Planning, Started, Kind
  <2>. QED  BY <1>4, <2>1, <2>2 DEF Bindings
<1>7. \A g \in Goals(r) : Holds(r, g, Now(e)) => g \in met[e]
      BY <1>1 DEF Core, Serving, Live
<1>8. Ensures(r)
      BY <1>1 DEF Core, Serving
<1>. HIDE DEF p
<1>9. ASSUME NEW g \in Goals(r), Holds(r, g, p.seen)
      PROVE  g \in met[e]
  <2>1. CASE r.tool = "ensure_bound"
    <3>1. PICK s \in r.asked : g = <<"either", s>>
          BY <2>1, <1>9 DEF Goals
    <3>2. s \in edit[e].seen["default"] \/ s \in Now(e)["optional"]
          BY <1>4, <1>9, <2>1, <3>1 DEF Holds, Kind
    <3>3. s \in Now(e)["optional"] => Holds(r, g, Now(e))
          BY <2>1, <3>1 DEF Holds, Kind
    <3>. QED  BY <1>1, <1>7, <1>9, <2>1, <3>1, <3>2, <3>3 DEF Core, Serving
  <2>2. CASE r.tool = "ensure_unbound"
    <3>1. PICK k \in Kind, s \in r.asked : g = <<k, s>>
          BY <2>2, <1>9 DEF Goals
    <3>2. s \notin p.seen[k]
          BY <1>9, <2>2, <3>1 DEF Holds
    <3>3. CASE k = "default"
          BY <1>1, <1>4, <2>2, <3>1, <3>2, <3>3 DEF Core, Serving
    <3>4. CASE k = "optional"
      <4>1. Holds(r, g, Now(e))  BY <1>4, <2>2, <3>1, <3>2, <3>4 DEF Holds
      <4>. QED  BY <4>1, <1>7, <1>9
    <3>. QED  BY <3>3, <3>4 DEF Kind
  <2>. QED  BY <1>8, <2>1, <2>2 DEF Ensures
<1>10. edit' = [edit EXCEPT ![e] = Planned(p)]
      BY DEF ListOptional, Become, Of, p
<1>. QED  BY <1>1, <1>3, <1>5, <1>6, <1>8, <1>9, <1>10, PlannedKeeps DEF ListOptional

LEMMA SendKeeps ==
    ASSUME EditInv, NEW e \in Edit, Send(e) PROVE EditInv'
<1>1. edit[e] \in AnEdit /\ Core(e) /\ Of(e) \in Request /\ edit[e].pc = "apply"
      BY RecordFacts DEF Send, Started
<1>2. PICK x \in Due(edit[e]) :
          /\ edit' = [edit EXCEPT ![e] = [edit[e] EXCEPT !.pc = "wait", !.sent = x,
                                                        !.answer = "none"]]
          /\ wire' = [wire EXCEPT ![e] = x]
      BY DEF Send, Become
<1>3. x \in Plan(e) /\ x \in Edge
      BY <1>1 DEF Due, Plan, AnEdit
<1>. DEFINE d == [edit[e] EXCEPT !.pc = "wait", !.sent = x, !.answer = "none"]
<1>4. d \in AnEdit /\ d.pc = "wait" /\ d.req = edit[e].req /\ d.seen = edit[e].seen
      /\ d.remove = edit[e].remove /\ d.add = edit[e].add /\ d.sent = x
      /\ d.answer = "none"
      BY <1>1, <1>3 DEF AnEdit
<1>5. edit' = [edit EXCEPT ![e] = d] /\ edit'[e] = d
      BY <1>2 DEF EditInv, EditTypeOK
<1>. HIDE DEF d
<1>6. Of(e)' = Of(e) /\ Now(e)' = Now(e) /\ Plan(e)' = Plan(e)
      BY <1>4, <1>5 DEF Of, Now, Plan, Send, registry
<1>7. wire'[e] = x /\ wire' \in [Edit -> Edge \cup {NoWire}]
      /\ \A f \in Edit : f # e => wire'[f] = wire[f]
      BY <1>2, <1>3 DEF EditInv, EditTypeOK
<1>8. Undone(e)' = Plan(e) /\ Undone(e) = Plan(e)
      BY <1>1, <1>4, <1>5, <1>6 DEF Undone, Core, PlanSound
<1>9. Core(e)'
  <2>1. PlanSound(e)'
        BY <1>1, <1>3, <1>4, <1>5, <1>6, <1>7 DEF Core, PlanSound, Planning, Applying, Started
  <2>2. Serving(e)'
        BY <1>1, <1>4, <1>5, <1>6 DEF Core, Serving, Applying, Live, Send
  <2>3. Undisturbed(e)'
        BY <1>1, <1>4, <1>5, <1>6, <1>8
        DEF Core, Undisturbed, Planning, Applying, Started, Send
  <2>. QED  BY <2>1, <2>2, <2>3 DEF Core
<1>. QED  BY <1>1, <1>4, <1>5, <1>7, <1>9, RunKeeps DEF Send, Of

LEMMA AnsweredKeeps ==
    ASSUME EditInv, NEW e \in Edit, Answered(e) PROVE EditInv'
<1>. DEFINE x == edit[e].sent
            d == [edit[e] EXCEPT !.pc = "apply", !.remove = @ \ {x}, !.add = @ \ {x}]
<1>1. edit[e] \in AnEdit /\ Core(e) /\ Of(e) \in Request
      /\ edit[e].pc = "wait" /\ edit[e].answer = "done"
      BY RecordFacts DEF Answered, Started
<1>2. d \in AnEdit /\ d.pc = "apply" /\ d.req = edit[e].req /\ d.seen = edit[e].seen
      /\ d.remove = edit[e].remove \ {x} /\ d.add = edit[e].add \ {x} /\ d.sent = x
      /\ d.answer = "done"
      BY <1>1 DEF AnEdit
<1>3. edit' = [edit EXCEPT ![e] = d] /\ edit'[e] = d
      BY DEF Answered, Become, EditInv, EditTypeOK
<1>. HIDE DEF d
<1>4. Of(e)' = Of(e) /\ Now(e)' = Now(e) /\ Plan(e)' = Plan(e) \ {x}
      BY <1>2, <1>3 DEF Of, Now, Plan, Answered, registry
<1>5. Undone(e)' = Undone(e)
      BY <1>1, <1>2, <1>3, <1>4 DEF Undone
<1>6. wire[e] = NoWire
      BY <1>1 DEF Core, PlanSound
<1>7. Core(e)'
  <2>1. PlanSound(e)'
        BY <1>1, <1>2, <1>3, <1>4, <1>6
        DEF Core, PlanSound, Planning, Applying, Started, Answered
  <2>2. Serving(e)'
        BY <1>1, <1>2, <1>3, <1>4 DEF Core, Serving, Applying, Live, Answered
  <2>3. Undisturbed(e)'
        BY <1>1, <1>2, <1>3, <1>4, <1>5
        DEF Core, Undisturbed, Planning, Applying, Started, Answered
  <2>. QED  BY <2>1, <2>2, <2>3 DEF Core
<1>. QED  BY <1>1, <1>2, <1>3, <1>7, RunKeeps, Same DEF Answered, Of

LEMMA FinishKeeps ==
    ASSUME EditInv, NEW e \in Edit, Finish(e) PROVE EditInv'
<1>. DEFINE d == [edit[e] EXCEPT !.pc = "ok"]
<1>1. edit[e] \in AnEdit /\ Core(e) /\ Of(e) \in Request
      /\ edit[e].pc = "apply" /\ Plan(e) = {}
      BY RecordFacts DEF Finish, Started, Plan
<1>2. d \in AnEdit /\ d.pc = "ok" /\ d.req = edit[e].req /\ d.seen = edit[e].seen
      /\ d.remove = edit[e].remove /\ d.add = edit[e].add /\ d.sent = edit[e].sent
      /\ d.answer = edit[e].answer
      BY <1>1 DEF AnEdit
<1>3. edit' = [edit EXCEPT ![e] = d] /\ edit'[e] = d
      BY DEF Finish, Become, EditInv, EditTypeOK
<1>. HIDE DEF d
<1>4. Of(e)' = Of(e) /\ Now(e)' = Now(e) /\ Plan(e)' = {} /\ Undone(e)' = Undone(e)
      BY <1>1, <1>2, <1>3 DEF Of, Now, Plan, Undone, Finish, registry
<1>5. wire[e] = NoWire /\ ~Of(e).dry
      BY <1>1 DEF Core, PlanSound, Applying
<1>6. Core(e)'
  <2>1. PlanSound(e)'
        BY <1>1, <1>2, <1>3, <1>4, <1>5
        DEF Core, PlanSound, Planning, Applying, Started, Finish
  <2>2. Serving(e)'
        BY <1>1, <1>2, <1>3, <1>4 DEF Core, Serving, Applying, Live, Finish
  <2>3. Undisturbed(e)'
        BY <1>1, <1>2, <1>3, <1>4, <1>5
        DEF Core, Undisturbed, Planning, Applying, Started, Finish
  <2>. QED  BY <2>1, <2>2, <2>3 DEF Core
<1>. QED  BY <1>1, <1>2, <1>3, <1>6, RunKeeps, Same DEF Finish, Of

LEMMA DeclineKeeps ==
    ASSUME EditInv, NEW e \in Edit, Decline(e) PROVE EditInv'
<1>. DEFINE d == [edit[e] EXCEPT !.answer = "failed"]
<1>1. edit[e] \in AnEdit /\ Core(e) /\ wire[e] # NoWire
      BY RecordFacts DEF Decline
<1>2. Started(e) /\ ~Of(e).dry /\ Of(e) \in Request /\ edit[e].answer = "none"
      /\ edit[e].pc \in {"wait", "error"}
      BY <1>1 DEF Core, PlanSound
<1>3. d \in AnEdit /\ d.pc = edit[e].pc /\ d.req = edit[e].req /\ d.seen = edit[e].seen
      /\ d.remove = edit[e].remove /\ d.add = edit[e].add /\ d.sent = edit[e].sent
      /\ d.answer = "failed"
      BY <1>1 DEF AnEdit
<1>4. edit' = [edit EXCEPT ![e] = d] /\ edit'[e] = d
      BY DEF Decline, Become, EditInv, EditTypeOK
<1>. HIDE DEF d
<1>5. Of(e)' = Of(e) /\ Now(e)' = Now(e) /\ Plan(e)' = Plan(e) /\ Undone(e)' = Undone(e)
      BY <1>2, <1>3, <1>4 DEF Of, Now, Plan, Undone, Decline, registry
<1>6. wire'[e] = NoWire /\ wire' \in [Edit -> Edge \cup {NoWire}]
      /\ \A f \in Edit : f # e => wire'[f] = wire[f]
      BY DEF Decline, EditInv, EditTypeOK
<1>7. Core(e)'
  <2>1. PlanSound(e)'
        BY <1>1, <1>2, <1>3, <1>4, <1>5, <1>6
        DEF Core, PlanSound, Planning, Applying, Started
  <2>2. Serving(e)'
        BY <1>1, <1>2, <1>3, <1>4, <1>5 DEF Core, Serving, Applying, Live, Decline
  <2>3. Undisturbed(e)'
        BY <1>1, <1>2, <1>3, <1>4, <1>5
        DEF Core, Undisturbed, Planning, Applying, Started, Decline
  <2>. QED  BY <2>1, <2>2, <2>3 DEF Core
<1>. QED  BY <1>1, <1>2, <1>3, <1>4, <1>6, <1>7, RunKeeps DEF Decline, Of, Started

(* What Keycloak makes of a change. *)
LEMMA ServedBindings ==
    ASSUME NEW c \in Client, NEW x \in Edge, RegistryTypeOK
    PROVE  /\ Put(c, x) =>
                /\ bound' \in [Client -> Bindings] /\ x[2] \in bound'[c][x[1]]
                /\ \A k \in Kind : \A s \in Scope :
                       <<k, s>> # x => (s \in bound'[c][k] <=> s \in bound[c][k])
           /\ Delete(c, x) =>
                /\ bound' \in [Client -> Bindings] /\ x[2] \notin bound'[c][x[1]]
                /\ \A k \in Kind : \A s \in Scope :
                       <<k, s>> # x => (s \in bound'[c][k] <=> s \in bound[c][k])
<1>1. PICK i \in Kind, t \in Scope : x = <<i, t>>
      BY DEF Edge
<1>2. bound \in [Client -> Bindings] /\ bound[c] \in [Kind -> SUBSET Scope]
      BY DEF RegistryTypeOK, Bindings
<1>3. ASSUME NEW T \in SUBSET Scope, bound' = [bound EXCEPT ![c] = [bound[c] EXCEPT ![i] = T]]
      PROVE  /\ bound' \in [Client -> Bindings] /\ bound'[c][i] = T
             /\ \A k \in Kind : k # i => bound'[c][k] = bound[c][k]
  <2>. DEFINE n == [bound[c] EXCEPT ![i] = T]
  <2>1. n \in Bindings /\ n[i] = T /\ \A k \in Kind : k # i => n[k] = bound[c][k]
        BY <1>2 DEF Bindings
  <2>2. bound' = [bound EXCEPT ![c] = n]  BY <1>3
  <2>. HIDE DEF n
  <2>. QED  BY <1>2, <2>1, <2>2
<1>4. Put(c, x) => bound' = [bound EXCEPT ![c] = [bound[c] EXCEPT ![i] = bound[c][i] \cup {t}]]
      BY <1>1, <1>2 DEF Put
<1>5. Delete(c, x) => bound' = [bound EXCEPT ![c] = [bound[c] EXCEPT ![i] = bound[c][i] \ {t}]]
      BY <1>1, <1>2 DEF Delete
<1>6. bound[c][i] \cup {t} \in SUBSET Scope /\ bound[c][i] \ {t} \in SUBSET Scope
      BY <1>1, <1>2
<1>7. CASE Put(c, x)
  <2>1. bound' \in [Client -> Bindings] /\ bound'[c][i] = bound[c][i] \cup {t}
        /\ \A k \in Kind : k # i => bound'[c][k] = bound[c][k]
        BY <1>3, <1>4, <1>6, <1>7
  <2>2. ~Delete(c, x) \/ t \notin bound'[c][i]
    <3>1. ASSUME Delete(c, x) PROVE bound'[c][i] = bound[c][i] \ {t}
          BY <1>3, <1>5, <1>6, <3>1
    <3>. QED  BY <3>1
  <2>. QED  BY <1>1, <2>1, <2>2
<1>8. CASE Delete(c, x) /\ ~Put(c, x)
  <2>1. bound' \in [Client -> Bindings] /\ bound'[c][i] = bound[c][i] \ {t}
        /\ \A k \in Kind : k # i => bound'[c][k] = bound[c][k]
        BY <1>3, <1>5, <1>6, <1>8
  <2>. QED  BY <1>1, <1>8, <2>1
<1>. QED  BY <1>7, <1>8

LEMMA ServeKeeps ==
    ASSUME EditInv, NEW e \in Edit, Serve(e) PROVE EditInv'
<1>. DEFINE r == Of(e)
            x == wire[e]
            d == [edit[e] EXCEPT !.answer = "done"]
<1>1. edit[e] \in AnEdit /\ Core(e) /\ x # NoWire /\ x \in Edge
      BY RecordFacts DEF Serve, EditInv, EditTypeOK
<1>2. /\ Started(e) /\ ~r.dry /\ r \in Request /\ edit[e].answer = "none"
      /\ edit[e].pc \in {"wait", "error"} /\ x = edit[e].sent /\ x \in Plan(e)
      /\ edit[e].remove \subseteq ToRemove(r, edit[e].seen)
      /\ edit[e].add \subseteq ToAdd(r, edit[e].seen)
      BY <1>1 DEF Core, PlanSound
<1>3. d \in AnEdit /\ d.pc = edit[e].pc /\ d.req = edit[e].req /\ d.seen = edit[e].seen
      /\ d.remove = edit[e].remove /\ d.add = edit[e].add /\ d.sent = x
      /\ d.answer = "done"
      BY <1>1, <1>2 DEF AnEdit
<1>4. edit' = [edit EXCEPT ![e] = d] /\ edit'[e] = d
      BY DEF Serve, Become, EditInv, EditTypeOK
<1>. HIDE DEF d
<1>5. Of(e)' = r /\ Plan(e)' = Plan(e) /\ Undone(e)' = Plan(e) \ {x} /\ Undone(e) = Plan(e)
      BY <1>2, <1>3, <1>4 DEF Of, Plan, Undone
<1>6. wire'[e] = NoWire /\ wire' \in [Edit -> Edge \cup {NoWire}]
      /\ \A f \in Edit : f # e => wire'[f] = wire[f]
      BY DEF Serve, EditInv, EditTypeOK
<1>7. /\ bound' \in [Client -> Bindings]
      /\ x \in edit[e].add => x[2] \in Now(e)'[x[1]]
      /\ x \notin edit[e].add => x[2] \notin Now(e)'[x[1]]
      /\ \A k \in Kind : \A s \in Scope :
             <<k, s>> # x => (s \in Now(e)'[k] <=> s \in Now(e)[k])
  <2>1. r.client \in Client  BY <1>2, RequestFacts
  <2>2. IF x \in edit[e].add THEN Put(r.client, x) ELSE Delete(r.client, x)
        BY DEF Serve, Adds, Of
  <2>3. RegistryTypeOK  BY DEF EditInv, EditTypeOK
  <2>4. Now(e)' = bound'[r.client] /\ Now(e) = bound[r.client]
        BY <1>5 DEF Now
  <2>. QED  BY <1>1, <2>1, <2>2, <2>3, <2>4, ServedBindings
<1>8. Noted({e}) /\ UNCHANGED <<there, enabled, tagged>>
      BY DEF Serve
<1>9. EditTypeOK'
  <2>1. \A f \in Edit : Started(f)' => edit'[f].req \in Request
        BY <1>2, <1>3, <1>4 DEF EditInv, EditTypeOK, Started, Of
  <2>2. edit' \in [Edit -> AnEdit]
        BY <1>3, <1>4 DEF EditInv, EditTypeOK
  <2>3. RegistryTypeOK'
        BY <1>7, <1>8 DEF EditInv, EditTypeOK, RegistryTypeOK
  <2>4. {e} \in SUBSET Edit  OBVIOUS
  <2>. QED  BY <1>6, <1>8, <2>1, <2>2, <2>3, <2>4, NotedTyped DEF EditInv, EditTypeOK
<1>10. ASSUME NEW f \in Edit, f # e PROVE Core(f)'
  <2>1. edit'[f] = edit[f] /\ wire'[f] = wire[f] /\ f \notin {e} /\ {e} \in SUBSET Edit
        BY <1>4, <1>6, <1>10 DEF EditInv, EditTypeOK
  <2>. QED  BY <1>8, <2>1, NotedLeavesOthers
<1>11. Core(e)'
  <2>1. PlanSound(e)'
        BY <1>1, <1>2, <1>3, <1>4, <1>5, <1>6
        DEF Core, PlanSound, Planning, Applying, Started
  <2>2. met'[e] = IF Live(e) THEN met[e] \cup {g \in Goals(r) : Holds(r, g, Now(e)')} ELSE met[e]
        BY <1>5, <1>8 DEF Noted, Of, Now
  <2>3. Serving(e)'
    <3>1. CASE edit[e].pc = "error"
          BY <1>3, <1>4, <3>1 DEF Serving, Applying, Live
    <3>2. CASE edit[e].pc = "wait"
      <4>1. Live(e)  BY <3>2 DEF Live
      <4>2. ASSUME NEW g \in Goals(r), ChangeFor(r, g) = x
            PROVE  Holds(r, g, Now(e)')
        <5>1. PICK k \in Kind, s \in Scope : x = <<k, s>>
              BY <1>1 DEF Edge
        <5>2. Now(e)' \in Bindings
              BY <1>2, <1>5, <1>7, RequestFacts DEF Now
        <5>3. x \in edit[e].add \/ x \in edit[e].remove
              BY <1>2 DEF Plan
        <5>4. edit[e].seen \in Bindings  BY <1>1 DEF AnEdit
        <5>. QED  BY <1>2, <1>7, <4>2, <5>1, <5>2, <5>3, <5>4, ChangeBringsGoal
      <4>. QED  BY <1>1, <1>2, <1>3, <1>4, <1>5, <2>2, <3>2, <4>1, <4>2
                DEF Core, Serving, Applying, Live
    <3>. QED  BY <1>2, <3>1, <3>2
  <2>4. Undisturbed(e)'
    <3>. SUFFICES ASSUME clean'[e] PROVE Undisturbed(e)'
         BY DEF Undisturbed
    <3>1. clean[e] /\ before'[e] = before[e]
          BY <1>8 DEF Noted, EditInv, EditTypeOK
    <3>. DEFINE old == before[e]
                new == Target(r, old)
    <3>2. \A k \in Kind : \A s \in Scope :
             /\ <<k, s>> \in edit[e].remove => s \in old[k] /\ s \notin new[k]
             /\ <<k, s>> \in edit[e].add => s \notin old[k] /\ s \in new[k]
             /\ s \in Now(e)[k] => s \in old[k] \/ s \in new[k]
             /\ s \in old[k] /\ s \in new[k] => s \in Now(e)[k]
             /\ edit[e].pc = "wait" =>
                   (s \in Now(e)[k] <=> IF <<k, s>> \in Plan(e) THEN s \in old[k] ELSE s \in new[k])
          BY <1>1, <1>2, <1>5, <3>1 DEF Core, Undisturbed, Applying
    <3>3. ASSUME NEW k \in Kind, NEW s \in Scope
          PROVE  /\ s \in Now(e)'[k] => s \in old[k] \/ s \in new[k]
                 /\ s \in old[k] /\ s \in new[k] => s \in Now(e)'[k]
                 /\ edit[e].pc = "wait" =>
                      (s \in Now(e)'[k] <=> IF <<k, s>> \in Plan(e) \ {x}
                                           THEN s \in old[k] ELSE s \in new[k])
      <4>1. CASE <<k, s>> # x
            BY <1>7, <3>2, <4>1
      <4>2. CASE <<k, s>> = x
            BY <1>2, <1>7, <3>2, <4>2 DEF Plan
      <4>. QED  BY <4>1, <4>2
    <3>. HIDE DEF old, new
    <3>4. \A k \in Kind : \A s \in Scope :
             /\ <<k, s>> \in edit'[e].remove => s \in old[k] /\ s \notin new[k]
             /\ <<k, s>> \in edit'[e].add => s \notin old[k] /\ s \in new[k]
          BY <1>3, <1>4, <3>2
    <3>. QED  BY <1>2, <1>3, <1>4, <1>5, <3>1, <3>3, <3>4
              DEF Undisturbed, Planning, Applying, old, new
  <2>. QED  BY <2>1, <2>3, <2>4 DEF Core
<1>. QED  BY <1>9, <1>10, <1>11 DEF EditInv

-----------------------------------------------------------------------------
LEMMA StepKeeps ==
    ASSUME EditInv, NEW e \in Edit, EditStep(e) PROVE EditInv'
BY BeginKeeps, ResolveKeeps, RefusalsKeep, ListKeeps, ListOptionalKeeps, SendKeeps,
   AnsweredKeeps, FinishKeeps, ServeKeeps, DeclineKeeps DEF EditStep, EditRuns

LEMMA StutterKeeps == EditInv /\ UNCHANGED <<registry, evars>> => EditInv'
<1>. SUFFICES ASSUME EditInv, UNCHANGED <<registry, evars>> PROVE EditInv'
     OBVIOUS
<1>1. EditTypeOK'
      BY DEF EditInv, EditTypeOK, RegistryTypeOK, registry, evars, Started
<1>2. ASSUME NEW f \in Edit PROVE Core(f)'
  <2>1. Core(f)  BY DEF EditInv
  <2>. QED  BY <2>1, BystanderKeeps
            DEF Bystands, registry, evars, Now, Of, Core, Serving
<1>. QED  BY <1>1, <1>2 DEF EditInv

(* The invariant holds of every call at any time, whatever others do. *)
THEOREM EditInvHolds == EditSpec => []EditInv
<1>1. EditInv /\ [(\E e \in Edit : EditStep(e)) \/ Others]_<<registry, evars>> => EditInv'
      BY StepKeeps, OthersKeep, StutterKeeps
<1>. QED  BY Initially, <1>1, PTL DEF EditSpec

(* Types (edit, wire and the histories of scopes.rs' calls). *)
THEOREM EditTypeCorrect == EditSpec => []EditTypeOK
BY EditInvHolds, PTL DEF EditInv

(* A call of scopes.rs that told success has had each scope it was asked    *)
(* about in the state asked for, whatever others did meanwhile.             *)
THEOREM EveryScopeServed == EditSpec => []EachScopeServed
<1>1. EditInv => EachScopeServed
      BY DEF EditInv, Core, Serving, EachScopeServed, Of
<1>. QED  BY <1>1, EditInvHolds, PTL

(* Undisturbed, success leaves exactly the bindings asked for. *)
THEOREM UndisturbedExact == EditSpec => []UndisturbedIsExact
<1>1. ASSUME EditInv, NEW e \in Edit, edit[e].pc = "ok", ~Of(e).dry, clean[e]
      PROVE  Now(e) = Target(Of(e), before[e])
  <2>1. Core(e) /\ Started(e) /\ Of(e) \in Request /\ before[e] \in Bindings
        BY <1>1 DEF EditInv, EditTypeOK, Started, Of
  <2>2. Now(e) \in Bindings /\ Target(Of(e), before[e]) \in Bindings
        BY <1>1, <2>1, RequestFacts, TargetType DEF EditInv, EditTypeOK, RegistryTypeOK, Now
  <2>3. Plan(e) = {} /\ Undone(e) = {}
        BY <1>1, <2>1 DEF Core, Undisturbed, Undone
  <2>4. \A k \in Kind : \A s \in Scope :
            s \in Now(e)[k] <=> s \in Target(Of(e), before[e])[k]
        BY <1>1, <2>1, <2>3 DEF Core, Undisturbed
  <2>5. \A k \in Kind : Now(e)[k] = Target(Of(e), before[e])[k]
        BY <2>2, <2>4 DEF Bindings
  <2>. QED  BY <2>2, <2>5 DEF Bindings
<1>2. EditInv => UndisturbedIsExact
      BY <1>1 DEF UndisturbedIsExact, Of, Now
<1>. QED  BY <1>2, EditInvHolds, PTL

(* Undisturbed, and at every moment, also half way and behind a failure, the *)
(* bindings lie between the old and the new.                                 *)
THEOREM StaysBetween == EditSpec => []PartialEditsStayBetween
<1>1. ASSUME EditInv, NEW e \in Edit, Started(e), clean[e]
      PROVE  /\ Of(e).dry => Now(e) = before[e]
             /\ \A k \in Kind :
                    /\ before[e][k] \cap Target(Of(e), before[e])[k] \subseteq Now(e)[k]
                    /\ Now(e)[k] \subseteq before[e][k] \cup Target(Of(e), before[e])[k]
  <2>1. Core(e) /\ Of(e) \in Request /\ before[e] \in Bindings /\ Now(e) \in Bindings
        BY <1>1, RequestFacts DEF EditInv, EditTypeOK, RegistryTypeOK, Of, Now
  <2>2. Of(e).dry => Now(e) = before[e]
        BY <1>1, <2>1 DEF Core, Undisturbed
  <2>3. \A k \in Kind : \A s \in Scope :
            /\ s \in Now(e)[k] => s \in before[e][k] \/ s \in Target(Of(e), before[e])[k]
            /\ s \in before[e][k] /\ s \in Target(Of(e), before[e])[k] => s \in Now(e)[k]
        BY <1>1, <2>1 DEF Core, Undisturbed
  <2>. QED  BY <2>1, <2>2, <2>3 DEF Bindings
<1>2. EditInv => PartialEditsStayBetween
      BY <1>1 DEF PartialEditsStayBetween, Of, Now
<1>. QED  BY <1>2, EditInvHolds, PTL

(* An undisturbed dry run reports the difference the real call would make. *)
THEOREM DryRunTells == EditSpec => []DryRunForetells
<1>1. ASSUME EditInv, NEW e \in Edit, edit[e].pc = "ok", Of(e).dry, clean[e]
      PROVE  LET new == Target(Of(e), before[e])
             IN  /\ edit[e].remove = UNION {{k} \X (before[e][k] \ new[k]) : k \in Kind}
                 /\ edit[e].add = UNION {{k} \X (new[k] \ before[e][k]) : k \in Kind}
  <2>. DEFINE new == Target(Of(e), before[e])
  <2>1. Core(e) /\ Started(e) /\ Of(e) \in Request /\ before[e] \in Bindings
        /\ edit[e].remove \subseteq Edge /\ edit[e].add \subseteq Edge
        BY <1>1 DEF EditInv, EditTypeOK, Started, Of, AnEdit
  <2>2. new \in Bindings  BY <2>1, TargetType
  <2>3. \A k \in Kind : \A s \in Scope :
            /\ <<k, s>> \in edit[e].remove <=> s \in before[e][k] /\ s \notin new[k]
            /\ <<k, s>> \in edit[e].add <=> s \notin before[e][k] /\ s \in new[k]
        BY <1>1, <2>1 DEF Core, Undisturbed
  <2>. HIDE DEF new
  <2>4. edit[e].remove = UNION {{k} \X (before[e][k] \ new[k]) : k \in Kind}
        BY <2>1, <2>2, <2>3 DEF Bindings, Edge
  <2>5. edit[e].add = UNION {{k} \X (new[k] \ before[e][k]) : k \in Kind}
        BY <2>1, <2>2, <2>3 DEF Bindings, Edge
  <2>. QED  BY <2>4, <2>5 DEF new
<1>2. EditInv => DryRunForetells
      BY <1>1 DEF DryRunForetells, Of
<1>. QED  BY <1>2, EditInvHolds, PTL
=============================================================================
