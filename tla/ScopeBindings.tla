--------------------------- MODULE ScopeBindings ----------------------------
(***************************************************************************)
(* The tools of clients/scopes.rs that bind and unbind client scopes:      *)
(* clients.{default,optional}_scopes.{add,delete,replace} and              *)
(* clients.scope.ensure.  A call reads the client's bindings, plans what   *)
(* to change, and changes one binding per request; the first request that  *)
(* fails ends it.  Meanwhile others change the same bindings, and a        *)
(* request whose answer never came may still be on its way to Keycloak.    *)
(***************************************************************************)
EXTENDS ClientRegistry, PagedLookup

CONSTANTS
    Edit,     \* calls of these tools
    Request   \* their arguments: see ARequest

Tools == {"add", "delete", "replace", "ensure_bound", "ensure_unbound"}

ARequest(r) ==
    /\ r.tool \in Tools
    /\ r.client \in Client
    /\ r.kind \in Kind             \* clients.scope.ensure does not use it
    /\ r.asked \in SUBSET Scope    \* what its ids and names resolve to
    /\ r.dry \in BOOLEAN           \* dry_run
    /\ r.allow_empty \in BOOLEAN   \* as is confirm, of replace only
    /\ r.confirm \in BOOLEAN

ASSUME EditAssumption == \A r \in Request : ARequest(r)

Edge == Kind \X Scope

VARIABLES
    edit,   \* each call: where it is, what it read and what is left of its plan
    wire,   \* the request of it that Keycloak has not seen yet
    clean,  \* history: only the call itself has changed its client since it began
    before, \* history: the bindings when it began
    met     \* history: the goals of it that held at some moment since it began

evars == <<edit, wire, clean, before, met>>

NoRequest == [tool |-> "none"]
NoWire == <<"none", "none">>
Idle == [req |-> NoRequest, pc |-> "idle", first |-> 0, seen |-> Unbound, remove |-> {},
         add |-> {}, sent |-> NoWire, answer |-> "none"]

Live(e) == edit[e].pc \notin {"idle", "ok", "error"}
Started(e) == edit[e].pc # "idle"
Ensures(r) == r.tool \in {"ensure_bound", "ensure_unbound"}

-----------------------------------------------------------------------------
(* What a call is for: its goals, each about one scope.                    *)

Goals(r) ==
    CASE r.tool \in {"add", "delete"} -> {r.kind} \X r.asked
      [] r.tool = "replace" -> {r.kind} \X Scope
      [] r.tool = "ensure_bound" -> {"either"} \X r.asked
      [] r.tool = "ensure_unbound" -> Kind \X r.asked
      [] OTHER -> {}

Holds(r, goal, b) ==
    CASE r.tool = "add" -> goal[2] \in b[goal[1]]
      [] r.tool = "replace" -> goal[2] \in b[goal[1]] <=> goal[2] \in r.asked
      [] r.tool = "ensure_bound" -> \E k \in Kind : goal[2] \in b[k]
      [] OTHER -> goal[2] \notin b[goal[1]]

(* The bindings a call leaves if it finds b and nobody interferes. *)
Target(r, b) ==
    CASE r.tool = "add" -> [b EXCEPT ![r.kind] = @ \cup r.asked]
      [] r.tool = "delete" -> [b EXCEPT ![r.kind] = @ \ r.asked]
      [] r.tool = "replace" -> [b EXCEPT ![r.kind] = r.asked]
      [] r.tool = "ensure_bound" ->
             [b EXCEPT !["default"] = @ \cup (r.asked \ b["optional"])]
      [] OTHER -> [k \in Kind |-> b[k] \ r.asked]

-----------------------------------------------------------------------------
(* scope_add_plan, scope_remove_plan, scope_replace_plan, and the two      *)
(* branches of clients_scope_ensure.                                       *)

ToAdd(r, seen) ==
    CASE r.tool \in {"add", "replace"} -> {r.kind} \X (r.asked \ seen[r.kind])
      [] r.tool = "ensure_bound" ->
             {"default"} \X (r.asked \ (seen["default"] \cup seen["optional"]))
      [] OTHER -> {}

ToRemoveAll(r, seen) ==                                  \* mutant of ToRemove
    CASE r.tool = "delete" -> {r.kind} \X (r.asked \cap seen[r.kind])
      [] r.tool = "replace" -> {r.kind} \X seen[r.kind]
      [] r.tool = "ensure_unbound" -> UNION {{k} \X (r.asked \cap seen[k]) : k \in Kind}
      [] OTHER -> {}
ToRemoveDefault(r, seen) ==                              \* mutant of ToRemove
    CASE r.tool = "delete" -> {r.kind} \X (r.asked \cap seen[r.kind])
      [] r.tool = "replace" -> {r.kind} \X (seen[r.kind] \ r.asked)
      [] r.tool = "ensure_unbound" -> {"default"} \X (r.asked \cap seen["default"])
      [] OTHER -> {}
ToRemove(r, seen) ==
    CASE r.tool = "delete" -> {r.kind} \X (r.asked \cap seen[r.kind])
      [] r.tool = "replace" -> {r.kind} \X (seen[r.kind] \ r.asked)
      [] r.tool = "ensure_unbound" -> UNION {{k} \X (r.asked \cap seen[k]) : k \in Kind}
      [] OTHER -> {}

(* The next change: all removals before any addition, and of a scope       *)
(* bound both ways the default binding first.  Ids are applied in order;   *)
(* as a model's ids have none, any order stands for it.                    *)
Due(d) ==
    IF d.remove = {} THEN d.add
    ELSE {x \in d.remove : x[1] = "default" \/ \A y \in d.remove : y[1] # "default"}

-----------------------------------------------------------------------------
Become(e, d) == edit' = [edit EXCEPT ![e] = d]
Fail(e) == Become(e, [edit[e] EXCEPT !.pc = "error"])

(* Every change of the bindings is seen by the history of the calls: not   *)
(* their own (but for the calls in own), and which goals hold behind it.   *)
Noted(own) ==
    /\ clean' = [f \in Edit |->
           clean[f] /\ (f \in own \/ ~Started(f)
                        \/ bound'[edit[f].req.client] = bound[edit[f].req.client])]
    /\ met' = [f \in Edit |->
           IF Live(f)
           THEN met[f] \cup {g \in Goals(edit[f].req) :
                                 Holds(edit[f].req, g, bound'[edit[f].req.client])}
           ELSE met[f]]
    /\ UNCHANGED before

Begin(e, r) ==
    /\ edit[e].pc = "idle"
    /\ Become(e, [Idle EXCEPT !.req = r, !.pc = "resolve"])
    /\ clean' = [clean EXCEPT ![e] = TRUE]
    /\ before' = [before EXCEPT ![e] = bound[r.client]]
    /\ met' = [met EXCEPT ![e] = {g \in Goals(r) : Holds(r, g, bound[r.client])}]
    /\ UNCHANGED <<registry, wire>>

(* resolve_client_id, then resolve_scope_ids: the scopes of the realm are  *)
(* asked for a page at a time, until a page is not full (PagedLookup).     *)
AskPage(e) ==
    /\ edit[e].pc = "resolve"
    /\ Become(e, [edit[e] EXCEPT !.pc = "page"])
    /\ UNCHANGED <<registry, wire, clean, before, met>>

FullPage(e) ==
    /\ edit[e].pc = "page"
    /\ Advances(edit[e].first)
    /\ Become(e, [edit[e] EXCEPT !.pc = "resolve", !.first = NextFirst(edit[e].first)])
    /\ UNCHANGED <<registry, wire, clean, before, met>>

(* The early returns around the lookup, and the last page, behind which    *)
(* nothing is left of the lookup but what it found.                        *)
Refused(r) ==
    \/ r.tool = "replace" /\ (~r.confirm \/ (r.asked = {} /\ ~r.allow_empty))
    \/ r.tool \in {"add", "delete"} /\ r.asked = {}

Resolve(e) ==
    /\ edit[e].pc = "page"
    /\ ~Refused(edit[e].req)
    /\ Become(e, [edit[e] EXCEPT !.pc = "list", !.first = 0])
    /\ UNCHANGED <<registry, wire, clean, before, met>>

(* Bad arguments, a client or scope not found, a lookup that fails or is   *)
(* still given full pages when its cursor no longer advances.              *)
Refuse(e) ==
    /\ edit[e].pc \in {"resolve", "page"}
    /\ Become(e, [edit[e] EXCEPT !.pc = "error", !.first = 0])
    /\ UNCHANGED <<registry, wire, clean, before, met>>

(* The bindings of both kinds are read in two requests, if both are.  An   *)
(* answer that is not a list is taken for an empty one; that Keycloak's    *)
(* good answers to these are lists is assumed of it.                       *)
PlannedAnyhow(d) ==                                      \* mutant of Planned
    [d EXCEPT !.remove = ToRemove(d.req, d.seen), !.add = ToAdd(d.req, d.seen),
              !.pc = "apply"]
Planned(d) ==
    [d EXCEPT !.remove = ToRemove(d.req, d.seen), !.add = ToAdd(d.req, d.seen),
              !.pc = IF d.req.dry THEN "ok" ELSE "apply"]

List(e) ==
    LET r == edit[e].req
        k == IF Ensures(r) THEN "default" ELSE r.kind
        d == [edit[e] EXCEPT !.seen[k] = bound[r.client][k]]
    IN  /\ edit[e].pc = "list"
        /\ r.client \in there
        /\ Become(e, IF Ensures(r) THEN [d EXCEPT !.pc = "list2"] ELSE Planned(d))
        /\ UNCHANGED <<registry, wire, clean, before, met>>

ListOptional(e) ==
    LET r == edit[e].req
    IN  /\ edit[e].pc = "list2"
        /\ r.client \in there
        /\ Become(e, Planned([edit[e] EXCEPT !.seen["optional"] = bound[r.client]["optional"]]))
        /\ UNCHANGED <<registry, wire, clean, before, met>>

ListFails(e) ==
    /\ edit[e].pc \in {"list", "list2"}
    /\ Fail(e)
    /\ UNCHANGED <<registry, wire, clean, before, met>>

-----------------------------------------------------------------------------
(* apply_scope_mutation, one binding at a time. *)

Send(e) ==
    /\ edit[e].pc = "apply"
    /\ \E x \in Due(edit[e]) :
           /\ Become(e, [edit[e] EXCEPT !.pc = "wait", !.sent = x, !.answer = "none"])
           /\ wire' = [wire EXCEPT ![e] = x]
    /\ UNCHANGED <<registry, clean, before, met>>

(* External: Keycloak carries out what is on the wire, whoever still waits. *)
Adds(e) == wire[e] \in edit[e].add

Serve(e) ==
    LET c == edit[e].req.client
    IN  /\ wire[e] # NoWire
        /\ c \in there
        /\ IF Adds(e) THEN Put(c, wire[e]) ELSE Delete(c, wire[e])
        /\ UNCHANGED <<there, enabled, tagged>>
        /\ wire' = [wire EXCEPT ![e] = NoWire]
        /\ Become(e, [edit[e] EXCEPT !.answer = "done"])
        /\ Noted({e})

(* External: turned down (the client or scope is gone, or any other        *)
(* reason), or lost before Keycloak or the gateway saw it.                 *)
Decline(e) ==
    /\ wire[e] # NoWire
    /\ wire' = [wire EXCEPT ![e] = NoWire]
    /\ Become(e, [edit[e] EXCEPT !.answer = "failed"])
    /\ UNCHANGED <<registry, clean, before, met>>

AnsweredAnyhow(e) ==                                     \* mutant of Answered
    /\ edit[e].pc = "wait" /\ edit[e].answer # "none"
    /\ Become(e, [edit[e] EXCEPT !.pc = "apply", !.remove = @ \ {edit[e].sent},
                                 !.add = @ \ {edit[e].sent}])
    /\ UNCHANGED <<registry, wire, clean, before, met>>
Answered(e) ==
    /\ edit[e].pc = "wait" /\ edit[e].answer = "done"
    /\ Become(e, [edit[e] EXCEPT !.pc = "apply", !.remove = @ \ {edit[e].sent},
                                 !.add = @ \ {edit[e].sent}])
    /\ UNCHANGED <<registry, wire, clean, before, met>>

(* A failure, or no answer in time: the client's timeout (gateway.rs). *)
GiveUp(e) ==
    /\ edit[e].pc = "wait" /\ edit[e].answer # "done"
    /\ Fail(e)
    /\ UNCHANGED <<registry, wire, clean, before, met>>

Finish(e) ==
    /\ edit[e].pc = "apply" /\ edit[e].remove = {} /\ edit[e].add = {}
    /\ Become(e, [edit[e] EXCEPT !.pc = "ok"])
    /\ UNCHANGED <<registry, wire, clean, before, met>>

(* Anybody else: administrators and other tools. *)
Others ==
    /\ RegistryTypeOK'
    /\ UNCHANGED <<edit, wire>>
    /\ Noted({})

EditInit ==
    /\ edit = [e \in Edit |-> Idle] /\ wire = [e \in Edit |-> NoWire]
    /\ clean = [e \in Edit |-> FALSE] /\ before = [e \in Edit |-> Unbound]
    /\ met = [e \in Edit |-> {}]

(* What the handler does by itself, and all that happens to its call. *)
EditRuns(e) ==
    \/ AskPage(e) \/ FullPage(e) \/ Resolve(e) \/ Refuse(e)
    \/ List(e) \/ ListOptional(e) \/ ListFails(e)
    \/ Send(e) \/ Answered(e) \/ GiveUp(e) \/ Finish(e)

EditStep(e) == (\E r \in Request : Begin(e, r)) \/ EditRuns(e) \/ Serve(e) \/ Decline(e)

EditSpec ==
    /\ RegistryTypeOK /\ EditInit
    /\ [][(\E e \in Edit : EditStep(e)) \/ Others]_<<registry, evars>>

-----------------------------------------------------------------------------
AnEdit ==
    [req : Request \cup {NoRequest},
     pc : {"idle", "resolve", "page", "list", "list2", "apply", "wait", "ok", "error"},
     first : Cursor, seen : Bindings, remove : SUBSET Edge, add : SUBSET Edge,
     sent : Edge \cup {NoWire}, answer : {"none", "done", "failed"}]

(* Types; a call under way has a request; what is on the wire is what its  *)
(* call sent last, has no answer yet, and belongs to the plan.             *)
EditTypeOK ==
    /\ RegistryTypeOK
    /\ edit \in [Edit -> AnEdit]
    /\ wire \in [Edit -> Edge \cup {NoWire}]
    /\ clean \in [Edit -> BOOLEAN]
    /\ before \in [Edit -> Bindings]
    /\ met \in [Edit -> SUBSET ((Kind \cup {"either"}) \X Scope)]
    /\ \A e \in Edit : Started(e) => edit[e].req \in Request

(* A call that told success has had every scope it was asked about in the  *)
(* state asked for at some moment while it ran, whoever else changed the   *)
(* bindings: what it found right was so when it read, and it changed the   *)
(* rest itself (scopes.rs 160-243, 612-645, 1233-1320).                    *)
EachScopeServed ==
    \A e \in Edit :
        edit[e].pc = "ok" /\ ~edit[e].req.dry => Goals(edit[e].req) \subseteq met[e]

(* When nobody else touched the client, success means exactly the bindings *)
(* the request describes (requested_state "bound", "unbound",              *)
(* "exact_match", scopes.rs 1311), computed from those it began with.      *)
UndisturbedIsExact ==
    \A e \in Edit :
        edit[e].pc = "ok" /\ ~edit[e].req.dry /\ clean[e]
            => bound[edit[e].req.client] = Target(edit[e].req, before[e])

(* At every moment of an undisturbed call, and after it broke off half way *)
(* or its last request came late, the bindings lie between the old and the *)
(* new: a scope that is to stay is never taken away for a moment, one not  *)
(* asked for never appears (scopes.rs 1262-1290), a dry run changes none.  *)
PartialEditsStayBetween ==
    \A e \in Edit : Started(e) /\ clean[e] =>
        LET now == bound[edit[e].req.client]
            new == Target(edit[e].req, before[e])
        IN  IF edit[e].req.dry THEN now = before[e]
            ELSE \A k \in Kind : /\ before[e][k] \cap new[k] \subseteq now[k]
                                 /\ now[k] \subseteq before[e][k] \cup new[k]

(* What an undisturbed dry run says it would add and remove (scopes.rs     *)
(* 405-433) is the difference the real call would make.                    *)
DryRunForetells ==
    \A e \in Edit : edit[e].pc = "ok" /\ edit[e].req.dry /\ clean[e] =>
        LET new == Target(edit[e].req, before[e])
        IN  /\ edit[e].remove = UNION {{k} \X (before[e][k] \ new[k]) : k \in Kind}
            /\ edit[e].add = UNION {{k} \X (new[k] \ before[e][k]) : k \in Kind}
=============================================================================
