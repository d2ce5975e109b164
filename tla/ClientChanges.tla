--------------------------- MODULE ClientChanges ----------------------------
(***************************************************************************)
(* The client tools together: calls that bind and unbind scopes and calls  *)
(* that update, disable and delete clients, at one Keycloak.  Each kind is *)
(* what the other calls "others".                                          *)
(***************************************************************************)
EXTENDS ScopeBindings, ClientBatches

CONSTANTS
    Start,    \* the registries to start from: <<there, enabled, tagged, bound>>
    MaxCalls  \* bound: calls begun

ASSUME StartAssumption ==
    \A s \in Start : /\ IsFiniteSet(s[1])
                     /\ s[1] \subseteq Client /\ s[2] \subseteq Client /\ s[3] \subseteq Client
                     /\ s[4] \in [Client -> Bindings]
ASSUME CallsApart == Edit \cap Batch = {}

vars == <<registry, evars, bvars>>

Begun == Cardinality({e \in Edit : Started(e)})
         + Cardinality({b \in Batch : batch[b].pc # "idle"})

Init ==
    /\ \E s \in Start : there = s[1] /\ enabled = s[2] /\ tagged = s[3] /\ bound = s[4]
    /\ EditInit /\ BatchInit

CallBegins ==
    /\ Begun < MaxCalls
    /\ \/ /\ \E e \in Edit : \E r \in Request : Begin(e, r)
          /\ UNCHANGED bvars
       \/ /\ \E b \in Batch : \E j \in Job : BeginBatch(b, j)
          /\ UNCHANGED evars

EditGoesOn(e) == (EditRuns(e) \/ Serve(e) \/ Decline(e)) /\ UNCHANGED bvars

BatchGoesOn(b) ==
    \/ (BatchRuns(b) \/ DeclineBatch(b)) /\ UNCHANGED evars
    \/ ServeBatch(b) /\ UNCHANGED <<edit, wire>> /\ Noted({})

Next ==
    \/ CallBegins
    \/ \E e \in Edit : EditGoesOn(e)
    \/ \E b \in Batch : BatchGoesOn(b)

(* The handlers go on: their requests have a timeout (gateway.rs).  Nothing *)
(* is assumed of Keycloak or of new calls.                                  *)
Fairness ==
    /\ \A e \in Edit : WF_vars(EditRuns(e) /\ UNCHANGED bvars)
    /\ \A b \in Batch : WF_vars(BatchRuns(b) /\ UNCHANGED evars)

Spec == Init /\ [][Next]_vars /\ Fairness

-----------------------------------------------------------------------------
(* Types; and calls of clients.bulk_update stay within their entries.      *)
ABatch ==
    [job : Job \cup {NoJob}, pc : {"idle", "check", "list", "next", "wait", "ok", "error"},
     at : Nat \ {0}, left : SUBSET Client,
     sent : Nat \X (Client \cup {"none"}) \X (Changes \cup {"delete", "none"}),
     answer : {"none", "done", "failed"}, updated : SUBSET Client,
     skipped : SUBSET Client, errors : SUBSET (Client \cup {Unnamed})]

TypeOK ==
    /\ EditTypeOK
    /\ batch \in [Batch -> ABatch]
    /\ \A b \in Batch :
           /\ flying[b] \subseteq Nat \X Client \X (Changes \cup {"delete"})
           /\ touched[b] \subseteq Client /\ listed[b] \subseteq Client
           /\ batch[b].job.tool = "bulk_update"
                  => batch[b].at <= Len(batch[b].job.updates) + 1

-----------------------------------------------------------------------------
(* The licences calls hold.                                                *)

EditPowers(r) ==
    IF r.dry THEN {}
    ELSE CASE r.tool = "add" -> {<<r.client, <<"bind", r.kind, s>>>> : s \in r.asked}
           [] r.tool = "ensure_bound" ->
                  {<<r.client, <<"bind", "default", s>>>> : s \in r.asked}
           [] r.tool = "replace" ->
                  {<<r.client, <<"bind", r.kind, s>>>> : s \in r.asked}
                  \cup {<<r.client, <<"unbind", r.kind, s>>>> : s \in Scope \ r.asked}
           [] r.tool = "delete" -> {<<r.client, <<"unbind", r.kind, s>>>> : s \in r.asked}
           [] OTHER -> {<<r.client, <<"unbind", k, s>>>> : k \in Kind, s \in r.asked}

BulkPowers(j) ==
    IF j.dry THEN {}
    ELSE {<<j.updates[i].client, <<j.updates[i].change>>>> :
              i \in {n \in 1..Len(j.updates) : j.updates[n].change # "nothing"}}

EditLicence(e) ==
    IF Started(e) /\ edit[e].pc # "ok" THEN EditPowers(edit[e].req) ELSE {}

BatchLicence(b) ==
    LET d == batch[b]
        j == d.job
    IN  IF d.pc \in {"idle", "check", "list"} \/ j.dry THEN {}
        ELSE IF j.tool = "bulk_update"
             THEN IF d.pc = "ok" THEN {p \in BulkPowers(j) : p[1] \in d.errors} ELSE BulkPowers(j)
             ELSE IF d.pc = "ok" THEN {} ELSE {<<c, <<j.action>>>> : c \in listed[b] \ j.exclude}

Promise == INSTANCE ClientPromise WITH
    Caller <- Edit \cup Batch,
    Licences <- {EditPowers(r) : r \in Request}
                \cup {BulkPowers(j) : j \in {i \in Job : i.tool = "bulk_update"}},
    Sweeps <- {<<j.action, j.exclude>> : j \in {i \in Job : i.tool = "prune"}},
    licence <- [x \in Edit \cup Batch |-> IF x \in Edit THEN EditLicence(x) ELSE BatchLicence(x)]

(* Whatever happens to a client or a binding is what some call was asked   *)
(* to do: a prune to what matched when it listed, nothing by a dry run,    *)
(* nothing by a call that told success, except for what its report names   *)
(* as an error (scopes.rs 284-310, core.rs 957-1004, 1150-1195).           *)
PromiseKept == Promise!PromiseSpec

(* Every call ends, whatever Keycloak does: it may answer nothing of what  *)
(* it is asked, or each page of scopes with a full one (gateway.rs 137,    *)
(* clients.rs 956-1008).                                                   *)
EveryCallEnds ==
    /\ \A e \in Edit : Started(e) ~> edit[e].pc \in {"ok", "error"}
    /\ \A b \in Batch : batch[b].pc # "idle" ~> batch[b].pc \in {"ok", "error"}
=============================================================================
