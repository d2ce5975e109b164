--------------------------- MODULE ClientBatches ----------------------------
(***************************************************************************)
(* clients.bulk_update and clients.prune (clients/core.rs): calls that     *)
(* change many clients, one request each.  bulk_update goes on past a      *)
(* failure and reports it; prune chooses its clients from one listing and  *)
(* ends with the first failure, without a report.                          *)
(***************************************************************************)
EXTENDS ClientRegistry, Sequences, FiniteSetsExt

CONSTANTS
    Batch,       \* calls of these tools
    Job,         \* their arguments: see AJob
    MaxUpdates   \* entries bulk_update takes (50)

Changes == {"disable", "enable", "tag", "untag"}   \* fields of an update, as far as others see
Unnamed == "unknown"                               \* an entry without id and client_id

AnEntry ==
    [client : Client \cup {Unnamed},
     by : {"id", "client_id"},                     \* which needs a lookup
     change : Changes \cup {"nothing"}]

AJob(j) ==
    /\ j.dry \in BOOLEAN /\ j.confirm \in BOOLEAN
    /\ \/ /\ j.tool = "bulk_update"
          /\ j.updates \in Seq(AnEntry)
       \/ /\ j.tool = "prune"
          /\ j.exclude \in SUBSET Client
          /\ j.max \in Nat /\ j.limit \in Nat
          /\ j.action \in {"delete", "disable"}

ASSUME BatchAssumption == (\A j \in Job : AJob(j)) /\ MaxUpdates \in Nat

VARIABLES
    batch,    \* each call; updated is what prune calls processed
    flying,   \* its requests that Keycloak has not seen yet
    touched,  \* history: the clients Keycloak changed for it
    listed    \* history: those that existed and matched when prune listed them

bvars == <<batch, flying, touched, listed>>

NoJob == [tool |-> "none"]
Waiting == [job |-> NoJob, pc |-> "idle", at |-> 1, left |-> {}, sent |-> <<0, "none", "none">>,
            answer |-> "none", updated |-> {}, skipped |-> {}, errors |-> {}]

Behave(b, d) == batch' = [batch EXCEPT ![b] = d]
Quiet == UNCHANGED <<registry, flying, touched, listed>>
Running(b) == batch[b].pc \notin {"idle", "ok", "error"}

BeginBatch(b, j) ==
    /\ batch[b].pc = "idle"
    /\ Behave(b, [Waiting EXCEPT !.job = j, !.pc = "check"])
    /\ Quiet

(* The early returns of both, before any request. *)
Unacceptable(j) ==
    \/ ~j.confirm
    \/ j.tool = "bulk_update" /\ (j.updates = <<>> \/ Len(j.updates) > MaxUpdates)
    \/ j.tool = "prune" /\ (j.max = 0 \/ j.limit = 0)

Check(b) ==
    LET j == batch[b].job
    IN  /\ batch[b].pc = "check"
        /\ Behave(b, [batch[b] EXCEPT !.pc = IF Unacceptable(j) THEN "error"
                                             ELSE IF j.tool = "prune" THEN "list" ELSE "next"])
        /\ Quiet

-----------------------------------------------------------------------------
(* clients.bulk_update: for each entry in turn *)

Entry(b) == batch[b].job.updates[batch[b].at]
AtEntry(b) ==
    /\ batch[b].pc = "next" /\ batch[b].job.tool = "bulk_update"
    /\ batch[b].at <= Len(batch[b].job.updates)

PastTwo(d) ==                                            \* mutant of Past
    [d EXCEPT !.at = @ + 2, !.pc = "next", !.answer = "none"]
Past(d) == [d EXCEPT !.at = @ + 1, !.pc = "next", !.answer = "none"]

WithError(d, c) == [d EXCEPT !.errors = @ \cup {c}]

(* Neither id nor client_id, or a lookup that fails or finds nothing. *)
Unresolved(b) ==
    /\ AtEntry(b)
    /\ Entry(b).client = Unnamed \/ Entry(b).by = "client_id"
    /\ Behave(b, Past(WithError(batch[b], Entry(b).client)))
    /\ Quiet

Resolved(b) == /\ AtEntry(b) /\ Entry(b).client # Unnamed
               /\ Entry(b).by = "client_id" => Entry(b).client \in there

Skip(b) ==
    /\ Resolved(b) /\ Entry(b).change = "nothing"
    /\ Behave(b, Past([batch[b] EXCEPT !.skipped = @ \cup {Entry(b).client}]))
    /\ Quiet

UpdateDry(b) ==
    /\ Resolved(b) /\ Entry(b).change # "nothing" /\ batch[b].job.dry
    /\ Behave(b, Past([batch[b] EXCEPT !.updated = @ \cup {Entry(b).client}]))
    /\ Quiet

(* A request is the step it was sent at, its client and its change. *)
Ask(b, c, change) ==
    LET x == <<batch[b].at, c, change>>
    IN  /\ Behave(b, [batch[b] EXCEPT !.pc = "wait", !.sent = x, !.answer = "none"])
        /\ flying' = [flying EXCEPT ![b] = @ \cup {x}]
        /\ UNCHANGED <<registry, touched, listed>>

Update(b) ==
    /\ Resolved(b) /\ Entry(b).change # "nothing" /\ ~batch[b].job.dry
    /\ Ask(b, Entry(b).client, Entry(b).change)

-----------------------------------------------------------------------------
(* clients.prune: one listing of at most max clients, the first limit of   *)
(* those that match; Keycloak's order may be any.                          *)

Atmost(n, S) == {T \in SUBSET S : Cardinality(T) = Min({n, Cardinality(S)})}

MatchesAll(j, fetched) == fetched \cap tagged            \* mutant of Matches
Matches(j, fetched) == (fetched \cap tagged) \ j.exclude

ListClients(b) ==
    LET j == batch[b].job
    IN  /\ batch[b].pc = "list"
        /\ \E fetched \in Atmost(j.max, there) :
           \E limited \in Atmost(j.limit, Matches(j, fetched)) :
              Behave(b, IF j.dry
                        THEN [batch[b] EXCEPT !.pc = "ok", !.skipped = limited]
                        ELSE [batch[b] EXCEPT !.pc = "next", !.left = limited])
        /\ listed' = [listed EXCEPT ![b] = there \cap tagged]
        /\ UNCHANGED <<registry, flying, touched>>

ListClientsFails(b) ==
    /\ batch[b].pc = "list"
    /\ Behave(b, [batch[b] EXCEPT !.pc = "error"])
    /\ Quiet

Prune(b) ==
    /\ batch[b].pc = "next" /\ batch[b].job.tool = "prune"
    /\ \E c \in batch[b].left : Ask(b, c, batch[b].job.action)

-----------------------------------------------------------------------------
(* External: Keycloak, as in ScopeBindings; a client it does not know it   *)
(* does not change.                                                        *)

Reached(b, x, answer) ==
    /\ flying' = [flying EXCEPT ![b] = @ \ {x}]
    /\ Behave(b, IF batch[b].pc = "wait" /\ batch[b].sent = x
                 THEN [batch[b] EXCEPT !.answer = answer] ELSE batch[b])

ServeBatch(b) ==
    \E x \in flying[b] :
        /\ x[2] \in there
        /\ IF x[3] = "delete" THEN DeleteClient(x[2]) ELSE UpdateClient(x[2], x[3])
        /\ touched' = [touched EXCEPT ![b] = @ \cup {x[2]}]
        /\ Reached(b, x, "done")
        /\ UNCHANGED listed

DeclineBatch(b) ==
    \E x \in flying[b] :
        /\ Reached(b, x, "failed")
        /\ UNCHANGED <<registry, touched, listed>>

Done(b) ==
    LET d == batch[b]
        c == d.sent[2]
    IN  /\ d.pc = "wait" /\ d.answer = "done"
        /\ Behave(b, [Past(d) EXCEPT !.updated = @ \cup {c}, !.left = @ \ {c}])
        /\ Quiet

(* Turned down, lost, or no answer in time. *)
MissedUnsaid(b) ==                                       \* mutant of Missed
    LET d == batch[b]
    IN  /\ d.pc = "wait" /\ d.answer # "done"
        /\ Behave(b, IF d.job.tool = "prune" THEN [d EXCEPT !.pc = "error"] ELSE Past(d))
        /\ Quiet
Missed(b) ==
    LET d == batch[b]
    IN  /\ d.pc = "wait" /\ d.answer # "done"
        /\ Behave(b, IF d.job.tool = "prune" THEN [d EXCEPT !.pc = "error"]
                     ELSE Past(WithError(d, d.sent[2])))
        /\ Quiet

Report(b) ==
    LET d == batch[b]
    IN  /\ d.pc = "next"
        /\ IF d.job.tool = "prune" THEN d.left = {} ELSE d.at > Len(d.job.updates)
        /\ Behave(b, [d EXCEPT !.pc = "ok"])
        /\ Quiet

BatchInit ==
    /\ batch = [b \in Batch |-> Waiting] /\ flying = [b \in Batch |-> {}]
    /\ touched = [b \in Batch |-> {}] /\ listed = [b \in Batch |-> {}]

BatchRuns(b) ==
    \/ Check(b) \/ Unresolved(b) \/ Skip(b) \/ UpdateDry(b) \/ Update(b)
    \/ ListClients(b) \/ ListClientsFails(b) \/ Prune(b)
    \/ Done(b) \/ Missed(b) \/ Report(b)

-----------------------------------------------------------------------------
(* A report that was given names every client the call changed or may yet  *)
(* change (a request that timed out may still arrive) as updated or as an  *)
(* error, tells as updated only what was, and a dry run changes nothing    *)
(* (core.rs 880-1004, 1150-1195).                                          *)
ReportCoversChanges ==
    \A b \in Batch : batch[b].pc = "ok" =>
        LET reach == touched[b] \cup {x[2] : x \in flying[b]}
        IN  IF batch[b].job.dry THEN reach = {}
            ELSE /\ reach \subseteq batch[b].updated \cup batch[b].errors
                 /\ batch[b].updated \subseteq touched[b]

(* A prune only ever changes clients that existed, matched its filter and  *)
(* were not excluded, all at the one moment it listed them, and no more    *)
(* than its limit (core.rs 1101-1160), however the clients change since.   *)
PruneStaysWithinListing ==
    \A b \in Batch : batch[b].job.tool = "prune" =>
        LET reach == touched[b] \cup {x[2] : x \in flying[b]}
        IN  /\ reach \subseteq listed[b] \ batch[b].job.exclude
            /\ Cardinality(reach) <= batch[b].job.limit
=============================================================================
