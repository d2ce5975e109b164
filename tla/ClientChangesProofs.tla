------------------------ MODULE ClientChangesProofs -------------------------
(***************************************************************************)
(* Proofs about ClientChanges: to the calls of ScopeBindings the calls of  *)
(* ClientBatches are others like any, so that all that is proved of        *)
(* EditSpec holds of the composition; what a report of ClientBatches says  *)
(* and what a prune reaches; and, from both, that the tools together keep  *)
(* ClientPromise.                                                          *)
(***************************************************************************)
EXTENDS ClientChanges, ScopeBindingsProofs, FiniteSetTheorems

EditNext == (\E e \in Edit : EditStep(e)) \/ Others

(* What Keycloak does for a batch is a change by somebody else. *)
LEMMA BatchesAreOthers ==
    ASSUME RegistryTypeOK, NEW b \in Batch, ServeBatch(b), UNCHANGED <<edit, wire>>, Noted({})
    PROVE  Others
<1>1. PICK x \in flying[b] : /\ x[2] \in there
                             /\ IF x[3] = "delete" THEN DeleteClient(x[2])
                                ELSE UpdateClient(x[2], x[3])
    BY DEF ServeBatch
<1>2. x[2] \in Client /\ Unbound \in Bindings
    BY <1>1 DEF RegistryTypeOK, Unbound, Bindings
<1>3. CASE x[3] = "delete"
    BY <1>1, <1>2, <1>3 DEF DeleteClient, RegistryTypeOK, Others
<1>4. CASE x[3] # "delete"
    <2>1. enabled' \subseteq Client /\ tagged' \subseteq Client /\ UNCHANGED <<there, bound>>
        BY <1>1, <1>2, <1>4 DEF UpdateClient, RegistryTypeOK
    <2> QED BY <2>1 DEF RegistryTypeOK, Others
<1> QED BY <1>3, <1>4

LEMMA BatchStutters ==
    ASSUME NEW b \in Batch, BatchRuns(b) \/ DeclineBatch(b), UNCHANGED evars
    PROVE  UNCHANGED <<registry, evars>>
<1>1. UNCHANGED registry
    BY DEF BatchRuns, Check, Unresolved, Skip, UpdateDry, Update, ListClients, ListClientsFails,
           Prune, Done, Missed, Report, DeclineBatch, Quiet, Ask
<1> QED BY <1>1

LEMMA StepsOfTheEdits ==
    ASSUME RegistryTypeOK, [Next]_vars
    PROVE  [EditNext]_<<registry, evars>>
<1>1. CASE CallBegins
    <2>1. CASE \E e \in Edit : \E r \in Request : Begin(e, r)
        BY <2>1 DEF EditNext, EditStep
    <2>2. CASE UNCHANGED evars /\ \E b \in Batch : \E j \in Job : BeginBatch(b, j)
        BY <2>2 DEF BeginBatch, Quiet
    <2> QED BY <1>1, <2>1, <2>2 DEF CallBegins
<1>2. ASSUME NEW e \in Edit, EditGoesOn(e)
      PROVE  EditNext
    BY <1>2 DEF EditGoesOn, EditNext, EditStep
<1>3. ASSUME NEW b \in Batch, BatchGoesOn(b)
      PROVE  [EditNext]_<<registry, evars>>
    BY <1>3, BatchesAreOthers, BatchStutters DEF BatchGoesOn, EditNext
<1>4. CASE UNCHANGED vars
    BY <1>4 DEF vars
<1> QED BY <1>1, <1>2, <1>3, <1>4 DEF Next

LEMMA EditInvOfAll == Spec => []EditInv
<1>1. Init => EditInv
    <2>1. Init => RegistryTypeOK /\ EditInit
        BY StartAssumption DEF Init, RegistryTypeOK
    <2> QED BY <2>1, Initially
<1>2. EditInv /\ [Next]_vars => EditInv'
    <2>1. EditInv => RegistryTypeOK
        BY DEF EditInv, EditTypeOK
    <2> QED BY <2>1, StepsOfTheEdits, StepKeeps, OthersKeep, StutterKeeps DEF EditNext
<1> QED BY <1>1, <1>2, PTL DEF Spec

(* The scope tools next to bulk updates and prunes run as if next to       *)
(* anybody (scopes.rs next to core.rs).                                    *)
THEOREM EditsRunAsAlone == Spec => EditSpec
<1>1. Init => RegistryTypeOK /\ EditInit
    BY StartAssumption DEF Init, RegistryTypeOK
<1>2. EditInv /\ [Next]_vars => [EditNext]_<<registry, evars>>
    <2>1. EditInv => RegistryTypeOK
        BY DEF EditInv, EditTypeOK
    <2> QED BY <2>1, StepsOfTheEdits
<1> QED BY <1>1, <1>2, EditInvOfAll, PTL DEF Spec, EditSpec, EditNext

(* Whatever else the client tools and others do, a call that told success  *)
(* has had every scope as asked (scopes.rs 160-243, 612-645, 1233-1320).   *)
THEOREM EveryScopeServedOfAll == Spec => []EachScopeServed
BY EditsRunAsAlone, EveryScopeServed, PTL

(* Success of an undisturbed call is exactly the bindings asked for        *)
(* (scopes.rs 1311).                                                       *)
THEOREM UndisturbedExactOfAll == Spec => []UndisturbedIsExact
BY EditsRunAsAlone, UndisturbedExact, PTL

(* An undisturbed call never takes away what is to stay, nor adds what was *)
(* not asked for, not even for a moment (scopes.rs 1262-1290).             *)
THEOREM StaysBetweenOfAll == Spec => []PartialEditsStayBetween
BY EditsRunAsAlone, StaysBetween, PTL

(* An undisturbed dry run tells the change it foretells (scopes.rs 405).   *)
THEOREM DryRunTellsOfAll == Spec => []DryRunForetells
BY EditsRunAsAlone, DryRunTells, PTL

-----------------------------------------------------------------------------
(* The calls of ClientBatches.  One call's part of the invariant: of its   *)
(* own record d, what of it is flying (fl), what it touched (to) and what  *)
(* it listed (li).                                                         *)

Reach(fl, to) == to \cup {x[2] : x \in fl}

CallTyped(d, fl, to, li) ==
    /\ d \in ABatch
    /\ fl \subseteq Nat \X Client \X (Changes \cup {"delete"})
    /\ to \subseteq Client /\ li \subseteq Client
    /\ d.pc = "idle" => d.job = NoJob
    /\ d.pc # "idle" => d.job \in Job
    /\ d.pc \in {"idle", "check", "list"} => d.at = 1
    /\ d.job.tool = "bulk_update" =>
           d.at <= IF d.pc = "wait" THEN Len(d.job.updates) ELSE Len(d.job.updates) + 1

(* Nothing is done before the listing or the first entry, nor by a dry     *)
(* run; what was or may be changed is reported or being waited for.        *)
CallReports(d, fl, to) ==
    /\ d.pc \in {"idle", "check", "list"} =>
           Reach(fl, to) = {} /\ d.updated = {} /\ d.left = {}
    /\ d.pc = "wait" => ~d.job.dry
    /\ d.pc = "wait" => d.sent[2] \in Client
    /\ d.pc = "wait" /\ d.answer = "done" => d.sent[2] \in to
    /\ d.pc = "next" /\ d.job.tool = "prune" => ~d.job.dry
    /\ d.pc # "idle" /\ d.job.dry => Reach(fl, to) = {}
    /\ d.pc # "idle" /\ ~d.job.dry => d.updated \subseteq to
    /\ d.pc \in {"next", "ok"} => Reach(fl, to) \subseteq d.updated \cup d.errors
    /\ d.pc = "wait" => Reach(fl, to) \subseteq d.updated \cup d.errors \cup {d.sent[2]}

(* A prune has chosen its clients once and for all when it listed them.    *)
CallChose(d, fl, to, li) ==
    d.job.tool = "prune" =>
        /\ d.left \cup d.updated \subseteq li \ d.job.exclude
        /\ IsFiniteSet(d.left \cup d.updated)
        /\ Cardinality(d.left \cup d.updated) <= d.job.limit
        /\ Reach(fl, to) \subseteq d.left \cup d.updated
        /\ d.pc = "wait" => d.sent[2] \in d.left

CallOK(d, fl, to, li) ==
    CallTyped(d, fl, to, li) /\ CallReports(d, fl, to) /\ CallChose(d, fl, to, li)

CallsOK == \A b \in Batch : CallOK(batch[b], flying[b], touched[b], listed[b])

Indexed ==
    /\ batch = [b \in Batch |-> batch[b]] /\ flying = [b \in Batch |-> flying[b]]
    /\ touched = [b \in Batch |-> touched[b]] /\ listed = [b \in Batch |-> listed[b]]

BatchInv == Indexed /\ CallsOK /\ IsFiniteSet(there)

LEMMA OneCall ==
    ASSUME CallsOK, Indexed, NEW b \in Batch, NEW d, NEW fl, NEW to, NEW li,
           CallOK(d, fl, to, li),
           batch' = [batch EXCEPT ![b] = d],
           (flying' = flying /\ fl = flying[b]) \/ flying' = [flying EXCEPT ![b] = fl],
           (touched' = touched /\ to = touched[b]) \/ touched' = [touched EXCEPT ![b] = to],
           (listed' = listed /\ li = listed[b]) \/ listed' = [listed EXCEPT ![b] = li]
    PROVE  CallsOK' /\ Indexed'
<1>1. ASSUME NEW c \in Batch, c # b
      PROVE  /\ batch'[c] = batch[c] /\ flying'[c] = flying[c]
             /\ touched'[c] = touched[c] /\ listed'[c] = listed[c]
    BY <1>1 DEF Indexed
<1>2. batch'[b] = d /\ flying'[b] = fl /\ touched'[b] = to /\ listed'[b] = li
    BY DEF Indexed
<1>3. Indexed'
    BY DEF Indexed
<1>4. ASSUME NEW c \in Batch
      PROVE  CallOK(batch'[c], flying'[c], touched'[c], listed'[c])
    <2>1. CASE c = b
        BY <2>1, <1>2
    <2>2. CASE c # b
        BY <2>2, <1>1 DEF CallsOK
    <2> QED BY <2>1, <2>2
<1> QED BY <1>3, <1>4 DEF CallsOK

(* A step that changes nothing but a call's own record. *)
LEMMA QuietStep ==
    ASSUME CallsOK, Indexed, NEW b \in Batch, NEW d, Behave(b, d), Quiet,
           CallOK(d, flying[b], touched[b], listed[b])
    PROVE  CallsOK' /\ Indexed'
BY OneCall DEF Behave, Quiet

LEMMA BeginsOK ==
    ASSUME CallsOK, Indexed, NEW b \in Batch, NEW j \in Job, BeginBatch(b, j)
    PROVE  CallsOK' /\ Indexed'
<1> DEFINE d == [Waiting EXCEPT !.job = j, !.pc = "check"]
<1>1. CallOK(batch[b], flying[b], touched[b], listed[b]) /\ batch[b].pc = "idle"
    BY DEF CallsOK, BeginBatch
<1>2. AJob(j)
    BY BatchAssumption
<1>3. Waiting \in ABatch
    BY DEF Waiting, ABatch
<1>4. /\ d \in ABatch /\ d.pc = "check" /\ d.job = j /\ d.at = 1 /\ d.left = {}
      /\ d.updated = {}
    BY <1>3 DEF Waiting, ABatch
<1> HIDE DEF d
<1>5. Reach(flying[b], touched[b]) = {}
    BY <1>1 DEF CallOK, CallReports
<1>6. CallTyped(d, flying[b], touched[b], listed[b])
    <2>1. j.tool = "bulk_update" => 1 <= Len(j.updates) + 1
        BY <1>2 DEF AJob
    <2> QED BY <1>1, <1>4, <2>1 DEF CallOK, CallTyped
<1>7. CallReports(d, flying[b], touched[b])
    BY <1>4, <1>5 DEF CallReports
<1>8. CallChose(d, flying[b], touched[b], listed[b])
    <2>1. j.tool = "prune" => 0 <= j.limit
        BY <1>2 DEF AJob
    <2> QED BY <1>4, <1>5, <2>1, FS_EmptySet DEF CallChose
<1> QED BY <1>6, <1>7, <1>8, QuietStep DEF BeginBatch, CallOK, d

LEMMA ChecksOK ==
    ASSUME CallsOK, Indexed, NEW b \in Batch, Check(b)
    PROVE  CallsOK' /\ Indexed'
<1> DEFINE c == batch[b]
           pc == IF Unacceptable(c.job) THEN "error"
                 ELSE IF c.job.tool = "prune" THEN "list" ELSE "next"
           d == [c EXCEPT !.pc = pc]
<1>1. CallOK(c, flying[b], touched[b], listed[b]) /\ c.pc = "check" /\ c \in ABatch
    BY DEF CallsOK, Check, CallOK, CallTyped
<1>2. /\ d \in ABatch /\ d.pc = pc /\ d.job = c.job /\ d.at = c.at /\ d.left = c.left
      /\ d.updated = c.updated /\ d.errors = c.errors /\ d.sent = c.sent /\ d.answer = c.answer
    BY <1>1 DEF ABatch
<1>3. pc \in {"error", "list", "next"} /\ (pc = "next" => c.job.tool # "prune")
    OBVIOUS
<1> HIDE DEF d, pc
<1>4. CallTyped(d, flying[b], touched[b], listed[b])
    BY <1>1, <1>2, <1>3 DEF CallOK, CallTyped
<1>5. CallReports(d, flying[b], touched[b])
    BY <1>1, <1>2, <1>3 DEF CallOK, CallReports
<1>6. CallChose(d, flying[b], touched[b], listed[b])
    BY <1>1, <1>2, <1>3 DEF CallOK, CallChose
<1> QED BY <1>4, <1>5, <1>6, QuietStep DEF Check, CallOK, d, pc

LEMMA CallFacts ==
    ASSUME CallsOK, NEW b \in Batch
    PROVE  CallOK(batch[b], flying[b], touched[b], listed[b]) /\ batch[b] \in ABatch
BY DEF CallsOK, CallOK, CallTyped

(* bulk_update goes on to its next entry. *)
LEMMA NextEntryOK ==
    ASSUME NEW c \in ABatch, NEW d \in ABatch, NEW fl, NEW to, NEW li,
           CallOK(c, fl, to, li), c.job.tool = "bulk_update",
           c.pc \in {"next", "wait"}, c.at <= Len(c.job.updates),
           d.pc = "next", d.job = c.job, d.at = c.at + 1,
           d.updated \subseteq to \/ d.job.dry,
           Reach(fl, to) \subseteq d.updated \cup d.errors
    PROVE  CallOK(d, fl, to, li)
<1>1. c.job \in Job
    BY DEF CallOK, CallTyped
<1>2. Len(c.job.updates) \in Nat
    BY <1>1, BatchAssumption DEF AJob
<1>3. CallTyped(d, fl, to, li)
    BY <1>1, <1>2 DEF CallOK, CallTyped, ABatch
<1>4. CallReports(d, fl, to)
    BY DEF CallOK, CallReports
<1>5. CallChose(d, fl, to, li)
    BY DEF CallChose
<1> QED BY <1>3, <1>4, <1>5 DEF CallOK

LEMMA EntryFacts ==
    ASSUME CallsOK, NEW b \in Batch, AtEntry(b)
    PROVE  Entry(b) \in AnEntry /\ batch[b].job \in Job
<1>1. batch[b].job \in Job /\ batch[b].at \in Nat \ {0}
    BY CallFacts DEF CallOK, CallTyped, AtEntry, ABatch
<1>2. batch[b].job.updates \in Seq(AnEntry)
    BY <1>1, BatchAssumption DEF AJob, AtEntry
<1>3. batch[b].at \in 1..Len(batch[b].job.updates)
    BY <1>1, <1>2 DEF AtEntry
<1> QED BY <1>1, <1>2, <1>3 DEF Entry

LEMMA PastTyped ==
    ASSUME NEW c \in ABatch
    PROVE  LET d == Past(c)
           IN  /\ d \in ABatch /\ d.pc = "next" /\ d.job = c.job /\ d.at = c.at + 1
               /\ d.left = c.left /\ d.updated = c.updated /\ d.errors = c.errors
<1> DEFINE n == c.at + 1
<1>1. n \in Nat \ {0}
    BY DEF ABatch
<1>2. Past(c) = [c EXCEPT !.at = n, !.pc = "next", !.answer = "none"]
    BY DEF Past
<1> HIDE DEF n
<1>3. /\ Past(c) \in ABatch /\ Past(c).pc = "next" /\ Past(c).job = c.job /\ Past(c).at = n
      /\ Past(c).left = c.left /\ Past(c).updated = c.updated /\ Past(c).errors = c.errors
    BY <1>1, <1>2 DEF ABatch
<1> QED BY <1>3 DEF n

LEMMA UnresolvedOK ==
    ASSUME CallsOK, Indexed, NEW b \in Batch, Unresolved(b)
    PROVE  CallsOK' /\ Indexed'
<1> DEFINE c == batch[b]
           e == WithError(c, Entry(b).client)
           d == Past(e)
<1>1. CallOK(c, flying[b], touched[b], listed[b]) /\ c \in ABatch
    BY CallFacts
<1>2. AtEntry(b) /\ Entry(b) \in AnEntry
    BY EntryFacts DEF Unresolved
<1>3. /\ d \in ABatch /\ d.pc = "next" /\ d.job = c.job /\ d.at = c.at + 1
      /\ d.updated = c.updated /\ c.errors \subseteq d.errors
    <2>1. /\ e \in ABatch /\ e.job = c.job /\ e.at = c.at /\ e.updated = c.updated
          /\ c.errors \subseteq e.errors
        BY <1>1, <1>2 DEF ABatch, AnEntry, WithError
    <2> HIDE DEF e
    <2> QED BY <2>1, PastTyped
<1> HIDE DEF d, e
<1>4. CallOK(d, flying[b], touched[b], listed[b])
    <2>1. Reach(flying[b], touched[b]) \subseteq d.updated \cup d.errors
          /\ (d.updated \subseteq touched[b] \/ d.job.dry)
        BY <1>1, <1>2, <1>3 DEF CallOK, CallReports, AtEntry
    <2> QED BY <1>1, <1>2, <1>3, <2>1, NextEntryOK DEF AtEntry
<1> QED BY <1>4, QuietStep DEF Unresolved, d, e

LEMMA SkipOK ==
    ASSUME CallsOK, Indexed, NEW b \in Batch, Skip(b)
    PROVE  CallsOK' /\ Indexed'
<1> DEFINE c == batch[b]
           e == [c EXCEPT !.skipped = @ \cup {Entry(b).client}]
           d == Past(e)
<1>1. CallOK(c, flying[b], touched[b], listed[b]) /\ c \in ABatch
    BY CallFacts
<1>2. AtEntry(b) /\ Entry(b) \in AnEntry /\ Entry(b).client # Unnamed
    BY EntryFacts DEF Skip, Resolved
<1>3. /\ d \in ABatch /\ d.pc = "next" /\ d.job = c.job /\ d.at = c.at + 1
      /\ d.updated = c.updated /\ d.errors = c.errors
    <2>1. /\ e \in ABatch /\ e.job = c.job /\ e.at = c.at /\ e.updated = c.updated
          /\ e.errors = c.errors
        BY <1>1, <1>2 DEF ABatch, AnEntry
    <2> HIDE DEF e
    <2> QED BY <2>1, PastTyped
<1> HIDE DEF d, e
<1>4. CallOK(d, flying[b], touched[b], listed[b])
    <2>1. Reach(flying[b], touched[b]) \subseteq d.updated \cup d.errors
          /\ (d.updated \subseteq touched[b] \/ d.job.dry)
        BY <1>1, <1>2, <1>3 DEF CallOK, CallReports, AtEntry
    <2> QED BY <1>1, <1>2, <1>3, <2>1, NextEntryOK DEF AtEntry
<1> QED BY <1>4, QuietStep DEF Skip, d, e

LEMMA UpdateDryOK ==
    ASSUME CallsOK, Indexed, NEW b \in Batch, UpdateDry(b)
    PROVE  CallsOK' /\ Indexed'
<1> DEFINE c == batch[b]
           e == [c EXCEPT !.updated = @ \cup {Entry(b).client}]
           d == Past(e)
<1>1. CallOK(c, flying[b], touched[b], listed[b]) /\ c \in ABatch /\ c.job.dry
    BY CallFacts DEF UpdateDry
<1>2. AtEntry(b) /\ Entry(b) \in AnEntry /\ Entry(b).client # Unnamed
    BY EntryFacts DEF UpdateDry, Resolved
<1>3. d \in ABatch /\ d.pc = "next" /\ d.job = c.job /\ d.at = c.at + 1
    <2>1. e \in ABatch /\ e.job = c.job /\ e.at = c.at
        BY <1>1, <1>2 DEF ABatch, AnEntry
    <2> HIDE DEF e
    <2> QED BY <2>1, PastTyped
<1> HIDE DEF d, e
<1>4. CallOK(d, flying[b], touched[b], listed[b])
    <2>1. Reach(flying[b], touched[b]) = {}
        BY <1>1, <1>2 DEF CallOK, CallReports, AtEntry
    <2> QED BY <1>1, <1>2, <1>3, <2>1, NextEntryOK DEF AtEntry
<1> QED BY <1>4, QuietStep DEF UpdateDry, d, e

(* A request is sent for a client that may be changed. *)
LEMMA AskOK ==
    ASSUME CallsOK, Indexed, NEW b \in Batch, NEW k \in Client, NEW change \in Changes \cup {"delete"},
           batch[b].pc = "next", ~batch[b].job.dry, Ask(b, k, change),
           batch[b].job.tool = "bulk_update" => batch[b].at <= Len(batch[b].job.updates),
           batch[b].job.tool = "prune" => k \in batch[b].left
    PROVE  CallsOK' /\ Indexed'
<1> DEFINE c == batch[b]
           x == <<c.at, k, change>>
           d == [c EXCEPT !.pc = "wait", !.sent = x, !.answer = "none"]
           fl == flying[b] \cup {x}
<1>1. CallOK(c, flying[b], touched[b], listed[b]) /\ c \in ABatch
    BY CallFacts
<1>2. x \in Nat \X Client \X (Changes \cup {"delete"}) /\ x[2] = k
    BY <1>1 DEF ABatch
<1>3. /\ d \in ABatch /\ d.pc = "wait" /\ d.job = c.job /\ d.at = c.at /\ d.sent = x
      /\ d.updated = c.updated /\ d.errors = c.errors /\ d.left = c.left /\ d.answer = "none"
    BY <1>1, <1>2 DEF ABatch
<1>4. Reach(fl, touched[b]) = Reach(flying[b], touched[b]) \cup {k}
    BY <1>2 DEF Reach
<1>5. flying' = [flying EXCEPT ![b] = fl] /\ Behave(b, d) /\ UNCHANGED <<touched, listed>>
    BY DEF Ask
<1> HIDE DEF d, x, fl
<1>6. CallTyped(d, fl, touched[b], listed[b])
    BY <1>1, <1>2, <1>3 DEF CallOK, CallTyped, fl
<1>7. CallReports(d, fl, touched[b])
    BY <1>1, <1>2, <1>3, <1>4 DEF CallOK, CallReports
<1>8. CallChose(d, fl, touched[b], listed[b])
    BY <1>1, <1>2, <1>3, <1>4 DEF CallOK, CallChose
<1>9. CallOK(d, fl, touched[b], listed[b])
    BY <1>6, <1>7, <1>8 DEF CallOK
<1> QED BY <1>5, <1>9, OneCall DEF Behave

LEMMA UpdateOK ==
    ASSUME CallsOK, Indexed, NEW b \in Batch, Update(b)
    PROVE  CallsOK' /\ Indexed'
<1>1. AtEntry(b) /\ Entry(b) \in AnEntry /\ Entry(b).client # Unnamed
    BY EntryFacts DEF Update, Resolved
<1>2. Entry(b).client \in Client /\ Entry(b).change \in Changes
    BY <1>1 DEF AnEntry, Update
<1> QED BY <1>1, <1>2, AskOK DEF Update, AtEntry

LEMMA PruneOK ==
    ASSUME CallsOK, Indexed, NEW b \in Batch, Prune(b)
    PROVE  CallsOK' /\ Indexed'
<1>1. batch[b].job \in Job /\ ~batch[b].job.dry /\ batch[b].left \subseteq Client
    BY CallFacts DEF Prune, CallOK, CallTyped, CallReports, ABatch
<1>2. batch[b].job.action \in Changes \cup {"delete"}
    BY <1>1, BatchAssumption DEF AJob, Prune, Changes
<1> QED BY <1>1, <1>2, AskOK DEF Prune

LEMMA AtmostIsSmall ==
    ASSUME NEW n \in Nat, NEW S, IsFiniteSet(S), NEW T \in Atmost(n, S)
    PROVE  T \subseteq S /\ IsFiniteSet(T) /\ Cardinality(T) <= n
<1>1. T \subseteq S /\ Cardinality(T) = Min({n, Cardinality(S)})
    BY DEF Atmost
<1>2. Cardinality(S) \in Nat
    BY FS_CardinalityType
<1>3. \E m \in {n, Cardinality(S)} : \A y \in {n, Cardinality(S)} : m <= y
    <2>1. CASE n <= Cardinality(S)
        BY <2>1, <1>2
    <2>2. CASE ~(n <= Cardinality(S))
        BY <2>2, <1>2
    <2> QED BY <2>1, <2>2
<1>4. Min({n, Cardinality(S)}) <= n
    BY <1>3 DEF Min
<1> QED BY <1>1, <1>4, FS_Subset

LEMMA ListsOK ==
    ASSUME CallsOK, Indexed, RegistryTypeOK, IsFiniteSet(there), NEW b \in Batch, ListClients(b)
    PROVE  CallsOK' /\ Indexed'
<1> DEFINE c == batch[b]
           j == c.job
           li == there \cap tagged
<1>1. /\ CallOK(c, flying[b], touched[b], listed[b]) /\ c \in ABatch
      /\ c.pc = "list" /\ j \in Job
    BY CallFacts DEF ListClients, CallOK, CallTyped
<1>2. PICK fetched \in Atmost(j.max, there) : \E limited \in Atmost(j.limit, Matches(j, fetched)) :
          Behave(b, IF j.dry THEN [c EXCEPT !.pc = "ok", !.skipped = limited]
                    ELSE [c EXCEPT !.pc = "next", !.left = limited])
    BY DEF ListClients
<1>3. PICK limited \in Atmost(j.limit, Matches(j, fetched)) :
          Behave(b, IF j.dry THEN [c EXCEPT !.pc = "ok", !.skipped = limited]
                    ELSE [c EXCEPT !.pc = "next", !.left = limited])
    BY <1>2
<1>4. j.tool = "prune" => j.limit \in Nat
    BY <1>1, BatchAssumption DEF AJob
<1>5. fetched \subseteq there /\ IsFiniteSet(Matches(j, fetched)) /\ limited \subseteq Matches(j, fetched)
    BY <1>2, <1>3, FS_Subset DEF Atmost, Matches
<1>6. limited \subseteq li \ j.exclude /\ limited \subseteq Client /\ li \subseteq Client
    BY <1>5 DEF Matches, RegistryTypeOK
<1>7. j.tool = "prune" => IsFiniteSet(limited) /\ Cardinality(limited) <= j.limit
    BY <1>3, <1>4, <1>5, AtmostIsSmall
<1>8. c.at = 1 /\ c.left = {} /\ c.updated = {} /\ Reach(flying[b], touched[b]) = {}
    BY <1>1 DEF CallOK, CallTyped, CallReports
<1>9. j.tool = "bulk_update" => 1 <= Len(j.updates) + 1
    BY <1>1, BatchAssumption DEF AJob
<1>10. CASE j.dry
    <2> DEFINE d == [c EXCEPT !.pc = "ok", !.skipped = limited]
    <2>1. /\ d \in ABatch /\ d.pc = "ok" /\ d.job = j /\ d.at = 1 /\ d.left = {} /\ d.updated = {}
        BY <1>1, <1>6, <1>8 DEF ABatch
    <2>2. Behave(b, d)
        BY <1>3, <1>10
    <2> HIDE DEF d
    <2>3. CallTyped(d, flying[b], touched[b], li)
        BY <2>1, <1>1, <1>6, <1>8, <1>9 DEF CallOK, CallTyped
    <2>4. CallReports(d, flying[b], touched[b])
        BY <2>1, <1>8, <1>10 DEF CallReports
    <2>5. CallChose(d, flying[b], touched[b], li)
        BY <2>1, <1>4, <1>8, FS_EmptySet DEF CallChose
    <2> QED BY <2>2, <2>3, <2>4, <2>5, OneCall DEF Behave, ListClients, CallOK
<1>11. CASE ~j.dry
    <2> DEFINE d == [c EXCEPT !.pc = "next", !.left = limited]
    <2>1. /\ d \in ABatch /\ d.pc = "next" /\ d.job = j /\ d.at = 1 /\ d.left = limited
          /\ d.updated = {}
        BY <1>1, <1>6, <1>8 DEF ABatch
    <2>2. Behave(b, d)
        BY <1>3, <1>11
    <2> HIDE DEF d
    <2>3. CallTyped(d, flying[b], touched[b], li)
        BY <2>1, <1>1, <1>6, <1>8, <1>9 DEF CallOK, CallTyped
    <2>4. CallReports(d, flying[b], touched[b])
        BY <2>1, <1>8, <1>11 DEF CallReports
    <2>5. CallChose(d, flying[b], touched[b], li)
        <3>1. limited \cup {} = limited
            OBVIOUS
        <3> QED BY <2>1, <1>6, <1>7, <1>8, <3>1 DEF CallChose
    <2> QED BY <2>2, <2>3, <2>4, <2>5, OneCall DEF Behave, ListClients, CallOK
<1> QED BY <1>10, <1>11

(* A call breaks off, or reports, without another change of its record. *)
LEMMA EndsOK ==
    ASSUME CallsOK, Indexed, NEW b \in Batch, NEW pc \in {"error", "ok"},
           Behave(b, [batch[b] EXCEPT !.pc = pc]), Quiet,
           batch[b].pc \in {"list", "wait", "next"},
           pc = "ok" => batch[b].pc = "next"
    PROVE  CallsOK' /\ Indexed'
<1> DEFINE c == batch[b]
           d == [c EXCEPT !.pc = pc]
<1>1. CallOK(c, flying[b], touched[b], listed[b]) /\ c \in ABatch /\ c.job \in Job
    BY CallFacts DEF CallOK, CallTyped
<1>2. /\ d \in ABatch /\ d.pc = pc /\ d.job = c.job /\ d.at = c.at /\ d.left = c.left
      /\ d.updated = c.updated /\ d.errors = c.errors
    BY <1>1 DEF ABatch
<1> HIDE DEF d
<1>3. CallTyped(d, flying[b], touched[b], listed[b])
    <2>1. c.job.tool = "bulk_update" => Len(c.job.updates) \in Nat
        BY <1>1, BatchAssumption DEF AJob
    <2> QED BY <1>1, <1>2, <2>1 DEF CallOK, CallTyped, ABatch
<1>4. CallReports(d, flying[b], touched[b])
    BY <1>1, <1>2 DEF CallOK, CallReports
<1>5. CallChose(d, flying[b], touched[b], listed[b])
    BY <1>1, <1>2 DEF CallOK, CallChose
<1> QED BY <1>3, <1>4, <1>5, QuietStep DEF CallOK, d

LEMMA DoneOK ==
    ASSUME CallsOK, Indexed, NEW b \in Batch, Done(b)
    PROVE  CallsOK' /\ Indexed'
<1> DEFINE c == batch[b]
           k == c.sent[2]
           d == [Past(c) EXCEPT !.updated = @ \cup {k}, !.left = @ \ {k}]
<1>1. /\ CallOK(c, flying[b], touched[b], listed[b]) /\ c \in ABatch
      /\ c.pc = "wait" /\ c.answer = "done" /\ c.job \in Job /\ ~c.job.dry
      /\ k \in Client /\ k \in touched[b]
    BY CallFacts DEF Done, CallOK, CallTyped, CallReports
<1>2. /\ d \in ABatch /\ d.pc = "next" /\ d.job = c.job /\ d.at = c.at + 1
      /\ d.updated = c.updated \cup {k} /\ d.left = c.left \ {k} /\ d.errors = c.errors
    <2> DEFINE p == Past(c)
    <2>1. /\ p \in ABatch /\ p.pc = "next" /\ p.job = c.job /\ p.at = c.at + 1
          /\ p.left = c.left /\ p.updated = c.updated /\ p.errors = c.errors
        BY <1>1, PastTyped
    <2> HIDE DEF p
    <2> DEFINE u == p.updated \cup {k}
               l == p.left \ {k}
    <2>2. u \subseteq Client /\ l \subseteq Client
        BY <1>1, <2>1 DEF ABatch
    <2>3. d = [p EXCEPT !.updated = u, !.left = l]
        BY DEF p
    <2> HIDE DEF u, l, d
    <2>4. /\ d \in ABatch /\ d.pc = p.pc /\ d.job = p.job /\ d.at = p.at
          /\ d.updated = u /\ d.left = l /\ d.errors = p.errors
        BY <2>1, <2>2, <2>3 DEF ABatch
    <2> QED BY <2>1, <2>4 DEF u, l
<1> HIDE DEF d
<1>3. /\ Reach(flying[b], touched[b]) \subseteq d.updated \cup d.errors
      /\ d.updated \subseteq touched[b]
    BY <1>1, <1>2 DEF CallOK, CallReports
<1>4. CASE c.job.tool = "bulk_update"
    <2>1. c.at <= Len(c.job.updates)
        BY <1>1, <1>4 DEF CallOK, CallTyped
    <2>2. CallOK(d, flying[b], touched[b], listed[b])
        BY <1>1, <1>2, <1>3, <1>4, <2>1, NextEntryOK
    <2> QED BY <2>2, QuietStep DEF Done, d
<1>5. CASE c.job.tool = "prune"
    <2>1. CallTyped(d, flying[b], touched[b], listed[b])
        BY <1>1, <1>2, <1>5 DEF CallOK, CallTyped
    <2>2. CallReports(d, flying[b], touched[b])
        BY <1>1, <1>2, <1>3 DEF CallReports
    <2>3. CallChose(d, flying[b], touched[b], listed[b])
        <3>1. k \in c.left
            BY <1>1, <1>5 DEF CallOK, CallChose
        <3>2. d.left \cup d.updated = c.left \cup c.updated
            BY <1>2, <3>1
        <3> QED BY <1>1, <1>2, <1>5, <3>2 DEF CallOK, CallChose
    <2> QED BY <2>1, <2>2, <2>3, QuietStep DEF Done, CallOK, d
<1> QED BY <1>1, <1>4, <1>5, BatchAssumption DEF AJob

LEMMA MissedOK ==
    ASSUME CallsOK, Indexed, NEW b \in Batch, Missed(b)
    PROVE  CallsOK' /\ Indexed'
<1> DEFINE c == batch[b]
           e == WithError(c, c.sent[2])
           d == Past(e)
<1>1. /\ CallOK(c, flying[b], touched[b], listed[b]) /\ c \in ABatch
      /\ c.pc = "wait" /\ c.job \in Job /\ ~c.job.dry /\ c.sent[2] \in Client
    BY CallFacts DEF Missed, CallOK, CallTyped, CallReports
<1>2. CASE c.job.tool = "prune"
    BY <1>1, <1>2, EndsOK DEF Missed
<1>3. CASE c.job.tool = "bulk_update"
    <2>1. /\ d \in ABatch /\ d.pc = "next" /\ d.job = c.job /\ d.at = c.at + 1
          /\ d.updated = c.updated /\ d.errors = c.errors \cup {c.sent[2]}
        <3>1. /\ e \in ABatch /\ e.job = c.job /\ e.at = c.at /\ e.updated = c.updated
              /\ e.errors = c.errors \cup {c.sent[2]}
            BY <1>1 DEF ABatch, WithError
        <3> HIDE DEF e
        <3> QED BY <3>1, PastTyped
    <2>2. Behave(b, d) /\ Quiet
        BY <1>3 DEF Missed
    <2> HIDE DEF d, e
    <2>3. /\ Reach(flying[b], touched[b]) \subseteq d.updated \cup d.errors
          /\ d.updated \subseteq touched[b] /\ c.at <= Len(c.job.updates)
        BY <1>1, <1>3, <2>1 DEF CallOK, CallTyped, CallReports
    <2>4. CallOK(d, flying[b], touched[b], listed[b])
        BY <1>1, <1>3, <2>1, <2>3, NextEntryOK
    <2> QED BY <2>2, <2>4, QuietStep
<1> QED BY <1>1, <1>2, <1>3, BatchAssumption DEF AJob

LEMMA ReportsOK ==
    ASSUME CallsOK, Indexed, NEW b \in Batch, Report(b)
    PROVE  CallsOK' /\ Indexed'
BY EndsOK DEF Report

LEMMA ListFailsOK ==
    ASSUME CallsOK, Indexed, NEW b \in Batch, ListClientsFails(b)
    PROVE  CallsOK' /\ Indexed'
BY EndsOK DEF ListClientsFails

(* A request reaches Keycloak or is turned down: in fl2 it is no longer    *)
(* flying, and in to2 its client may have been touched.                    *)
LEMMA ReachedOK ==
    ASSUME CallsOK, Indexed, NEW b \in Batch, NEW x \in flying[b],
           NEW answer \in {"done", "failed"}, Reached(b, x, answer), UNCHANGED listed,
           NEW to2, to2 = touched[b] \/ to2 = touched[b] \cup {x[2]},
           answer = "done" => x[2] \in to2,
           (touched' = touched /\ to2 = touched[b]) \/ touched' = [touched EXCEPT ![b] = to2]
    PROVE  CallsOK' /\ Indexed'
<1> DEFINE c == batch[b]
           fl2 == flying[b] \ {x}
           mine == c.pc = "wait" /\ c.sent = x
           d == IF mine THEN [c EXCEPT !.answer = answer] ELSE c
<1>1. CallOK(c, flying[b], touched[b], listed[b]) /\ c \in ABatch
    BY CallFacts
<1>2. /\ d \in ABatch /\ d.pc = c.pc /\ d.job = c.job /\ d.at = c.at /\ d.left = c.left
      /\ d.updated = c.updated /\ d.errors = c.errors /\ d.sent = c.sent
      /\ d.answer = IF mine THEN answer ELSE c.answer
    BY <1>1 DEF ABatch
<1>3. /\ Reach(fl2, to2) \subseteq Reach(flying[b], touched[b])
      /\ touched[b] \subseteq to2 /\ x[2] \in Client
      /\ x[2] \in Reach(flying[b], touched[b])
    BY <1>1 DEF Reach, CallOK, CallTyped
<1>4. flying' = [flying EXCEPT ![b] = fl2] /\ batch' = [batch EXCEPT ![b] = d]
    BY DEF Reached, Behave
<1> HIDE DEF d
<1>5. CallTyped(d, fl2, to2, listed[b])
    BY <1>1, <1>2, <1>3 DEF CallOK, CallTyped
<1> HIDE DEF fl2
<1>6. CallReports(d, fl2, to2)
    <2>1. d.pc = "wait" /\ d.answer = "done" => d.sent[2] \in to2
        BY <1>1, <1>2, <1>3 DEF CallOK, CallReports
    <2>2. Reach(flying[b], touched[b]) = {} => Reach(fl2, to2) = {}
        BY <1>3
    <2> QED BY <1>1, <1>2, <1>3, <2>1, <2>2 DEF CallOK, CallReports
<1>7. CallChose(d, fl2, to2, listed[b])
    BY <1>1, <1>2, <1>3 DEF CallOK, CallChose
<1>8. CallOK(d, fl2, to2, listed[b])
    BY <1>5, <1>6, <1>7 DEF CallOK
<1> QED BY <1>4, <1>8, OneCall

LEMMA ServesOK ==
    ASSUME CallsOK, Indexed, NEW b \in Batch, ServeBatch(b)
    PROVE  CallsOK' /\ Indexed'
<1>1. PICK x \in flying[b] : /\ touched' = [touched EXCEPT ![b] = @ \cup {x[2]}]
                             /\ Reached(b, x, "done")
                             /\ UNCHANGED listed
    BY DEF ServeBatch
<1> DEFINE to2 == touched[b] \cup {x[2]}
<1>2. touched' = [touched EXCEPT ![b] = to2]
    BY <1>1 DEF Indexed
<1> QED BY <1>1, <1>2, ReachedOK

LEMMA DeclinesOK ==
    ASSUME CallsOK, Indexed, NEW b \in Batch, DeclineBatch(b)
    PROVE  CallsOK' /\ Indexed'
<1>1. PICK x \in flying[b] : Reached(b, x, "failed") /\ UNCHANGED <<registry, touched, listed>>
    BY DEF DeclineBatch
<1> QED BY <1>1, ReachedOK

-----------------------------------------------------------------------------
LEMMA BatchesKeep ==
    ASSUME CallsOK, Indexed, RegistryTypeOK, IsFiniteSet(there), [Next]_vars
    PROVE  CallsOK' /\ Indexed'
<1>1. CASE UNCHANGED bvars
    BY <1>1 DEF bvars, CallsOK, Indexed
<1>2. ASSUME NEW b \in Batch, NEW j \in Job, BeginBatch(b, j)
      PROVE  CallsOK' /\ Indexed'
    BY <1>2, BeginsOK
<1>3. ASSUME NEW b \in Batch, BatchRuns(b)
      PROVE  CallsOK' /\ Indexed'
    <2>1. CASE Check(b)  BY <2>1, ChecksOK
    <2>2. CASE Unresolved(b) \/ Skip(b) \/ UpdateDry(b) \/ Update(b)
        BY <2>2, UnresolvedOK, SkipOK, UpdateDryOK, UpdateOK
    <2>3. CASE ListClients(b) \/ ListClientsFails(b) \/ Prune(b)
        BY <2>3, ListsOK, ListFailsOK, PruneOK
    <2>4. CASE Done(b) \/ Missed(b) \/ Report(b)
        BY <2>4, DoneOK, MissedOK, ReportsOK
    <2> QED BY <1>3, <2>1, <2>2, <2>3, <2>4 DEF BatchRuns
<1>4. ASSUME NEW b \in Batch, BatchGoesOn(b)
      PROVE  CallsOK' /\ Indexed'
    BY <1>3, <1>4, ServesOK, DeclinesOK DEF BatchGoesOn
<1> QED BY <1>1, <1>2, <1>4 DEF Next, CallBegins, EditGoesOn, vars

LEMMA StaysFinite ==
    ASSUME IsFiniteSet(there), [Next]_vars
    PROVE  IsFiniteSet(there)'
<1>1. there' \subseteq there
    <2>1. ASSUME NEW e \in Edit, EditStep(e)
          PROVE  UNCHANGED there
        BY <2>1 DEF EditStep, EditRuns, Begin, AskPage, FullPage, Resolve, Refuse, List,
                    ListOptional, ListFails, Send, Answered, GiveUp, Finish, Serve, Decline, registry
    <2>2. ASSUME NEW b \in Batch, BatchRuns(b) \/ DeclineBatch(b)
          PROVE  UNCHANGED there
        BY <2>2 DEF BatchRuns, Check, Unresolved, Skip, UpdateDry, Update, ListClients,
                    ListClientsFails, Prune, Done, Missed, Report, DeclineBatch, Quiet, Ask,
                    registry
    <2>3. ASSUME NEW b \in Batch, ServeBatch(b)
          PROVE  there' \subseteq there
        BY <2>3 DEF ServeBatch, DeleteClient, UpdateClient
    <2>4. CASE CallBegins
        BY <2>1, <2>4 DEF CallBegins, EditStep, BeginBatch, Quiet, registry
    <2>5. CASE UNCHANGED vars
        BY <2>5 DEF vars, registry
    <2> QED BY <2>1, <2>2, <2>3, <2>4, <2>5 DEF Next, EditGoesOn, EditStep, BatchGoesOn
<1> QED BY <1>1, FS_Subset

LEMMA BatchesBegin == Init => BatchInv
<1> SUFFICES ASSUME Init PROVE BatchInv
    OBVIOUS
<1>1. Waiting \in ABatch
    BY DEF Waiting, ABatch
<1>2. CallTyped(Waiting, {}, {}, {})
    BY <1>1 DEF CallTyped, Waiting, NoJob
<1>3. CallReports(Waiting, {}, {})
    BY DEF CallReports, Waiting, Reach
<1>4. CallChose(Waiting, {}, {}, {})
    BY DEF CallChose, Waiting, NoJob
<1>5. CallsOK /\ Indexed
    BY <1>2, <1>3, <1>4 DEF CallsOK, CallOK, Indexed, Init, BatchInit
<1>6. IsFiniteSet(there)
    BY StartAssumption DEF Init
<1> QED BY <1>5, <1>6 DEF BatchInv

LEMMA BatchInvOfAll == Spec => []BatchInv
<1>1. BatchInv /\ EditInv /\ [Next]_vars => BatchInv'
    <2>1. EditInv => RegistryTypeOK
        BY DEF EditInv, EditTypeOK
    <2> QED BY <2>1, BatchesKeep, StaysFinite DEF BatchInv
<1> QED BY <1>1, BatchesBegin, EditInvOfAll, PTL DEF Spec

(* The state of ClientChanges keeps its types, calls of bulk_update stay   *)
(* within their entries (clients/scopes.rs, core.rs 880-1003).             *)
THEOREM ChangesTypeCorrect == Spec => []TypeOK
<1>1. EditInv /\ BatchInv => TypeOK
    <2> SUFFICES ASSUME EditInv, BatchInv PROVE TypeOK
        OBVIOUS
    <2>1. EditTypeOK
        BY DEF EditInv
    <2>2. batch \in [Batch -> ABatch]
        BY DEF BatchInv, Indexed, CallsOK, CallOK, CallTyped
    <2>3. ASSUME NEW b \in Batch
          PROVE  /\ flying[b] \subseteq Nat \X Client \X (Changes \cup {"delete"})
                 /\ touched[b] \subseteq Client /\ listed[b] \subseteq Client
                 /\ batch[b].job.tool = "bulk_update"
                        => batch[b].at <= Len(batch[b].job.updates) + 1
        <3>1. CallTyped(batch[b], flying[b], touched[b], listed[b])
            BY DEF BatchInv, CallsOK, CallOK
        <3>2. batch[b].job.tool = "bulk_update" /\ batch[b].pc # "idle"
                  => Len(batch[b].job.updates) \in Nat
            BY <3>1, BatchAssumption DEF CallTyped, AJob
        <3>3. batch[b].pc = "idle" => batch[b].job.tool # "bulk_update"
            BY <3>1 DEF CallTyped, NoJob
        <3> QED BY <3>1, <3>2, <3>3 DEF CallTyped, ABatch
    <2> QED BY <2>1, <2>2, <2>3 DEF TypeOK
<1> QED BY <1>1, EditInvOfAll, BatchInvOfAll, PTL

(* A report names every client its call changed or may yet change, as      *)
(* updated only what was, and a dry run changes nothing, however requests  *)
(* are delayed or lost and whatever others do (core.rs 880-1004).          *)
THEOREM ReportsCover == Spec => []ReportCoversChanges
<1>1. BatchInv => ReportCoversChanges
    <2> SUFFICES ASSUME BatchInv, NEW b \in Batch, batch[b].pc = "ok"
                 PROVE  LET reach == Reach(flying[b], touched[b])
                        IN  IF batch[b].job.dry THEN reach = {}
                            ELSE /\ reach \subseteq batch[b].updated \cup batch[b].errors
                                 /\ batch[b].updated \subseteq touched[b]
        BY DEF ReportCoversChanges, Reach
    <2> QED BY DEF BatchInv, CallsOK, CallOK, CallReports
<1> QED BY <1>1, BatchInvOfAll, PTL

(* A prune changes only what existed, matched and was not excluded when it *)
(* listed, and no more than its limit (core.rs 1101-1195).                 *)
THEOREM PruneWithinListing == Spec => []PruneStaysWithinListing
<1>1. BatchInv => PruneStaysWithinListing
    <2> SUFFICES ASSUME BatchInv, NEW b \in Batch, batch[b].job.tool = "prune"
                 PROVE  LET reach == Reach(flying[b], touched[b])
                        IN  /\ reach \subseteq listed[b] \ batch[b].job.exclude
                            /\ Cardinality(reach) <= batch[b].job.limit
        BY DEF PruneStaysWithinListing, Reach
    <2> DEFINE d == batch[b]
               chosen == d.left \cup d.updated
               reach == Reach(flying[b], touched[b])
    <2>1. /\ chosen \subseteq listed[b] \ d.job.exclude /\ IsFiniteSet(chosen)
          /\ Cardinality(chosen) <= d.job.limit /\ reach \subseteq chosen
        BY DEF BatchInv, CallsOK, CallOK, CallChose
    <2>2. d.job.limit \in Nat
        <3>1. d.pc # "idle"
            BY DEF BatchInv, CallsOK, CallOK, CallTyped, NoJob
        <3> QED BY <3>1, BatchAssumption DEF AJob, BatchInv, CallsOK, CallOK, CallTyped
    <2>3. IsFiniteSet(reach) /\ Cardinality(reach) <= Cardinality(chosen)
        BY <2>1, FS_Subset
    <2>4. Cardinality(reach) \in Nat /\ Cardinality(chosen) \in Nat
        BY <2>1, <2>3, FS_CardinalityType
    <2> HIDE DEF d, chosen, reach
    <2>5. Cardinality(reach) <= d.job.limit
        BY <2>1, <2>2, <2>3, <2>4
    <2> QED BY <2>1, <2>5 DEF d, reach
<1> QED BY <1>1, BatchInvOfAll, PTL

-----------------------------------------------------------------------------
(* What the calls may still change.  What is on its way for a call is      *)
(* within its task, and is what it waits for unless it broke off or has    *)
(* reported the client as an error.                                        *)

Tasked(d, x, li) ==
    IF d.job.tool = "bulk_update" THEN <<x[2], <<x[3]>>>> \in BulkPowers(d.job)
    ELSE x[3] = d.job.action /\ x[2] \in li \ d.job.exclude

Awaited(d, x) == d.pc = "wait" /\ x = d.sent /\ d.answer = "none"

CallPermits(d, fl, li) ==
    /\ \A x \in fl : Tasked(d, x, li)
    /\ \A x \in fl : \/ Awaited(d, x) \/ d.pc = "error"
                     \/ d.job.tool = "bulk_update" /\ x[2] \in d.errors
    /\ d.pc \in {"idle", "check", "list"} => fl = {} /\ li = {}

PermitInv == \A b \in Batch : CallPermits(batch[b], flying[b], listed[b])

(* How a call's record c, its requests fl and its listing li become d, fl2 *)
(* and li2 in a step of its own or of Keycloak's for it.                   *)
Goes(c, d, fl, fl2, li, li2) ==
    /\ d.job = c.job /\ c.errors \subseteq d.errors /\ c.pc # "idle"
    /\ \/ c.pc = "check" /\ d.pc \in {"error", "list", "next"} /\ fl2 = fl /\ li2 = li
       \/ c.pc = "list" /\ d.pc = "error" /\ fl2 = fl /\ li2 = li
       \/ c.pc = "list" /\ d.pc \in {"ok", "next"} /\ fl2 = fl /\ li2 = there \cap tagged
          /\ (d.pc = "ok" => d.job.dry)
       \/ c.pc = "next" /\ d.pc \in {"next", "ok"} /\ fl2 = fl /\ li2 = li
       \/ c.pc = "next" /\ Awaited(d, d.sent) /\ fl2 = fl \cup {d.sent} /\ li2 = li
          /\ Tasked(d, d.sent, li)
       \/ c.pc = "wait" /\ c.answer = "done" /\ d.pc = "next" /\ fl2 = fl /\ li2 = li
       \/ c.pc = "wait" /\ d.job.tool = "bulk_update" /\ d.pc = "next" /\ c.sent[2] \in d.errors
          /\ fl2 = fl /\ li2 = li
       \/ c.pc = "wait" /\ d.pc = "error" /\ fl2 = fl /\ li2 = li
       \/ d.pc = c.pc /\ d.sent = c.sent /\ d.errors = c.errors /\ li2 = li
          /\ \E x \in fl : fl2 = fl \ {x} /\ (d.answer = c.answer \/ x = c.sent)

LEMMA PermitsGoOn ==
    ASSUME NEW c, NEW d, NEW fl, NEW fl2, NEW li, NEW li2,
           CallPermits(c, fl, li), Goes(c, d, fl, fl2, li, li2)
    PROVE  CallPermits(d, fl2, li2)
<1>1. \A x \in fl : li2 = li => Tasked(d, x, li2)
    BY DEF CallPermits, Goes, Tasked
<1>2. \A x \in fl2 : Tasked(d, x, li2)
    BY <1>1 DEF Goes, CallPermits
<1>3. \A x \in fl2 : \/ Awaited(d, x) \/ d.pc = "error"
                     \/ d.job.tool = "bulk_update" /\ x[2] \in d.errors
    BY DEF Goes, CallPermits, Awaited
<1>4. d.pc \in {"idle", "check", "list"} => fl2 = {} /\ li2 = {}
    BY DEF Goes, CallPermits, Awaited
<1> QED BY <1>2, <1>3, <1>4 DEF CallPermits

(* A step of call b that leaves what the other calls have. *)
BatchGoes(b) ==
    /\ \A a \in Batch : a # b => /\ batch'[a] = batch[a] /\ flying'[a] = flying[a]
                                 /\ listed'[a] = listed[a]
    /\ Goes(batch[b], batch'[b], flying[b], flying'[b], listed[b], listed'[b])

LEMMA GoesBy ==
    ASSUME Indexed, NEW b \in Batch, NEW d, batch' = [batch EXCEPT ![b] = d],
           NEW fl, (flying' = flying /\ fl = flying[b]) \/ flying' = [flying EXCEPT ![b] = fl],
           NEW li, (listed' = listed /\ li = listed[b]) \/ listed' = [listed EXCEPT ![b] = li],
           Goes(batch[b], d, flying[b], fl, listed[b], li)
    PROVE  BatchGoes(b)
<1>1. batch'[b] = d /\ flying'[b] = fl /\ listed'[b] = li
    BY DEF Indexed
<1>2. \A a \in Batch : a # b => /\ batch'[a] = batch[a] /\ flying'[a] = flying[a]
                                /\ listed'[a] = listed[a]
    BY DEF Indexed
<1> QED BY <1>1, <1>2 DEF BatchGoes

(* A call's own step, without a request. *)
LEMMA GoesQuietly ==
    ASSUME Indexed, NEW b \in Batch, NEW d, Behave(b, d), Quiet,
           Goes(batch[b], d, flying[b], flying[b], listed[b], listed[b])
    PROVE  BatchGoes(b)
BY GoesBy DEF Behave, Quiet

LEMMA StepsGo ==
    ASSUME BatchInv, NEW b \in Batch, BatchRuns(b)
    PROVE  BatchGoes(b)
<1> DEFINE c == batch[b]
<1>1. /\ CallOK(c, flying[b], touched[b], listed[b]) /\ c \in ABatch /\ Indexed /\ CallsOK
    BY CallFacts DEF BatchInv
<1>2. c.pc # "idle" => c.job \in Job
    BY <1>1 DEF CallOK, CallTyped
<1>3. CASE Check(b)
    <2>1. PICK pc \in {"error", "list", "next"} : Behave(b, [c EXCEPT !.pc = pc])
        BY <1>3 DEF Check
    <2> DEFINE d == [c EXCEPT !.pc = pc]
    <2>2. d.pc = pc /\ d.job = c.job /\ d.errors = c.errors
        BY <1>1 DEF ABatch
    <2>3. c.pc = "check" /\ Quiet /\ Behave(b, d)
        BY <1>3, <2>1 DEF Check
    <2> HIDE DEF d
    <2>4. Goes(c, d, flying[b], flying[b], listed[b], listed[b])
        BY <2>2, <2>3 DEF Goes
    <2> QED BY <1>1, <2>3, <2>4, GoesQuietly
<1>4. CASE Unresolved(b) \/ Skip(b) \/ UpdateDry(b)
    <2>1. PICK e : /\ Behave(b, Past(e)) /\ e \in ABatch /\ e.job = c.job
                   /\ c.errors \subseteq e.errors
        <3>1. AtEntry(b) /\ Entry(b) \in AnEntry
            BY <1>1, <1>4, EntryFacts DEF Unresolved, Skip, UpdateDry, Resolved
        <3>2. CASE Unresolved(b)
            <4> DEFINE e == WithError(c, Entry(b).client)
            <4>1. e \in ABatch /\ e.job = c.job /\ c.errors \subseteq e.errors
                BY <1>1, <3>1 DEF ABatch, AnEntry, WithError
            <4> QED BY <3>2, <4>1 DEF Unresolved
        <3>3. CASE Skip(b)
            <4> DEFINE e == [c EXCEPT !.skipped = @ \cup {Entry(b).client}]
            <4>1. e \in ABatch /\ e.job = c.job /\ c.errors \subseteq e.errors
                BY <1>1, <3>1, <3>3 DEF ABatch, AnEntry, Skip, Resolved
            <4> QED BY <3>3, <4>1 DEF Skip
        <3>4. CASE UpdateDry(b)
            <4> DEFINE e == [c EXCEPT !.updated = @ \cup {Entry(b).client}]
            <4>1. e \in ABatch /\ e.job = c.job /\ c.errors \subseteq e.errors
                BY <1>1, <3>1, <3>4 DEF ABatch, AnEntry, UpdateDry, Resolved
            <4> QED BY <3>4, <4>1 DEF UpdateDry
        <3> QED BY <1>4, <3>2, <3>3, <3>4
    <2>2. Past(e).pc = "next" /\ Past(e).job = c.job /\ c.errors \subseteq Past(e).errors
        BY <2>1, PastTyped
    <2>3. c.pc = "next" /\ Quiet
        BY <1>4 DEF Unresolved, Skip, UpdateDry, Resolved, AtEntry
    <2>4. Goes(c, Past(e), flying[b], flying[b], listed[b], listed[b])
        BY <2>2, <2>3 DEF Goes
    <2> QED BY <1>1, <2>1, <2>3, <2>4, GoesQuietly
<1>5. ASSUME NEW k, NEW change, Ask(b, k, change), c.pc = "next",
             IF c.job.tool = "bulk_update" THEN <<k, <<change>>>> \in BulkPowers(c.job)
             ELSE change = c.job.action /\ k \in listed[b] \ c.job.exclude
      PROVE  BatchGoes(b)
    <2> DEFINE x == <<c.at, k, change>>
               d == [c EXCEPT !.pc = "wait", !.sent = x, !.answer = "none"]
               fl == flying[b] \cup {x}
    <2>1. /\ d.pc = "wait" /\ d.sent = x /\ d.answer = "none" /\ d.job = c.job
          /\ d.errors = c.errors
        BY <1>1 DEF ABatch
    <2>2. batch' = [batch EXCEPT ![b] = d] /\ flying' = [flying EXCEPT ![b] = fl]
          /\ listed' = listed
        BY <1>1, <1>5 DEF Ask, Behave, Indexed
    <2>3. x[2] = k /\ x[3] = change
        OBVIOUS
    <2> HIDE DEF d, x
    <2>4. Goes(c, d, flying[b], fl, listed[b], listed[b])
        BY <1>5, <2>1, <2>3 DEF Goes, Awaited, Tasked
    <2> HIDE DEF fl
    <2> QED BY <1>1, <2>2, <2>4, GoesBy
<1>6. CASE Update(b)
    <2>1. AtEntry(b) /\ Entry(b) \in AnEntry /\ Entry(b).change # "nothing" /\ ~c.job.dry
        BY <1>1, <1>6, EntryFacts DEF Update, Resolved
    <2>2. c.at \in 1..Len(c.job.updates) /\ c.job.tool = "bulk_update" /\ c.pc = "next"
        <3>1. Len(c.job.updates) \in Nat
            BY <1>2, <2>1, BatchAssumption DEF AJob, AtEntry
        <3> QED BY <1>1, <2>1, <3>1 DEF AtEntry, ABatch
    <2>3. <<Entry(b).client, <<Entry(b).change>>>> \in BulkPowers(c.job)
        BY <2>1, <2>2 DEF BulkPowers, Entry
    <2> QED BY <1>5, <1>6, <2>2, <2>3 DEF Update
<1>7. CASE ListClients(b)
    <2>1. PICK limited : Behave(b, IF c.job.dry
                                   THEN [c EXCEPT !.pc = "ok", !.skipped = limited]
                                   ELSE [c EXCEPT !.pc = "next", !.left = limited])
        BY <1>7 DEF ListClients
    <2> DEFINE d == IF c.job.dry THEN [c EXCEPT !.pc = "ok", !.skipped = limited]
                    ELSE [c EXCEPT !.pc = "next", !.left = limited]
    <2>2. /\ d.job = c.job /\ d.errors = c.errors /\ d.pc \in {"ok", "next"}
          /\ d.pc = "ok" => c.job.dry
        BY <1>1 DEF ABatch
    <2>3. /\ c.pc = "list" /\ batch' = [batch EXCEPT ![b] = d] /\ flying' = flying
          /\ listed' = [listed EXCEPT ![b] = there \cap tagged]
        BY <1>7, <2>1 DEF ListClients, Behave
    <2> HIDE DEF d
    <2>4. Goes(c, d, flying[b], flying[b], listed[b], there \cap tagged)
        BY <2>2, <2>3 DEF Goes
    <2> QED BY <1>1, <2>3, <2>4, GoesBy
<1>8. CASE Prune(b)
    <2>1. PICK k \in c.left : Ask(b, k, c.job.action)
        BY <1>8 DEF Prune
    <2>2. c.pc = "next" /\ c.job.tool = "prune"
        BY <1>8 DEF Prune
    <2>3. k \in listed[b] \ c.job.exclude
        BY <1>1, <2>1, <2>2 DEF CallOK, CallChose
    <2> QED BY <1>5, <2>1, <2>2, <2>3
<1>9. CASE Done(b)
    <2> DEFINE p == Past(c)
               d == [p EXCEPT !.updated = @ \cup {c.sent[2]}, !.left = @ \ {c.sent[2]}]
    <2>1. p \in ABatch /\ p.pc = "next" /\ p.job = c.job /\ p.errors = c.errors
        BY <1>1, PastTyped
    <2>2. c.pc = "wait" /\ c.answer = "done" /\ Quiet /\ Behave(b, d)
        BY <1>9 DEF Done
    <2> HIDE DEF p
    <2>3. d.pc = "next" /\ d.job = c.job /\ d.errors = c.errors
        BY <2>1 DEF ABatch
    <2> HIDE DEF d
    <2>4. Goes(c, d, flying[b], flying[b], listed[b], listed[b])
        BY <2>2, <2>3 DEF Goes
    <2> QED BY <1>1, <2>2, <2>4, GoesQuietly
<1>10. ASSUME NEW pc \in {"error", "ok"}, Behave(b, [c EXCEPT !.pc = pc]), Quiet,
              IF pc = "ok" THEN c.pc = "next" ELSE c.pc \in {"list", "wait"}
       PROVE  BatchGoes(b)
    <2> DEFINE d == [c EXCEPT !.pc = pc]
    <2>1. d.pc = pc /\ d.job = c.job /\ d.errors = c.errors
        BY <1>1 DEF ABatch
    <2> HIDE DEF d
    <2>2. Goes(c, d, flying[b], flying[b], listed[b], listed[b])
        BY <1>10, <2>1 DEF Goes
    <2> QED BY <1>1, <1>10, <2>2, GoesQuietly DEF d
<1>11. CASE Missed(b)
    <2>1. CASE c.job.tool = "prune"
        BY <1>10, <1>11, <2>1 DEF Missed
    <2>2. CASE c.job.tool # "prune"
        <3> DEFINE e == WithError(c, c.sent[2])
                   d == Past(e)
        <3>1. c.pc = "wait" /\ Quiet /\ Behave(b, d)
            BY <1>11, <2>2 DEF Missed
        <3>2. c.sent[2] \in Client /\ c.job.tool = "bulk_update"
            BY <1>1, <1>2, <2>2, <3>1, BatchAssumption DEF CallOK, CallReports, AJob
        <3>3. e \in ABatch /\ e.job = c.job /\ e.errors = c.errors \cup {c.sent[2]}
            BY <1>1, <3>2 DEF WithError, ABatch
        <3> HIDE DEF e
        <3>4. d.pc = "next" /\ d.job = c.job /\ d.errors = c.errors \cup {c.sent[2]}
            BY <3>3, PastTyped
        <3> HIDE DEF d
        <3>5. Goes(c, d, flying[b], flying[b], listed[b], listed[b])
            BY <3>1, <3>2, <3>4 DEF Goes
        <3> QED BY <1>1, <3>1, <3>5, GoesQuietly
    <2> QED BY <2>1, <2>2
<1> QED
    BY <1>3, <1>4, <1>6, <1>7, <1>8, <1>9, <1>10, <1>11 DEF BatchRuns, ListClientsFails, Report

(* Keycloak's part: a request is carried out or turned down. *)
LEMMA ReachedGoes ==
    ASSUME BatchInv, NEW b \in Batch, NEW x \in flying[b], NEW answer, Reached(b, x, answer),
           listed' = listed, PermitInv
    PROVE  BatchGoes(b)
<1> DEFINE c == batch[b]
           d == IF c.pc = "wait" /\ c.sent = x THEN [c EXCEPT !.answer = answer] ELSE c
           fl == flying[b] \ {x}
<1>1. c \in ABatch /\ Indexed
    BY CallFacts DEF BatchInv
<1>2. /\ d.pc = c.pc /\ d.sent = c.sent /\ d.errors = c.errors /\ d.job = c.job
      /\ d.answer = c.answer \/ x = c.sent
    BY <1>1 DEF ABatch
<1>3. batch' = [batch EXCEPT ![b] = d] /\ flying' = [flying EXCEPT ![b] = fl]
    BY <1>1 DEF Reached, Behave, Indexed
<1>4. c.pc # "idle"
    BY DEF PermitInv, CallPermits
<1> HIDE DEF d
<1>5. Goes(c, d, flying[b], fl, listed[b], listed[b])
    BY <1>2, <1>4 DEF Goes
<1> HIDE DEF fl
<1> QED BY <1>1, <1>3, <1>5, GoesBy

LEMMA ServesAndDeclinesGo ==
    ASSUME BatchInv, PermitInv, NEW b \in Batch, ServeBatch(b) \/ DeclineBatch(b)
    PROVE  BatchGoes(b)
<1>1. CASE ServeBatch(b)
    <2>1. PICK x \in flying[b] : Reached(b, x, "done") /\ listed' = listed
        BY <1>1 DEF ServeBatch
    <2> QED BY <2>1, ReachedGoes
<1>2. CASE DeclineBatch(b)
    <2>1. PICK x \in flying[b] : Reached(b, x, "failed") /\ listed' = listed
        BY <1>2 DEF DeclineBatch
    <2> QED BY <2>1, ReachedGoes
<1> QED BY <1>1, <1>2

LEMMA PermitInvOfAll == Spec => []PermitInv
<1>1. Init => PermitInv
    BY DEF Init, BatchInit, PermitInv, CallPermits, Waiting
<1>2. BatchInv /\ PermitInv /\ [Next]_vars => PermitInv'
    <2> SUFFICES ASSUME BatchInv, PermitInv, [Next]_vars
                 PROVE  PermitInv'
        OBVIOUS
    <2>1. ASSUME NEW b \in Batch, BatchGoes(b)
          PROVE  PermitInv'
        <3>1. CallPermits(batch'[b], flying'[b], listed'[b])
            BY <2>1, PermitsGoOn DEF BatchGoes, PermitInv
        <3> QED BY <2>1, <3>1 DEF BatchGoes, PermitInv
    <2>2. ASSUME NEW b \in Batch, NEW j \in Job, BeginBatch(b, j)
          PROVE  PermitInv'
        <3> DEFINE d == [Waiting EXCEPT !.job = j, !.pc = "check"]
        <3>1. batch[b].pc = "idle" /\ flying' = flying /\ listed' = listed
              /\ batch' = [batch EXCEPT ![b] = d]
            BY <2>2 DEF BeginBatch, Behave, Quiet
        <3>2. flying[b] = {} /\ listed[b] = {}
            BY <3>1 DEF PermitInv, CallPermits
        <3>3. batch'[b] = d /\ \A a \in Batch : a # b => batch'[a] = batch[a]
            BY <3>1 DEF BatchInv, Indexed
        <3> HIDE DEF d
        <3>4. CallPermits(d, flying[b], listed[b])
            BY <3>2 DEF CallPermits
        <3> QED BY <3>1, <3>3, <3>4 DEF PermitInv
    <2>3. CASE UNCHANGED bvars
        BY <2>3 DEF bvars, PermitInv
    <2> QED BY <2>1, <2>2, <2>3, StepsGo, ServesAndDeclinesGo
            DEF Next, CallBegins, EditGoesOn, BatchGoesOn, vars
<1> QED BY <1>1, <1>2, BatchInvOfAll, PTL DEF Spec

-----------------------------------------------------------------------------
(* The licences, as the promise sees them. *)

Held == [x \in Edit \cup Batch |-> IF x \in Edit THEN EditLicence(x) ELSE BatchLicence(x)]

Holding(d, li) ==
    IF d.pc \in {"idle", "check", "list"} \/ d.job.dry THEN {}
    ELSE IF d.job.tool = "bulk_update"
         THEN IF d.pc = "ok" THEN {p \in BulkPowers(d.job) : p[1] \in d.errors}
              ELSE BulkPowers(d.job)
         ELSE IF d.pc = "ok" THEN {} ELSE {<<c, <<d.job.action>>>> : c \in li \ d.job.exclude}

LEMMA HeldBy ==
    /\ \A e \in Edit : Held[e] = EditLicence(e)
    /\ \A b \in Batch : Held[b] = Holding(batch[b], listed[b])
BY CallsApart DEF Held, BatchLicence, Holding

(* What a call may be granted: what it is asked to change, or, for a prune,*)
(* all that match when it lists.                                           *)
Grants ==
    {EditPowers(r) : r \in Request}
    \cup {BulkPowers(j) : j \in {i \in Job : i.tool = "bulk_update"}}
    \cup {{<<c, <<w[1]>>>> : c \in (there \cap tagged) \ w[2]} :
              w \in {<<j.action, j.exclude>> : j \in {i \in Job : i.tool = "prune"}}}

Renewed(old, new) == new \subseteq old \/ (old = {} /\ new \in Grants)

(* A step that changes what one call may do keeps the promise.             *)
LEMMA RenewedKeeps ==
    ASSUME UNCHANGED registry, NEW x \in Edit \cup Batch, Renewed(Held[x], Held'[x]),
           \A y \in Edit \cup Batch : y # x => Held'[y] = Held[y]
    PROVE  Promise!Grant(x) \/ Promise!Curtail(x)
<1>1. Held' = [Held EXCEPT ![x] = Held'[x]]
    BY DEF Held
<1>2. CASE Held'[x] \subseteq Held[x]
    BY <1>1, <1>2 DEF Promise!Curtail, Promise!registry, Held, registry
<1>3. CASE Held[x] = {} /\ Held'[x] \in Grants
    BY <1>1, <1>3 DEF Promise!Grant, Promise!Swept, Promise!registry, Held, registry, Grants
<1> QED BY <1>2, <1>3 DEF Renewed

LEMMA HoldingGoesOn ==
    ASSUME NEW c, NEW d, NEW fl, NEW fl2, NEW li, NEW li2, c.pc # "idle" => c.job \in Job,
           CallPermits(c, fl, li), Goes(c, d, fl, fl2, li, li2)
    PROVE  Renewed(Holding(c, li), Holding(d, li2))
<1>1. c.job \in Job /\ d.job = c.job
    BY DEF Goes
<1>2. c.job.tool = "bulk_update" \/ c.job.tool = "prune"
    BY <1>1, BatchAssumption DEF AJob
<1>3. CASE d.job.dry
    BY <1>3 DEF Holding, Renewed
<1>4. CASE ~d.job.dry /\ c.pc = "check"
    <2>1. Holding(c, li) = {} /\ li2 = {} /\ d.pc \in {"error", "list", "next"}
        BY <1>4 DEF Holding, CallPermits, Goes
    <2>2. CASE c.job.tool = "bulk_update"
        <3>1. Holding(d, li2) = {} \/ Holding(d, li2) = BulkPowers(d.job)
            BY <1>1, <1>4, <2>1, <2>2 DEF Holding
        <3> QED BY <1>1, <2>1, <2>2, <3>1 DEF Renewed, Grants
    <2>3. CASE c.job.tool = "prune"
        <3>1. Holding(d, li2) = {}
            BY <1>1, <1>4, <2>1, <2>3 DEF Holding
        <3> QED BY <2>1, <3>1 DEF Renewed
    <2> QED BY <1>2, <2>2, <2>3
<1>5. CASE ~d.job.dry /\ c.pc = "list"
    <2>1. Holding(c, li) = {}
        BY <1>5 DEF Holding
    <2>2. /\ (d.pc = "error" /\ li2 = {}) \/ (d.pc = "next" /\ li2 = there \cap tagged)
                \/ d.pc = "list"
          /\ d.pc = "list" => Holding(d, li2) = {}
        BY <1>5 DEF CallPermits, Goes, Holding
    <2>3. CASE c.job.tool = "bulk_update"
        <3>1. Holding(d, li2) = {} \/ Holding(d, li2) = BulkPowers(d.job)
            BY <1>1, <2>2, <2>3 DEF Holding
        <3> QED BY <1>1, <2>1, <2>3, <3>1 DEF Renewed, Grants
    <2>4. CASE c.job.tool = "prune"
        <3>1. \/ Holding(d, li2) = {}
              \/ Holding(d, li2) = {<<k, <<d.job.action>>>> : k \in (there \cap tagged) \ d.job.exclude}
            BY <1>1, <1>5, <2>2, <2>4 DEF Holding
        <3>2. \A w : w \in {<<j.action, j.exclude>> : j \in {i \in Job : i.tool = "prune"}}
                    => {<<k, <<w[1]>>>> : k \in (there \cap tagged) \ w[2]} \in Grants
            BY DEF Grants
        <3> DEFINE w == <<d.job.action, d.job.exclude>>
        <3>3. w \in {<<j.action, j.exclude>> : j \in {i \in Job : i.tool = "prune"}}
            BY <1>1, <2>4
        <3>4. w[1] = d.job.action /\ w[2] = d.job.exclude
            OBVIOUS
        <3> HIDE DEF w
        <3>5. {<<k, <<w[1]>>>> : k \in (there \cap tagged) \ w[2]} \in Grants
            BY <3>2, <3>3
        <3>6. {<<k, <<d.job.action>>>> : k \in (there \cap tagged) \ d.job.exclude} \in Grants
            BY <3>4, <3>5
        <3> QED BY <2>1, <3>1, <3>6 DEF Renewed
    <2> QED BY <1>2, <2>3, <2>4
<1>6. CASE c.pc \notin {"idle", "check", "list"}
    <2>1. /\ li2 = li
          /\ d.pc \notin {"idle", "check", "list"}
          /\ c.pc = "ok" => d.pc = "ok" /\ d.errors = c.errors
        BY <1>6 DEF Goes, Awaited
    <2>2. Holding(d, li2) \subseteq Holding(c, li)
        BY <1>1, <1>6, <2>1 DEF Holding
    <2> QED BY <2>2 DEF Renewed
<1> QED BY <1>3, <1>4, <1>5, <1>6 DEF Goes

LEMMA BatchPromises ==
    ASSUME BatchInv, PermitInv, UNCHANGED <<registry, edit>>, NEW b \in Batch, BatchGoes(b)
    PROVE  Promise!Grant(b) \/ Promise!Curtail(b)
<1>1. batch[b].pc # "idle" => batch[b].job \in Job
    BY CallFacts DEF BatchInv, CallOK, CallTyped
<1>2. Renewed(Holding(batch[b], listed[b]), Holding(batch'[b], listed'[b]))
    BY <1>1, HoldingGoesOn DEF BatchGoes, PermitInv
<1>3. \A a \in Batch : Held'[a] = Holding(batch'[a], listed'[a])
    BY CallsApart DEF Held, BatchLicence, Holding
<1>4. \A e \in Edit : Held'[e] = Held[e]
    BY DEF Held, EditLicence, Started
<1>5. \A y \in Edit \cup Batch : y # b => Held'[y] = Held[y]
    BY <1>3, <1>4, HeldBy DEF BatchGoes
<1> QED BY <1>2, <1>3, <1>5, HeldBy, RenewedKeeps

(* What Keycloak carries out for a batch was granted to it. *)
LEMMA ServePromises ==
    ASSUME BatchInv, PermitInv, NEW b \in Batch, ServeBatch(b), UNCHANGED edit
    PROVE  Promise!Use(b)
<1> DEFINE c == batch[b]
<1>1. PICK x \in flying[b] :
          /\ IF x[3] = "delete" THEN DeleteClient(x[2]) ELSE UpdateClient(x[2], x[3])
          /\ Reached(b, x, "done")
          /\ UNCHANGED listed
    BY DEF ServeBatch
<1>2. /\ CallOK(c, flying[b], touched[b], listed[b]) /\ CallPermits(c, flying[b], listed[b])
      /\ c \in ABatch /\ Indexed
    BY CallFacts DEF BatchInv, PermitInv
<1>3. x[3] \in Changes \cup {"delete"}
    BY <1>2 DEF CallOK, CallTyped
<1>4. ~c.job.dry /\ c.pc \notin {"idle", "check", "list"}
    <2>1. x[2] \in Reach(flying[b], touched[b])
        BY DEF Reach
    <2>2. c.pc \notin {"idle", "check", "list"}
        BY <1>2 DEF CallPermits
    <2> QED BY <1>2, <2>1, <2>2 DEF CallOK, CallReports
<1>5. <<x[2], <<x[3]>>>> \in Holding(c, listed[b])
    <2>1. Tasked(c, x, listed[b])
        BY <1>2 DEF CallPermits
    <2>2. c.pc = "ok" => c.job.tool = "bulk_update" /\ x[2] \in c.errors
        BY <1>2 DEF CallPermits, Awaited
    <2> QED BY <1>4, <2>1, <2>2 DEF Holding, Tasked
<1>6. Held' = Held
    <2>1. /\ batch'[b].pc = c.pc /\ batch'[b].job = c.job /\ batch'[b].errors = c.errors
          /\ \A a \in Batch : a # b => batch'[a] = batch[a]
        <3> DEFINE d == IF c.pc = "wait" /\ c.sent = x THEN [c EXCEPT !.answer = "done"] ELSE c
        <3>1. d.pc = c.pc /\ d.job = c.job /\ d.errors = c.errors
            BY <1>2 DEF ABatch
        <3>2. batch' = [batch EXCEPT ![b] = d]
            BY <1>1 DEF Reached, Behave
        <3> HIDE DEF d
        <3> QED BY <1>2, <3>1, <3>2 DEF Indexed
    <2>2. ASSUME NEW a \in Batch
          PROVE  BatchLicence(a)' = BatchLicence(a)
        <3>1. /\ batch'[a].pc = batch[a].pc /\ batch'[a].job = batch[a].job
              /\ batch'[a].errors = batch[a].errors /\ listed' = listed
            BY <1>1, <2>1
        <3> QED BY <3>1 DEF BatchLicence
    <2>3. \A e \in Edit : EditLicence(e)' = EditLicence(e)
        BY DEF EditLicence, Started
    <2> QED BY <2>2, <2>3 DEF Held
<1> DEFINE p == <<x[2], <<x[3]>>>>
<1>7. p \in Held[b] /\ p[1] = x[2] /\ p[2][1] = x[3]
    BY <1>5, HeldBy
<1>8. x[3] # "bind" /\ x[3] # "unbind"
    BY <1>3 DEF Changes
<1> HIDE DEF p, c
<1>9. CASE x[3] = "delete"
    BY <1>1, <1>6, <1>7, <1>9
       DEF Promise!Use, Promise!DeleteClient, DeleteClient, Unbound, Promise!Unbound, Held,
           Kind, Promise!Kind
<1>10. CASE x[3] # "delete"
    BY <1>1, <1>6, <1>7, <1>8, <1>10 DEF Promise!Use, Promise!UpdateClient, UpdateClient, Held
<1> QED BY <1>9, <1>10

-----------------------------------------------------------------------------
(* The scope tools' part. *)

(* In a step of its own, or when it is turned down, a call keeps what it   *)
(* was asked for, and once it told success it stays so.                    *)
LEMMA EditsKeepTheirTask ==
    ASSUME EditInv, NEW e \in Edit, EditRuns(e) \/ Decline(e)
    PROVE  /\ UNCHANGED registry
           /\ \A f \in Edit : f # e => edit'[f] = edit[f]
           /\ Started(e) /\ edit'[e].req = edit[e].req
           /\ edit[e].pc = "ok" => edit'[e].pc = "ok"
<1>1. edit[e] \in AnEdit /\ PlanSound(e)
    BY RecordFacts DEF Core
<1>2. ASSUME NEW d, Become(e, d)
      PROVE  edit'[e] = d /\ \A f \in Edit : f # e => edit'[f] = edit[f]
    BY <1>2 DEF Become, EditInv, EditTypeOK
<1>3. UNCHANGED registry
    BY DEF EditRuns, AskPage, FullPage, Resolve, Refuse, List, ListOptional, ListFails, Send,
           Answered, GiveUp, Finish, Decline
<1>4. CASE AskPage(e) \/ FullPage(e) \/ Resolve(e)
    <2>1. CASE AskPage(e)
        BY <1>1, <1>2, <1>3, <2>1 DEF AskPage, AnEdit, Started
    <2>2. CASE FullPage(e)
        <3> DEFINE d == [edit[e] EXCEPT !.pc = "resolve", !.first = NextFirst(edit[e].first)]
        <3>1. d.req = edit[e].req /\ edit[e].pc = "page" /\ Become(e, d)
            BY <1>1, <2>2 DEF FullPage, AnEdit
        <3> HIDE DEF d
        <3> QED BY <1>2, <1>3, <3>1 DEF Started
    <2>3. CASE Resolve(e)
        <3> DEFINE d == [edit[e] EXCEPT !.pc = "list", !.first = 0]
        <3>1. d.req = edit[e].req /\ edit[e].pc = "page" /\ Become(e, d)
            BY <1>1, <2>3 DEF Resolve, AnEdit
        <3> HIDE DEF d
        <3> QED BY <1>2, <1>3, <3>1 DEF Started
    <2> QED BY <1>4, <2>1, <2>2, <2>3
<1>5. CASE Refuse(e) \/ ListFails(e) \/ GiveUp(e)
    <2>1. CASE Refuse(e)
        <3> DEFINE d == [edit[e] EXCEPT !.pc = "error", !.first = 0]
        <3>1. d.req = edit[e].req /\ edit[e].pc \in {"resolve", "page"} /\ Become(e, d)
            BY <1>1, <2>1 DEF Refuse, AnEdit
        <3> HIDE DEF d
        <3> QED BY <1>2, <1>3, <3>1 DEF Started
    <2>2. CASE ListFails(e) \/ GiveUp(e)
        BY <1>1, <1>2, <1>3, <2>2 DEF ListFails, GiveUp, Fail, AnEdit, Started
    <2> QED BY <1>5, <2>1, <2>2
<1>6. CASE List(e)
    <2> DEFINE r == edit[e].req
               k == IF Ensures(r) THEN "default" ELSE r.kind
               p == [edit[e] EXCEPT !.seen[k] = bound[r.client][k]]
    <2>1. edit[e].pc = "list" /\ Become(e, IF Ensures(r) THEN [p EXCEPT !.pc = "list2"]
                                           ELSE Planned(p))
        BY <1>6 DEF List
    <2>2. p.req = r /\ [p EXCEPT !.pc = "list2"].req = r
        BY <1>1 DEF AnEdit
    <2>3. Planned(p).req = r
        BY <1>1 DEF Planned, AnEdit
    <2> HIDE DEF p
    <2> QED BY <1>2, <1>3, <2>1, <2>2, <2>3 DEF Started
<1>7. CASE ListOptional(e)
    <2> DEFINE r == edit[e].req
               p == [edit[e] EXCEPT !.seen["optional"] = bound[r.client]["optional"]]
    <2>1. edit[e].pc = "list2" /\ Become(e, Planned(p))
        BY <1>7 DEF ListOptional
    <2>2. Planned(p).req = r
        BY <1>1 DEF Planned, AnEdit
    <2> HIDE DEF p
    <2> QED BY <1>2, <1>3, <2>1, <2>2 DEF Started
<1>8. CASE Send(e)
    <2>1. PICK x : Become(e, [edit[e] EXCEPT !.pc = "wait", !.sent = x, !.answer = "none"])
        BY <1>8 DEF Send
    <2> DEFINE d == [edit[e] EXCEPT !.pc = "wait", !.sent = x, !.answer = "none"]
    <2>2. d.req = edit[e].req
        BY <1>1 DEF AnEdit
    <2>3. edit[e].pc = "apply" /\ Become(e, d)
        BY <1>8, <2>1 DEF Send
    <2> HIDE DEF d
    <2> QED BY <1>2, <1>3, <2>2, <2>3 DEF Started
<1>9. CASE Answered(e)
    <2> DEFINE d == [edit[e] EXCEPT !.pc = "apply", !.remove = @ \ {edit[e].sent},
                                    !.add = @ \ {edit[e].sent}]
    <2>1. d.req = edit[e].req
        BY <1>1 DEF AnEdit
    <2>2. edit[e].pc = "wait" /\ Become(e, d)
        BY <1>9 DEF Answered
    <2> HIDE DEF d
    <2> QED BY <1>2, <1>3, <2>1, <2>2 DEF Started
<1>10. CASE Finish(e)
    BY <1>1, <1>2, <1>3, <1>10 DEF Finish, AnEdit, Started
<1>11. CASE Decline(e)
    <2>1. Started(e)
        BY <1>1, <1>11 DEF Decline, PlanSound
    <2> QED BY <1>1, <1>2, <1>3, <1>11, <2>1 DEF Decline, AnEdit
<1> QED BY <1>4, <1>5, <1>6, <1>7, <1>8, <1>9, <1>10, <1>11 DEF EditRuns

LEMMA EditPromises ==
    ASSUME EditInv, NEW e \in Edit, EditRuns(e) \/ Decline(e), UNCHANGED bvars
    PROVE  Promise!Curtail(e)
<1>1. /\ UNCHANGED registry
      /\ \A f \in Edit : f # e => edit'[f] = edit[f]
      /\ Started(e) /\ edit'[e].req = edit[e].req
      /\ edit[e].pc = "ok" => edit'[e].pc = "ok"
    BY EditsKeepTheirTask
<1>2. Held'[e] \subseteq Held[e]
    BY <1>1 DEF Held, EditLicence, Started
<1>3. \A b \in Batch : Held'[b] = Held[b]
    BY CallsApart DEF Held, BatchLicence, bvars
<1>4. \A f \in Edit : f # e => Held'[f] = Held[f]
    BY <1>1 DEF Held, EditLicence, Started
<1>5. Held' = [Held EXCEPT ![e] = Held'[e]]
    BY <1>3, <1>4 DEF Held
<1> QED BY <1>1, <1>2, <1>5 DEF Promise!Curtail, Promise!registry, Held, registry

LEMMA BeginPromises ==
    ASSUME EditInv, NEW e \in Edit, NEW r \in Request, Begin(e, r), UNCHANGED bvars
    PROVE  Promise!Grant(e) \/ Promise!Curtail(e)
<1> DEFINE d == [Idle EXCEPT !.req = r, !.pc = "resolve"]
<1>1. edit[e].pc = "idle" /\ edit' = [edit EXCEPT ![e] = d] /\ UNCHANGED registry
    BY DEF Begin, Become
<1>2. d.req = r /\ d.pc = "resolve"
    BY DEF Idle
<1>3. edit'[e] = d /\ \A f \in Edit : f # e => edit'[f] = edit[f]
    BY <1>1 DEF EditInv, EditTypeOK
<1> HIDE DEF d
<1>4. Held[e] = {} /\ Held'[e] = EditPowers(r)
    BY <1>1, <1>2, <1>3 DEF Held, EditLicence, Started
<1>5. \A y \in Edit \cup Batch : y # e => Held'[y] = Held[y]
    BY <1>3, CallsApart DEF Held, EditLicence, Started, BatchLicence, bvars
<1>6. EditPowers(r) \in Grants
    BY DEF Grants
<1> QED BY <1>1, <1>4, <1>5, <1>6, RenewedKeeps DEF Renewed

(* What is in a plan is what the call may do. *)
LEMMA PlanPermitted ==
    ASSUME NEW r \in Request, ~r.dry, NEW seen \in Bindings, NEW x
    PROVE  /\ x \in ToAdd(r, seen) => <<r.client, <<"bind", x[1], x[2]>>>> \in EditPowers(r)
           /\ x \in ToRemove(r, seen) => <<r.client, <<"unbind", x[1], x[2]>>>> \in EditPowers(r)
<1>1. r.tool \in Tools /\ r.asked \subseteq Scope /\ r.kind \in Kind
    BY RequestFacts
<1>2. CASE r.tool = "add"
    BY <1>1, <1>2 DEF ToAdd, ToRemove, EditPowers
<1>3. CASE r.tool = "delete"
    BY <1>1, <1>3 DEF ToAdd, ToRemove, EditPowers
<1>4. CASE r.tool = "replace"
    <2>1. x \in ToAdd(r, seen) => x[1] = r.kind /\ x[2] \in r.asked
        BY <1>4 DEF ToAdd
    <2>2. x \in ToRemove(r, seen) => x[1] = r.kind /\ x[2] \in Scope \ r.asked
        BY <1>1, <1>4 DEF ToRemove, Bindings
    <2>3. EditPowers(r) = {<<r.client, <<"bind", r.kind, s>>>> : s \in r.asked}
                  \cup {<<r.client, <<"unbind", r.kind, s>>>> : s \in Scope \ r.asked}
        BY <1>4 DEF EditPowers
    <2> QED BY <2>1, <2>2, <2>3
<1>5. CASE r.tool = "ensure_bound"
    BY <1>1, <1>5 DEF ToAdd, ToRemove, EditPowers
<1>6. CASE r.tool = "ensure_unbound"
    <2>1. x \notin ToAdd(r, seen) /\ (x \in ToRemove(r, seen) => x[1] \in Kind /\ x[2] \in r.asked)
        BY <1>6 DEF ToAdd, ToRemove
    <2>2. EditPowers(r) = {<<r.client, <<"unbind", k, s>>>> : k \in Kind, s \in r.asked}
        BY <1>6 DEF EditPowers
    <2> QED BY <2>1, <2>2
<1> QED BY <1>1, <1>2, <1>3, <1>4, <1>5, <1>6 DEF Tools

(* What Keycloak carries out for a scope tool is of its plan. *)
LEMMA ServeEditPromises ==
    ASSUME EditInv, NEW e \in Edit, Serve(e), UNCHANGED bvars
    PROVE  Promise!Use(e)
<1> DEFINE r == edit[e].req
           x == wire[e]
           d == [edit[e] EXCEPT !.answer = "done"]
<1>1. edit[e] \in AnEdit /\ PlanSound(e) /\ x # NoWire
    BY RecordFacts DEF Core, Serve
<1>2. /\ r \in Request /\ ~r.dry /\ Started(e) /\ edit[e].pc # "ok"
      /\ x \in edit[e].remove \cup edit[e].add
      /\ edit[e].remove \subseteq ToRemove(r, edit[e].seen)
      /\ edit[e].add \subseteq ToAdd(r, edit[e].seen)
    BY <1>1 DEF PlanSound, Plan, Of
<1>3. x = <<x[1], x[2]>> /\ edit[e].seen \in Bindings
    BY <1>1, <1>2, EdgeFacts DEF AnEdit
<1>4. Held[e] = EditPowers(r)
    BY <1>2 DEF Held, EditLicence
<1>5. Held' = Held
    <2>1. d.req = r /\ d.pc = edit[e].pc
        BY <1>1 DEF AnEdit
    <2>2. edit'[e] = d /\ \A f \in Edit : f # e => edit'[f] = edit[f]
        BY DEF Serve, Become, EditInv, EditTypeOK
    <2> HIDE DEF d
    <2>3. \A f \in Edit : edit'[f].req = edit[f].req /\ edit'[f].pc = edit[f].pc
        BY <2>1, <2>2
    <2>4. \A f \in Edit : EditLicence(f)' = EditLicence(f)
        BY <2>3 DEF EditLicence, Started
    <2>5. \A b \in Batch : BatchLicence(b)' = BatchLicence(b)
        BY DEF BatchLicence, bvars
    <2> QED BY <2>4, <2>5 DEF Held
<1>6. /\ IF x \in edit[e].add THEN Put(r.client, x) ELSE Delete(r.client, x)
      /\ UNCHANGED <<there, enabled, tagged>>
    BY DEF Serve, Adds
<1> HIDE DEF r, x
<1>7. CASE x \in edit[e].add
    <2> DEFINE p == <<r.client, <<"bind", x[1], x[2]>>>>
    <2>1. p \in Held[e]
        BY <1>2, <1>3, <1>4, <1>7, PlanPermitted
    <2>2. p[1] = r.client /\ p[2][1] = "bind" /\ <<p[2][2], p[2][3]>> = x
        BY <1>3
    <2>3. Promise!Put(p[1], <<p[2][2], p[2][3]>>)
        BY <1>6, <1>7, <2>2 DEF Put, Promise!Put
    <2> HIDE DEF p
    <2> QED BY <1>5, <1>6, <2>1, <2>2, <2>3 DEF Promise!Use, Held
<1>8. CASE x \notin edit[e].add
    <2> DEFINE p == <<r.client, <<"unbind", x[1], x[2]>>>>
    <2>1. p \in Held[e]
        BY <1>2, <1>3, <1>4, <1>8, PlanPermitted
    <2>2. p[1] = r.client /\ p[2][1] = "unbind" /\ <<p[2][2], p[2][3]>> = x
        BY <1>3
    <2>3. Promise!Delete(p[1], <<p[2][2], p[2][3]>>)
        BY <1>6, <1>8, <2>2 DEF Delete, Promise!Delete
    <2> HIDE DEF p
    <2> QED BY <1>5, <1>6, <2>1, <2>2, <2>3 DEF Promise!Use, Held
<1> QED BY <1>7, <1>8

-----------------------------------------------------------------------------
LEMMA StepsArePromised ==
    ASSUME EditInv, BatchInv, PermitInv, [Next]_vars
    PROVE  [\E x \in Edit \cup Batch : \/ Promise!Use(x) \/ Promise!Grant(x)
                                       \/ Promise!Curtail(x)]_(Promise!pvars)
<1>1. ASSUME NEW e \in Edit, EditGoesOn(e)
      PROVE  Promise!Use(e) \/ Promise!Curtail(e)
    BY <1>1, EditPromises, ServeEditPromises DEF EditGoesOn
<1>2. ASSUME NEW b \in Batch, BatchGoesOn(b)
      PROVE  Promise!Use(b) \/ Promise!Grant(b) \/ Promise!Curtail(b)
    <2>1. CASE BatchRuns(b) /\ UNCHANGED evars
        <3>1. BatchGoes(b) /\ UNCHANGED <<registry, edit>>
            BY <2>1, StepsGo, BatchStutters DEF evars
        <3> QED BY <3>1, BatchPromises
    <2>2. CASE DeclineBatch(b) /\ UNCHANGED evars
        <3>1. BatchGoes(b) /\ UNCHANGED <<registry, edit>>
            BY <2>2, ServesAndDeclinesGo, BatchStutters DEF evars
        <3> QED BY <3>1, BatchPromises
    <2>3. CASE ServeBatch(b) /\ UNCHANGED <<edit, wire>>
        BY <2>3, ServePromises
    <2> QED BY <1>2, <2>1, <2>2, <2>3 DEF BatchGoesOn
<1>3. ASSUME NEW e \in Edit, NEW r \in Request, Begin(e, r), UNCHANGED bvars
      PROVE  Promise!Grant(e) \/ Promise!Curtail(e)
    BY <1>3, BeginPromises
<1>4. ASSUME NEW b \in Batch, NEW j \in Job, BeginBatch(b, j), UNCHANGED evars
      PROVE  UNCHANGED Promise!pvars
    <2> DEFINE d == [Waiting EXCEPT !.job = j, !.pc = "check"]
    <2>1. batch[b].pc = "idle" /\ UNCHANGED <<registry, listed>>
          /\ batch' = [batch EXCEPT ![b] = d]
        BY <1>4 DEF BeginBatch, Behave, Quiet
    <2>2. batch'[b] = d /\ d.pc = "check" /\ \A a \in Batch : a # b => batch'[a] = batch[a]
        BY <2>1 DEF BatchInv, Indexed, Waiting
    <2> HIDE DEF d
    <2>3. ASSUME NEW a \in Batch
          PROVE  BatchLicence(a)' = BatchLicence(a)
        <3>1. CASE a = b
            BY <2>1, <2>2, <3>1 DEF BatchLicence
        <3>2. CASE a # b
            BY <2>1, <2>2, <3>2 DEF BatchLicence
        <3> QED BY <3>1, <3>2
    <2>4. \A e \in Edit : EditLicence(e)' = EditLicence(e)
        BY <1>4 DEF EditLicence, Started, evars
    <2>5. Held' = Held
        BY <2>3, <2>4 DEF Held
    <2> QED BY <2>1, <2>5 DEF Promise!pvars, Promise!registry, registry, Held
<1>5. CASE UNCHANGED vars
    <2>1. Held' = Held
        BY <1>5 DEF vars, evars, bvars, Held, EditLicence, Started, BatchLicence
    <2> QED BY <1>5, <2>1 DEF vars, Promise!pvars, Promise!registry, registry, Held
<1> QED BY <1>1, <1>2, <1>3, <1>4, <1>5 DEF Next, CallBegins

(* Whatever happens to a client or a binding, some call was asked to do:   *)
(* a prune to what matched when it listed, nothing by a dry run, nothing   *)
(* by a call that told success but for what it reported as an error        *)
(* (scopes.rs 284-310, core.rs 957-1004, 1150-1195).                       *)
THEOREM CallsKeepTheirPromise == Spec => PromiseKept
<1>1. Init => [x \in Edit \cup Batch |-> IF x \in Edit THEN EditLicence(x) ELSE BatchLicence(x)]
              = [x \in Edit \cup Batch |-> {}]
    BY DEF Init, EditInit, BatchInit, EditLicence, BatchLicence, Started, Idle, Waiting
<1>2. EditInv /\ BatchInv /\ PermitInv /\ [Next]_vars
      => [\E x \in Edit \cup Batch : Promise!Use(x) \/ Promise!Grant(x) \/ Promise!Curtail(x)
         ]_(Promise!pvars)
    BY StepsArePromised
<1> QED BY <1>1, <1>2, EditInvOfAll, BatchInvOfAll, PermitInvOfAll, PTL
        DEF Spec, PromiseKept, Promise!PromiseSpec
=============================================================================
