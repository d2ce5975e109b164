# Verification of keycloak-admin-mcp

TLA+ models of the Keycloak administration bridge in this repository, the TLC
runs that check them on small instances, and theorems that TLAPS proves for
every instance. All paths below are relative to the repository (`src/...` is
its root in PROJECT.json).

## 1. The system

Two Rust processes stand between an MCP client (an LLM agent) and a Keycloak
server:

    MCP client --HTTP--> kc-admin-mcp --HTTP--> kc-admin-gateway --HTTP--> Keycloak
                         tools, sessions,       introspection, scope        Admin REST,
                         audit log              policy, token exchange      token endpoint

The MCP server authenticates a caller by introspection, checks the scopes and
roles a tool asks for, and turns a tool call into one or more requests to
`/admin/...` of the gateway, carrying the caller's own token. The gateway
introspects that token again, decides by method, path and query which scope it
needs, exchanges it for a delegated admin token and forwards the request.
Neither keeps anything between requests but what the table says.

| Component | State | Operations | Interacts with |
|---|---|---|---|
| Audit log (`kc-admin-mcp/src/audit.rs`, `tools/observability.rs`) | ring of the newest entries, last hash, log file and rotated files, checkpoint file | `record`, `checkpoint`, `snapshot`, rotation | `call_tool` records every call; `audit.checkpoint` and `audit.list` are tools themselves |
| Gateway pipeline (`kc-admin-gateway/src/handlers.rs`, `edge.rs`, `auth.rs`, `exchange.rs`, `http.rs`, `errors.rs`) | none but a handler's own: token, scopes, exchange, upstream answer; a break-glass deadline per process | `edge_guard`, `proxy_admin`, `handle_proxy` | Keycloak (introspection, exchange, admin API), the caller's connection |
| Scope policy (`handlers.rs` 900-1220) | none (pure) | `required_scopes`, `scope_candidates`, `select_scope_candidate` | called by the pipeline |
| Gateway start (`main.rs`, `config.rs`, `tls.rs`) | configuration | validation, deadline of an open allowlist | the pipeline |
| Tool dispatch (`kc-admin-mcp/src/server.rs`, `errors.rs`) | tools last listed | `call_tool`, `list_tools`, `read_resource`, list-changed notification | every tool, metrics, audit log |
| Gateway client (`gateway.rs`) | none | `request_json` with a timeout, no retry | the gateway |
| Caller authentication (`auth.rs`, `edge.rs`) | per-request `AuthContext` | `edge_guard`, `auth_guard`, `authenticate_request`, break-glass expiry of the caller allowlists | the toolkit's authenticator |
| Scope and role gates (`tools/shared.rs`, `config.rs`) | `ScopeMap`, role requirements | `require_scopes`, `require_roles_for_scopes` | every tool |
| Tools (`tools/**`, about 14,000 lines) | none; clients and bindings they change are Keycloak's | 114 tools modelled, one to many gateway requests each | gateway client, and each other through Keycloak |
| HTTP front and sessions (`main.rs`) | sessions and event store, both of the toolkit | `handle_mcp`, `auth_guard` | dispatch |
| Settings (`config.rs`) | constant | `load_config`, its refusals | environment |
| Startup admission (`admission.rs`, `provenance.rs`) | none | one decision before the server listens | settings, files that others write |
| Metrics (`metrics.rs`) | counters under several locks | `record_tool_call`, `snapshot` | dispatch |

What is hard here, and what would make each part correct:

* **Audit log.** Calls record concurrently, a checkpoint runs beside them with
  nothing locked between its steps, any file operation may fail and is then
  dropped, the process may be killed. Correct: the ring is the chain's unbroken
  tail; disk and chain agree; rotation loses the oldest only; nothing disappears
  without a trace.
* **Gateway pipeline.** Every await may be cut by a disconnection, a timeout, the
  end of the process; Keycloak goes on with what it was sent; the deadline may
  pass between two checks. Correct: nothing is forwarded without a checked token
  that itself carries the scopes; a status never contradicts what happened;
  every admitted request ends; every forwarded request is audited.
* **Scope policy.** A dozen route families, lookups with alternatives, order of
  branches. Correct: readers do not write, secrets need their own scope, a writer
  is not refused its lookup.
* **Tools.** Each makes its requests under scopes the MCP server checked by one
  rule and the gateway checks by another; several write more than once. Correct:
  the two rules agree; no tool is refused after it has written; a failure half way
  is reported as such.
* **Client tools.** Calls that read a client or a list of clients, choose, and
  change one thing per request, while others change the same and a request given
  up as lost may still arrive; a lookup that goes on for as long as Keycloak's answers
  have it. Correct: success means what was asked was so;
  nothing changes that no call was asked to change; a report covers what changed.
* **Dispatch.** Timeouts stacked on timeouts, outcome of a call derived from a
  flag. Correct: recorded outcome is the true one; metrics and audit agree.
* **Authentication and sessions.** A token or a break-glass deadline that runs out
  during the wait for the authenticator; a session that ends between its lookup
  and its use. Correct: only the entitled are served, each request by its session.
* **Admission.** A decision from the age of one file, the age of another and the
  contents of the first, read one after the other while deployments replace them.
  Correct: a process passes only on evidence that was there.
* **Metrics.** Counters under separate locks, read while they move. Correct: every
  call is counted once, as what its caller is told.

The list of hazards, each at its line and with the properties that speak of it,
is `hazards` in PROJECT.json.

## 2. The plan

Ordered by what matters most to someone who relies on the bridge. Done:

1. `AuditLog`, `AuditWindow`, `AuditLogProofs`: the audit log.
2. `ScopePolicy`, `GatewayProxy`, `AdminGate`, `ScopePolicyProofs`,
   `GatewayProxyProofs`: the gateway.
3. `ToolTable`, `PagedLookup`, `ToolCalls`, `ToolCallsProofs`: every tool's gates and requests,
   one call from its gates to its answer, against `ScopePolicy`.
4. `ClientRegistry`, `ScopeBindings`, `ClientBatches`, composed in `ClientChanges`,
   which implements `ClientPromise`: calls that change clients and their scopes,
   against each other and anybody else. `ScopeBindingsProofs`, `ClientChangesProofs`.
5. `ServerSettings`, `StartupAdmission`, `McpServer`: a process from its start
   through authentication, sessions and dispatch of its requests to its metrics.
   `StartupProofs`, `McpServerProofs`.

Left, should the project go on:

6. `list_tools` and the list-changed notification (`server.rs` 175), and the
   contents of client registration policies, modelled.
7. What becomes of the disk where a file operation fails or a checkpoint runs,
   stated as what it keeps and not only as what it loses; `DiskKeepsOrder` is so
   far the only theorem that allows failures.

## 3. The modules and the code

PROJECT.json's `map` gives the lines of every definition. The correspondence at
large:

**`AuditLog`** (`audit.rs`). The ring, the last hash and its lock, the files and
the checkpoint file are variables; `Record` is `AuditLog::record` in six steps,
cut where a file operation can fail or another call can come between (the guard
of `last_hash` is held throughout, as in the code); `Checkpoint` is
`AuditLog::checkpoint`, which holds nothing from one step to the next. A SHA-256
hash is the number of the entry hashed; a file is a sequence of tokens (an
entry, a line feed, the fragment of a failed write) and its size their number.
`fd` is the open file of `fs::write`, followed through renames. `Restart` is the
end of the process and `AuditLog::new`. `AuditWindow` is what `audit.list`
promises: the newest `MaxEntries` calls in order; `AuditLog` implements it with
`total <- issued` and `window <-` the numbers in the ring.

**`ScopePolicy`** (`kc-admin-gateway/src/handlers.rs` 900-1220). Pure operators
over sequences of path segments, one per predicate or table of the source:
`ScopeFamily`, `LookupScopes`, `ScopeCandidates`, `SelectScopeCandidate`,
`RequiredScopes`. Scope names lack the prefix `keycloak-admin:`.

**`GatewayProxy`** (`handlers.rs`, `edge.rs`, `auth.rs`, `exchange.rs`,
`errors.rs`). One handler per request, one action from each await to the next:
`Receive` (the edge), `ReadBody` (the caller's body, which may break off or grow
too large, and the bearer), `Introspect` (with all the checks behind it, in their
order: `Denial`), `Exchange`, `Send`, `Respond` or `Timeout`. `Disconnect` drops the
handler where it is; `KeycloakServes` is external and goes on whoever waits;
`Expire` and `Restart` are the break-glass deadline and the process. `AdminGate`
is what a caller is promised: admitted only while the gate is open, forwarded at
most once, told nothing that contradicts what became of the request; and a gate
once closed is open again in a new process alone (`process`, mapped to `restarts`).

**`ToolTable`** (`kc-admin-mcp/src/tools/**`). One operator per handler, of its
name: its scopes, its gates, and the set of its plans. A plan is a sequence of
requests, with what each failure of one does to the rest (`tolerates`, `skips`)
and whether the rest needs something of its answer that may be missing
(`finds`). The lookup of client scopes is one such request for each page (`paged`).
Arguments that choose between paths are the union of plans; loops
over roles, scopes or clients repeat up to `MostRepeats`. The segments of a path
that name a thing stand for any name, none of which `ScopePolicy` knows. Scope
names are those of the default scope map (`config.rs`).

**`ToolCalls`** (`tools/shared.rs`, `gateway.rs`, `server.rs`). One call: `Admit`
or `Deny` at the gates, then for each request `Refuse` (the gateway finds a scope
missing), `Lose` (it never gets there), or `Send` and then `Answer`, `Decline` or
`Timeout`, and `Succeed` behind the last. `AnswerFullPage` sends a paged request
again for its next page. The gateway is here its scope policy
alone, its other refusals being among `Lose` and `Decline`: it forwards the
caller's own token (`bearer_auth`), so `Covered` uses the caller's scopes. Calls
share nothing but the audit log; what other callers do at Keycloak meanwhile is
among Keycloak's answers.

**`PagedLookup`** (`load_client_scope_lookup`, `tools/clients.rs` 949) is the cursor of
the one loop in the handlers whose length Keycloak's answers decide: pages are
asked for until one is not full, and the cursor, a u32 that saturates, ends the
call with an error when it no longer advances. `ToolCalls` and `ScopeBindings`
both run on it. What a page holds is left out.

**`ClientRegistry`** is Keycloak's side of the client tools, external: the clients
that exist, are enabled, match a prune's filter (`tagged`), and the scopes bound
to each. A request Keycloak accepts does what it asks; any may be declined.

**`ScopeBindings`** (`tools/clients/scopes.rs`). A call of a scope tool: `Begin`,
its early returns, the lookup of its scopes (`AskPage`, `FullPage`, and `Resolve` with
the last page), one or two `list_client_scopes` (`seen`), then the
plan `ToRemove`, `ToAdd` worked out from what it saw, and one request per binding,
removals first, the first failure ending the call. `wire` is the request Keycloak
has not seen: a call that gave up leaves it there, and it may still be carried
out. `Others` is any change of the registry by anybody. `met`, `clean` and
`before` are histories: which goals of the call held at some moment, whether
nobody else changed the client, and how its bindings were at the beginning.

**`ClientBatches`** (`tools/clients/core.rs`). `clients.bulk_update` goes through its
entries and notes each failure; `clients.prune` lists once, takes the first
`limit` matches and ends at the first failure without a report. A request given
up may arrive later (`flying`).

**`ClientChanges`** puts both on one registry: what one kind does is among the
other's `Others`. **`ClientPromise`** is what callers and other administrators are
promised: a call holds a licence (what it was asked to change; for a prune, what
matched at one moment), licences only shrink, a call that told success keeps
none but for what it reported as an error, and nothing changes but under a
licence. `ClientChanges` implements it with `licence` computed from each call's
arguments, `pc`, report and listing.

**`ServerSettings`** (`config.rs`). The settings that can contradict each other,
which combinations `load_config` refuses (`Accepted`), what defaults become
(`Mode`, `Profile`), and the break-glass deadline.

**`StartupAdmission`** (`admission.rs`, `main.rs`). `Start` loads the settings;
`ReadGate`, `ReadExe`, `ReadText` are the three looks at files, `CannotRead` any
failure of one, `Concluded` and `Warned` the outcome; `SetUp` is what may still
fail before the process listens. `WriteFile` is external: a build installed or a
test gate's artifact written or removed, between any two looks. `shown` is a
history of what the files said while they were read.

**`McpServer`** extends it with requests to `/mcp`: `Receive` (`edge_guard`,
`auth_guard` and what comes before the await), `Authenticated` (the verdict
behind it, with the clock of that moment), `Routed` (`handle_mcp`, the session
looked up), `Handed` (the toolkit's service, external, which looks again), then
the stages of `call_tool`: the tool, which ends well or in an error (`ToolEnds`)
behind any number of requests that time out, each counted at once by
`GatewayClient` (`RequestTimesOut`), `Count` and `Observe` (the two locks of
`record_tool_call`), `Tell` (the audit entry and the answer). `metrics.get` reads
the counters (`ToolEnds`) and then the histogram (`SnapshotEnds`). `Dropped` is a
caller gone away, `SessionEnds` the session manager, `Killed` the end of the
process with all but files. What a tool does is in `ToolCalls`, what its audit
entry becomes in `AuditLog`.

`MCAuditLog`, `MCGatewayProxy`, `MCToolCalls`, `MCClientChanges` and `MCMcpServer`
hold the values TLC needs.
Definitions marked "mutant of" are faulty variants: put in place of the
definition they name, each makes a run fail (PROJECT.json, `mutants`).

## 4. The runs

| Run | Question | Bounds |
|---|---|---|
| `audit_memory` | is the ring the chain's tail, is a checkpoint backed by its lines, is `AuditWindow` implemented, does every call end | 2 calls, each possibly a checkpoint, ring of 2, 4 entries, rotation at 4 tokens (two entries) into 2 files, any fault, 1 restart |
| `audit_disk` | without faults, is the disk one verifiable chain and does rotation drop the oldest only | 2 calls, 7 entries, rotation at 4 tokens into 2 files, 1 restart |
| `audit_faults` | with faults, is the disk still in order | 2 calls, 5 entries, rotation at every entry (2 tokens), 2 files, 1 restart |
| `audit_checkpoint` | violated: does nothing on disk disappear silently | 2 calls, 3 entries, no rotation |
| `gateway_pipeline` | are answers truthful, is `AdminGate` implemented, does every admitted request end | 2 concurrent requests, each sound or with one of 8 flaws, open allowlist with a deadline, 1 restart |
| `gateway_routes` | is what is forwarded entitled, and what is refused rightly refused | 1 request: every scope alone and some pairs, 5 methods, 28 paths, 3 queries |
| `gateway_audit` | violated: is every forwarded request audited | 2 requests, no deadline |
| `tool_calls` | is success complete, is no call refused half way, do the gates hold, does every call end | each of 114 tools, every plan, 4 holdings of scopes, 3 of roles, confirmed or not, 3 deployments, loops of at most 2, up to 3 pages (size 2, cursor 0 to 3) |
| `client_changes` | does success mean what was asked, do reports cover what changed, is `ClientPromise` implemented, does every call end | any 2 calls of 10 scope edits, 4 bulk updates and 3 prunes, 2 clients, 2 scopes, 2 registries to start from, any request lost, declined or late, up to 2 pages (size 2, cursor 0 to 2) |
| `mcp_server` | are only the entitled served, each by its session, on admitted processes; do tallies, audit and answers agree; do calls end | 9 settings, 2 processes, 2 builds, 3 artifacts, 1 session, requests of 11 kinds, one with a token that never expires; 2 file writes or requests in all, 2 timeouts at the gateway, clock 0 to 1, skew 0 |
| `tool_roles` | violated: does whoever changes something hold a write role | the same |
| `tool_scopes` | violated: do a tool's documented scopes suffice | calls of `admin_events.list` |

Why these are enough. *Audit*: two calls make every race there is between two
critical sections and an unlocked checkpoint; four entries overrun a ring of two
twice; seven entries at two per file fill both rotated files, drop one and go
on; a restart puts a chain's begin in the middle of a file. *Gateway*: handlers
share the deadline and nothing else, so two show all that concurrency can do;
the routes take one request because the policy is a function of it, and their
paths have every family, each lookup's exact shape and its neighbours. *Tools*:
calls share no state, so one is enough; a loop of two has a first, a last and a
failure between the two; the scopes held are the tool's own (the least its gates
admit), all, the readers', and all but `clients:secrets` (which some gates ask for
beside another); the deployments have both role lists, a read list
alone and none, with secrets on and off. *Clients*: two calls make every race
between the reading of one and the writing of another, and a late request of the
first against the second; two scopes give a plan one binding to add and one to
remove, two clients let a prune take one and leave one. What more calls could do
is `Others` in the theorems, which hold for any number. A cursor of 2 in pages of 2
advances once and then stands; one of 3 (`tool_calls`) advances by a whole page,
then by less. In the code it takes some 43 million requests, for 100 scopes each, to
get there. *Server*: the files and the requests share a bound because what is
written before a process serves and what is asked of it later meet only in the
outcome of its start; two file writes are one between each pair of looks that
matters, two requests race on a session, on the two locks of the metrics and with a
deadline at time 1; a second process finds what the first left in its event store;
two timeouts are two of one call or one of each. A skew other than 0 shifts the same
comparison; the theorem is for all, negative ones included (`config.rs` 487).

Deadlock is not checked: bounded issues, finished requests, finished calls and
the last process gone are proper ends. What a deadlock would be here (a call that waits for ever) is
what the liveness properties exclude.

## 5. Fairness

* `AuditLog`: weak fairness of each call's steps. Its code has no await and no
  wait but for a mutex; the thread that runs it goes on. Nothing is assumed of
  the beginning of calls or of restarts. That no call starves at the mutex is
  the bound's doing (finitely many entries): `std::sync::Mutex` promises none.
* `GatewayProxy`: weak fairness of each handler's steps behind introspection
  (`Proxies`), `Timeout` among them: they wait for requests of the client that
  `build_client` makes (`http.rs` 28), which has a timeout. Nothing is assumed of
  Keycloak, of disconnections or of new requests; nor of the request's body, which
  is awaited without a limit (`handlers.rs` 215), nor of introspection, which the
  toolkit's `Authenticator` makes with a client of its own that this repository gives
  no timeout (`main.rs` 255-277). `EveryRequestEnds` therefore begins where a request
  is admitted.
* `ToolCalls`: weak fairness of the handler's steps: `GatewayClient` has a
  timeout of its own for each request. What ends a lookup that is given full pages
  for ever is its cursor alone, which the model has. Nothing is assumed of the
  gateway or of Keycloak.
* `ClientChanges`: weak fairness of each call's own steps, for the same timeout and
  the same cursor.
  Nothing is assumed of Keycloak, which may leave a request for ever, of others or
  of new calls.
* `McpServer`: weak fairness of the process's start (it waits for files alone) and
  of each tool's steps once it runs (`GoesOn`): that it comes to its end is what
  `ToolCalls` and `ClientChanges` show. No request has to time out. Nothing is assumed
  of the wait for the authenticator - `KC_ADMIN_MCP_INTROSPECTION_TIMEOUT_MS` is read (`config.rs` 495)
  and used nowhere -, of callers, of the session manager or of kills;
  `EveryRequestEnds` therefore begins where a tool runs.

## 6. What is proved

TLAPS checks these for every value of the constants, under the assumptions each
module names (`AuditAssumption`, `GatewayAssumption`, `ToolAssumption`,
`EditAssumption`, `BatchAssumption`, `StartAssumption`, `SettingsAssumption`,
`ArtifactAssumption`, `AskAssumption`, `CallAssumption`, `SkewAssumption`,
`PageAssumption`, `CallsApart`). They are types of constants, finite registries, a
ring of at least one entry (`AuditLog::new` raises 0 to 1), pages of at least one
scope, any integer for a skew, a log entry being neither a line feed nor a fragment,
a scope edit being no batch, and for the tools what a reader of each handler can see in it: what a tolerated failure leaves out is tolerated
itself; a tool that tells success on finding nothing only reads; one with gates
asks for a write scope if it writes; one that asks for a client's secret has
gates, wants secret tools enabled and asks for `clients:secrets`; and the scopes a
tool's own gates ask for cover each of its requests by the gateway's policy, save
one whose refusal it tolerates, and save, for the `UnderScoped` tools, those ahead
of their first change. TLC evaluates the assumptions on the values of the runs,
for `ToolAssumption` every call of every tool.

* `AuditLogProofs`: `TypeCorrect`; `RingChained` (`RingIsChainTail`);
  `CheckpointBacked` (`CheckpointWithinLines`); `ImplementsWindow` (`WindowSpec`).
  The ring's property is inductive only with what the holder of the guard has in
  hand: its entry is the newest hash and binds to the one before, and `last_hash`
  is the last one given out. The checkpoint's needs that a hash once read is
  that of an entry pushed or overtaken, at every step until the snapshot.

  The disk: `DiskKeepsOrder` (`DiskInOrder`), while no checkpoint runs and
  whatever fails; `DiskKeepsChain` (`DiskChainVerifies`) and `RotationDropsTheOldest`
  (`RotationDropsOldest`), while moreover no file operation fails and no call is cut
  off by the end of the process, so that restarts come between calls. A checkpoint
  writes the ring over the log, and a failed write is dropped, so neither
  hypothesis can be spared (section 8): `audit_faults` with checkpoints violates
  `DiskInOrder` and `audit_disk` with faults `DiskChainVerifies`, in a few steps. Any
  number of restarts (between calls, for the last two) and of calls and any rotation
  setting are allowed.
  `OrderInv` says that what stands in the files, from the last rotated one to the
  live one, and in each by position, ascends, and that nothing there is newer
  than `Top`, the newest hash the holder of the guard can have got to disk by
  where it is. `WholeInv` adds that every entry stands on a line of its own but
  for the one being written, bound to the entry before it or to none (`Bound`),
  that no number is missing between two that are there (`Unbroken`), that the
  newest is there (`HeadInv`), and what is where in the middle of a rotation, whose
  renames leave a slot empty between two steps.
* `ScopePolicyProofs`: `SomeScopeRequired`, no path, method, query or token for
  which the policy asks nothing; and `HeldIsChosen`, that of alternatives some of
  which the token holds one it holds is chosen.
* `GatewayProxyProofs`: `TypeCorrect`; `EntitledOnly`
  (`ForwardedIsEntitled`); `StatusTruthful` (`StatusTellsEffect`);
  `ImplementsGate` (`GateSpec`). The invariant ties each `pc` to what may have
  been sent by then, and the admission (`required` not empty, which is where
  `SomeScopeRequired` is needed) to the checks that were passed. On it rest
  `ReadersOnlyRead` (`ReadersNeverWrite`), `SecretsKept` (`SecretsNeedTheirScope`)
  and `RefusedRightly` (`NoSpuriousRefusal`), each for every path and query, by
  `JudgedInv`: the scopes a request was judged by are those the policy gives its
  own path, and one refused for scopes did not hold them.
* `ToolCallsProofs`: `TypeCorrect`; `CompleteSuccess` (`SuccessIsComplete`). The
  invariant: nothing ahead of the request the handler is at has been sent, all
  strict requests behind it are done, and success is told at the plan's end or by
  a tool that only reads. `WritersHoldRoles` (`GatedWritersHoldWriteRole`) and
  `SecretsGuarded` (`SecretsNeedSwitchAndScope`) need beside it that a call which has
  come to a request has passed its gates (`PassedGates`). `OwnScopesSuffice`
  (`ScopesSuffice`) and `RefusedBeforeChanges` (`NeverRefusedHalfway`) join the two
  processes: past its gates a call holds all of its tool's scopes; if those cover
  one alternative the gateway accepts, the gateway picks one that is held
  (`HeldIsChosen`), and the request is not refused. So what is refused and not
  tolerated is of an under-scoped tool that has only read so far (`EarlyRefusals`).
* `ScopeBindingsProofs`, against arbitrary `Others` and any number of calls:
  `EveryScopeServed` (`EachScopeServed`), `UndisturbedExact` (`UndisturbedIsExact`),
  `StaysBetween` (`PartialEditsStayBetween`), `DryRunTells` (`DryRunForetells`). The
  properties speak of ended calls; `EditInv` says of one under way that each goal
  was met or is in its plan still and, while nobody interferes, that the bindings
  differ from the target by exactly what of the plan Keycloak has not done.
* `ClientChangesProofs`: `EditsRunAsAlone`, every step of the composition is one of
  `ScopeBindings` with the batches among `Others`, which carries the four theorems
  over; `ChangesTypeCorrect`; `ReportsCover` (`ReportCoversChanges`) and
  `PruneWithinListing` (`PruneStaysWithinListing`), from `BatchInv`: what Keycloak
  changed or may yet change for a call is in its report so far or is the request
  it waits for, and a prune's rest, report and requests are all from its choice.
  `CallsKeepTheirPromise` (`PromiseKept`): `ClientChanges` implements
  `ClientPromise`, each step granting a licence, curtailing one, using one, or
  changing nothing there. The refinement needs `PermitInv`: whatever is on its way
  to Keycloak for a call is within what it was asked to do, and is what it waits
  for, unless it broke off or has reported it as an error; with `EditInv` and
  `BatchInv` it follows that Keycloak does nothing late for a call that told
  success but what its report names.
* `StartupProofs`: `StartupRestsOnEvidence` (`AdmittedOnEvidence`). `StartupInv` adds
  what was seen when: an artifact's age read and not below the executable's was so
  at that moment, because the executable's age only grows (`Watching`), and what
  `load_config` let through stays so (`Lawful`).
* `McpServerProofs`: `ServesOnEvidence` carries that over; `ServerTypeCorrect`;
  `OnlyTheEntitledAreServed` (`EntitledWhenServed`); `RequestsFollowTheirSession`
  (`RoutedByItsSession`). `ServerInv` says which checks a request at each `pc` has
  passed (`Admitted`) and that its session's present state is in its history while
  it is routed (`InLife`). `MetricsAccountForRequests` (`TalliesAgree`) and
  `SnapshotsAccountForCalls` (`SnapshotAccountsForCalls`), for any number of requests
  in any order through the two locks: `TallyInv` has each counter of calls and
  rejections the size of a set of requests of the present process, by how far each
  has come, and that of timeouts no smaller than the set of calls that met one, and
  zero if that is empty: a call meets any number of them (`clients.bulk_update` goes
  on behind each) and may tell success, so no equation with calls holds of the code.
  `SnapInv`
  puts both readings of a snapshot between the requests answered when it began and
  those that had ended by its end, and the first within the counters meanwhile.

## 7. What is only model-checked

Liveness: `EveryCallEnds` of three modules and `EveryRequestEnds` of two. It rests
on fairness, whose ENABLED the prover does not expand, and on induction over what
a call has left to do. Every other property of the passing runs is a theorem.

The theorems about tools hold for every table that meets `ToolAssumption`. That
the table of this repository does is an evaluation by TLC over `ToolTable`, for
loops of at most `MostRepeats`.

## 8. Where the code and its documents disagree

* **A checkpoint erases what the ring does not hold** (`audit.rs` 271; run
  `audit_checkpoint`). `audit.rs` 11 promises that chaining prevents silent
  deletions; after a restart the first `audit.checkpoint` empties the file, and
  the chain that follows verifies.
* **A dropped handler audits nothing** (`handlers.rs` 128; run `gateway_audit`).
  `handlers.rs` 7 says every request is audited; the audit line comes after the
  await that a disconnection cuts off.
* **`users.groups.remove` passes no gate** (`tools/users/groups.rs` 100; run
  `tool_roles`), where `tools/mod.rs` 12 says every tool call does.
* **Tools and gateway ask for different scopes** (`handlers.rs` 1199-1218; run
  `tool_scopes`). `admin_events.list` documents and asks `events:read`, and the
  gateway `realm:read`. `ScopesSuffice` shows that a call its gates admit is
  refused by the gateway for these tools alone (`UnderScoped`): admin events
  (list, clear), client registration policies (create, update, delete), initial
  access tokens (list, create, delete) and realm default scopes (list, add,
  remove), all of the realm family there; the service account role tools, those
  for default and optional scopes, scope binding and ensuring, `clients.prune`
  and group client roles, some request of which needs a read scope beside the
  tool's own or a scope of another family; and `users.groups.remove`, which
  asks nothing.

## 9. What is not modelled

* Text: log lines, error wording, JSON shapes, header filtering, URL encoding,
  the parsing of environment variables, the matching rules of argument
  validation (their refusals are `Deny`).
* TLS and the HTTP libraries: their failures are `Lose`, `Timeout`, `Disconnect`.
* Keycloak: external. It may answer anything, late or never, save that a 2xx answer
  to a list of bindings is a list: the code takes any other for an empty one
  (`tools/clients.rs` 1643).
* What the pages of client scopes hold, and what changes between two of them; which
  of a tool's names they resolve is a choice.
* A scope map of the deployment's own: the MCP server's scopes are configurable,
  the gateway's are not, and the documents name the default ones.
* What Keycloak does with a client beyond the fields `ClientRegistry` names; that a
  request it accepts does what it asks is assumed.
* The toolkit that the MCP server is built on: its authenticator (introspection
  and JWKS), session manager, services and event store are external, any answer
  they may give included. The metadata routes keep no state.
* The environment is one for all processes of a behaviour, and files are written
  only while no process serves: a running one never looks at them. The branch of
  `admission.rs` for a missing provenance cannot be reached, the build's identity
  never being empty.
* Labels and buckets of the metrics (`metrics.rs` 295): a histogram is its count.
* `list_tools`, resources and the list-changed notification (`server.rs` 175).
* The contents tools write, beside scope bindings and what bulk updates and prunes
  change: client registration policies in particular (`realms/registration.rs`).
* Bundles, tool registration and logging: static or without state.
