----------------------------- MODULE McpServer ------------------------------
(***************************************************************************)
(* The MCP server around its tools: a process starts (StartupAdmission),   *)
(* and requests to /mcp pass the edge and the authentication (edge.rs,     *)
(* auth.rs, auth_guard), are routed by their session (handle_mcp), run a   *)
(* tool that is counted and recorded (call_tool, metrics.rs), while        *)
(* sessions end, time passes and the process may be killed.                *)
(***************************************************************************)
EXTENDS StartupAdmission, Integers, FiniteSets

CONSTANTS
    Call,     \* requests to /mcp
    Ask,      \* what they may ask: see AnAsk
    Session,  \* ids of sessions
    Skew,     \* KC_ADMIN_MCP_CLOCK_SKEW_SECONDS
    MaxTimeouts \* bound: requests to the gateway that time out

NoSession == "none"
NoAsk == [method |-> "none"]

AnAsk(a) ==
    /\ a.method \in {"POST", "GET", "DELETE", "PUT"}
    /\ a.session \in Session \cup {NoSession}       \* the mcp-session-id header
    /\ a.body \in {"initialize", "call", "snapshot", "big"}
    /\ a.last \in BOOLEAN                           \* a last-event-id header
    /\ a.tidy \in BOOLEAN                           \* passes edge_guard
    /\ a.cert \in BOOLEAN                           \* has the client certificate's header
    /\ a.good \in BOOLEAN                          \* its token, as the authenticator sees it,
    /\ a.dated \in BOOLEAN /\ a.exp \in Int         \* and its claim exp, if it has one
    \* a.azp, a.client: the token's caller, "none" if it has none

ASSUME AskAssumption == \A a \in Ask : AnAsk(a)
ASSUME CallAssumption == IsFiniteSet(Call)
ASSUME SkewAssumption == Skew \in Int

VARIABLES
    call,     \* each request: where it is and what became of it
    session,  \* sessions of the process: unborn, live, gone
    store,    \* the event stores: sessions with events behind a client's last one
    tally,    \* Metrics
    recorded, \* entries handed to AuditLog::record, for each request
    entitled, \* history: requests entitled to be served at some moment so far
    life,     \* history: what each request's session was since it came in
    span      \* history: calls answered before, and calls over by the end of, a snapshot

rvars == <<call, session, store, tally, recorded, entitled, life, span>>
vars == <<svars, rvars>>

(* late: history, a request of its tool has timed out; calls, durations:   *)
(* what a snapshot read.                                                   *)
Idle == [pc |-> "idle", ask |-> NoAsk, born |-> 0, route |-> "none", failed |-> FALSE,
         late |-> FALSE, result |-> "none", told |-> "none", calls |-> 0, durations |-> 0]
Gone == [Idle EXCEPT !.pc = "dropped"]
NoSpan == [from |-> 0, to |-> 0]
Zeros == [rejects |-> 0, timeouts |-> 0, success |-> 0, error |-> 0, observed |-> 0]

Over(x) == call[x].pc \in {"done", "dropped"}
UnderWay(x) == call[x].pc # "idle" /\ ~Over(x)

(* The stages of call_tool, in order. *)
Counted == {"observe", "tell", "done"}
Observed == {"tell", "done"}

-----------------------------------------------------------------------------
(* Histories, kept at every step of this module. *)

StateOf(a, sessions) == IF a.session = NoSession THEN "gone" ELSE sessions[a.session]

(* What the documents ask of a caller: a sound token, not expired by more  *)
(* than the skew if it expires at all, a caller of the lists, and open     *)
(* lists only up to their deadline.                                        *)
Entitled(a, d, t) ==
    /\ a.tidy /\ ~d.set.dpop /\ (d.set.cert => a.cert)
    /\ a.good /\ (a.dated => t <= a.exp + Skew)
    /\ d.set.azp = {} \/ a.azp \in d.set.azp
    /\ d.set.clients = {} \/ a.client \in d.set.clients
    /\ AnyCaller(d.set) /\ HasDeadline(d.set) => t < Deadline(d.set, d.start)

Watched ==
    /\ entitled' = {x \in Call :
           /\ call'[x].ask # NoAsk
           /\ x \in entitled \/ (call'[x].pc = "token" /\ Entitled(call'[x].ask, boot', now'))}
    /\ life' = [x \in Call |->
           IF call'[x].ask = NoAsk THEN {}
           ELSE life[x] \cup IF call'[x].pc \in {"token", "route", "hand"}
                             THEN {StateOf(call'[x].ask, session')} ELSE {}]

Become(x, d) == call' = [call EXCEPT ![x] = d]
Told(d, reply) == [d EXCEPT !.pc = "done", !.told = reply]

-----------------------------------------------------------------------------
(* edge_guard, auth_guard and authenticate_request up to its await. *)

(* auth_error_response counts what it answers. *)
Rejected(x, d, reply) ==
    /\ Become(x, Told(d, reply))
    /\ tally' = [tally EXCEPT !.rejects = @ + 1]

Receive(x) ==
    /\ call[x].pc = "idle" /\ Request
    /\ \E a \in Ask :
           LET d == [Idle EXCEPT !.ask = a, !.born = starts]
           IN  CASE ~a.tidy -> Become(x, Told(d, "bad_request")) /\ UNCHANGED tally
                 [] a.tidy /\ boot.set.dpop -> Rejected(x, d, "unsupported")
                 [] a.tidy /\ ~boot.set.dpop /\ boot.set.cert /\ ~a.cert ->
                        Rejected(x, d, "forbidden")
                 [] OTHER -> Become(x, [d EXCEPT !.pc = "token"]) /\ UNCHANGED tally
    /\ UNCHANGED <<session, store, recorded, span>>
    /\ Watched

(* External: the authenticator's answer to a token; it may fail on any. *)
Answers(a) == {"unreachable"} \cup IF a.good THEN {"active"} ELSE {"inactive"}

ExpiredUnskewed(a, t) == FALSE                           \* mutant of TokenExpired
TokenExpired(a, t) == a.dated /\ a.exp + Skew < t

Verdict(a, d, t, answer) ==
    CASE answer = "unreachable" -> "bad_gateway"
      [] answer = "inactive" -> "unauthorized"
      [] answer = "active" /\ TokenExpired(a, t) -> "unauthorized"
      [] answer = "active" /\ ~TokenExpired(a, t) ->
             IF \/ BreakGlassExpired(d.set, d.start, t)
                \/ d.set.azp # {} /\ a.azp \notin d.set.azp
                \/ d.set.clients # {} /\ a.client \notin d.set.clients
             THEN "forbidden" ELSE "ok"

Authenticated(x) ==
    LET d == call[x]
    IN  /\ d.pc = "token"
        /\ \E answer \in Answers(d.ask) :
               LET v == Verdict(d.ask, boot, now, answer)
               IN  IF v = "ok" THEN Become(x, [d EXCEPT !.pc = "route"]) /\ UNCHANGED tally
                   ELSE Rejected(x, d, v)
        /\ UNCHANGED <<svars, session, store, recorded, span>>
        /\ Watched

-----------------------------------------------------------------------------
(* handle_mcp. *)

Events == IF boot.set.resume = "replay" THEN store[boot.set.store] ELSE {}

RouteOpen(a, s, found) ==                                \* mutant of Route
    CASE a.method = "POST" /\ a.session # NoSession ->
             IF s.stateless THEN "stateless" ELSE IF found THEN "stateful" ELSE "not_found"
      [] a.method = "POST" /\ a.session = NoSession ->
             CASE a.body = "big" -> "bad_request"
               [] a.body = "initialize" -> "stateful"
               [] OTHER -> IF s.stateless THEN "stateless" ELSE "bad_request"
      [] a.method \in {"GET", "DELETE"} ->
             CASE a.session = NoSession -> "bad_request"
               [] a.session # NoSession /\ found -> "stateful"
               [] OTHER -> "not_found"
      [] OTHER -> "not_allowed"
Route(a, s, found) ==
    CASE a.method = "POST" /\ a.session # NoSession ->
             IF found THEN "stateful" ELSE IF s.stateless THEN "stateless" ELSE "not_found"
      [] a.method = "POST" /\ a.session = NoSession ->
             CASE a.body = "big" -> "bad_request"
               [] a.body = "initialize" -> "stateful"
               [] OTHER -> IF s.stateless THEN "stateless" ELSE "bad_request"
      [] a.method \in {"GET", "DELETE"} ->
             CASE a.session = NoSession -> "bad_request"
               [] a.session # NoSession /\ found -> "stateful"
               [] OTHER -> "not_found"
      [] OTHER -> "not_allowed"

(* replay_from_event_store, which may fail, too. *)
Replays(a, route) ==
    route = "not_found" /\ a.method = "GET" /\ a.last /\ a.session \in Events

(* session_exists tells false when the lookup fails. *)
Routed(x) ==
    LET d == call[x]
    IN  /\ d.pc = "route"
        /\ \E failed \in BOOLEAN :
               LET found == ~failed /\ StateOf(d.ask, session) = "live"
                   r == Route(d.ask, boot.set, found)
                   n == [d EXCEPT !.route = r, !.failed = failed]
               IN  IF r \in {"stateful", "stateless"} THEN Become(x, [n EXCEPT !.pc = "hand"])
                   ELSE \/ Become(x, Told(n, r))
                        \/ Replays(d.ask, r) /\ Become(x, Told(n, "replayed"))
        /\ UNCHANGED <<svars, session, store, tally, recorded, span>>
        /\ Watched

(* The caller goes away before a service has its request: the future is    *)
(* dropped at its await.                                                   *)
Dropped(x) ==
    /\ call[x].pc \in {"token", "route", "hand"}
    /\ Become(x, Gone)
    /\ UNCHANGED <<svars, session, store, tally, recorded, span>>
    /\ Watched

-----------------------------------------------------------------------------
(* External: the toolkit's service takes the request.  A stateful one      *)
(* looks for the session again, and opens or closes it.                    *)

Answered == {x \in Call : call[x].pc = "done" /\ call[x].born = starts /\ call[x].result # "none"}
Ended == {x \in Call : call[x].born = starts /\ call[x].result # "none" /\ call[x].pc # "dropped"}

(* The session's events are kept if a store is. *)
Keeps(n) ==
    store' = IF boot.set.resume = "replay" THEN [store EXCEPT ![boot.set.store] = @ \cup {n}]
             ELSE store

Takes(x) ==
    /\ IF call[x].ask.body = "initialize"
       THEN Become(x, Told(call[x], "opened")) /\ UNCHANGED span
       ELSE /\ Become(x, [call[x] EXCEPT !.pc = "run"])
            /\ span' = [span EXCEPT ![x].from = Cardinality(Answered)]
    /\ UNCHANGED <<session, store>>

Handed(x) ==
    LET d == call[x]
        a == d.ask
        alive == StateOf(a, session) = "live"
    IN  /\ d.pc = "hand"
        /\ \/ /\ d.route = "stateful" /\ a.session = NoSession
              /\ \/ \E n \in Session :
                        /\ session[n] = "unborn"
                        /\ session' = [session EXCEPT ![n] = "live"]
                        /\ Keeps(n)
                        /\ Become(x, Told(d, "opened"))
                 \/ /\ Become(x, Told(d, "full"))        \* of the session manager
                    /\ UNCHANGED <<session, store>>
              /\ UNCHANGED span
           \/ /\ d.route = "stateful" /\ a.session # NoSession /\ alive
              /\ CASE a.method = "POST" -> Takes(x)
                   [] a.method = "GET" -> /\ Become(x, Told(d, "stream"))
                                          /\ UNCHANGED <<session, store, span>>
                   [] OTHER -> /\ session' = [session EXCEPT ![a.session] = "gone"]
                               /\ Become(x, Told(d, "closed"))
                               /\ UNCHANGED <<store, span>>
           \/ /\ d.route = "stateful" /\ a.session # NoSession /\ ~alive
              /\ Become(x, Told(d, "gone"))
              /\ UNCHANGED <<session, store, span>>
           \/ /\ d.route = "stateless"
              /\ Takes(x)
        /\ UNCHANGED <<svars, tally, recorded>>
        /\ Watched

(* A session ends by its keep-alive or to make room, and so do its events. *)
SessionEnds ==
    /\ \E n \in Session :
           \/ /\ session[n] = "live"
              /\ session' = [session EXCEPT ![n] = "gone"]
              /\ UNCHANGED store
           \/ \E s \in {"memory", "sqlite"} :
                  /\ n \in store[s] /\ Serving /\ s = boot.set.store
                  /\ store' = [store EXCEPT ![s] = @ \ {n}]
                  /\ UNCHANGED session
    /\ UNCHANGED <<svars, call, tally, recorded, span>>
    /\ Watched

-----------------------------------------------------------------------------
(* call_tool.  GatewayClient counts each request that times out when it    *)
(* does; its tool may go on to the next (clients.bulk_update), end well or *)
(* in an error.  An error that is not flagged (tool_error_with_context) is *)
(* none here, as the code does.  metrics.get reads the counters, then the  *)
(* histogram.                                                              *)

RequestTimesOut(x) ==
    LET d == call[x]
    IN  /\ d.pc = "run" /\ d.ask.body # "snapshot"
        /\ tally.timeouts < MaxTimeouts
        /\ Become(x, [d EXCEPT !.late = TRUE])
        /\ tally' = [tally EXCEPT !.timeouts = @ + 1]
        /\ UNCHANGED <<svars, session, store, recorded, span>>
        /\ Watched

Flagged(result) == result = "error"

ToolEnds(x) ==
    LET d == call[x]
    IN  /\ d.pc = "run"
        /\ \/ /\ d.ask.body # "snapshot"
              /\ \E result \in {"ok", "error"} :
                     Become(x, [d EXCEPT !.result = result, !.pc = "count"])
           \/ /\ d.ask.body = "snapshot"
              /\ Become(x, [d EXCEPT !.calls = tally.success + tally.error, !.pc = "snap"])
        /\ UNCHANGED <<svars, session, store, tally, recorded, span>>
        /\ Watched

SnapshotEnds(x) ==
    LET d == call[x]
    IN  /\ d.pc = "snap"
        /\ Become(x, [d EXCEPT !.durations = tally.observed, !.result = "ok", !.pc = "count"])
        /\ span' = [span EXCEPT ![x].to = Cardinality(Ended)]
        /\ UNCHANGED <<svars, session, store, tally, recorded>>
        /\ Watched

(* record_tool_call: a lock for the counter, then one for the histogram. *)
Count(x) ==
    LET d == call[x]
    IN  /\ d.pc = "count"
        /\ Become(x, [d EXCEPT !.pc = "observe"])
        /\ tally' = IF Flagged(d.result) THEN [tally EXCEPT !.error = @ + 1]
                    ELSE [tally EXCEPT !.success = @ + 1]
        /\ UNCHANGED <<svars, session, store, recorded, span>>
        /\ Watched

ObserveTwice(x) ==                                       \* mutant of Observe
    LET d == call[x]
    IN  /\ d.pc = "observe"
        /\ Become(x, [d EXCEPT !.pc = "tell"])
        /\ tally' = [tally EXCEPT !.observed = @ + 2]
        /\ UNCHANGED <<svars, session, store, recorded, span>>
        /\ Watched
Observe(x) ==
    LET d == call[x]
    IN  /\ d.pc = "observe"
        /\ Become(x, [d EXCEPT !.pc = "tell"])
        /\ tally' = [tally EXCEPT !.observed = @ + 1]
        /\ UNCHANGED <<svars, session, store, recorded, span>>
        /\ Watched

(* AuditLog::record (module AuditLog), then the answer; its events are     *)
(* kept if its session's are.                                              *)
TellUnrecorded(x) ==                                     \* mutant of Tell
    LET d == call[x]
    IN  /\ d.pc = "tell"
        /\ Become(x, Told(d, IF Flagged(d.result) THEN "error" ELSE "success"))
        /\ recorded' = IF d.result = "ok" THEN [recorded EXCEPT ![x] = @ + 1] ELSE recorded
        /\ IF d.route = "stateful" THEN Keeps(d.ask.session) ELSE UNCHANGED store
        /\ UNCHANGED <<svars, session, tally, span>>
        /\ Watched
Tell(x) ==
    LET d == call[x]
    IN  /\ d.pc = "tell"
        /\ Become(x, Told(d, IF Flagged(d.result) THEN "error" ELSE "success"))
        /\ recorded' = [recorded EXCEPT ![x] = @ + 1]
        /\ IF d.route = "stateful" THEN Keeps(d.ask.session) ELSE UNCHANGED store
        /\ UNCHANGED <<svars, session, tally, span>>
        /\ Watched

-----------------------------------------------------------------------------
(* The process goes down with its sessions, its metrics, its memory and    *)
(* the requests under way.                                                 *)
KilledButTools ==                                        \* mutant of Killed
    /\ Exit
    /\ call' = [x \in Call |-> IF call[x].pc \in {"token", "route", "hand"} THEN Gone ELSE call[x]]
    /\ UNCHANGED <<session, store, tally, recorded, span>>
    /\ Watched
Killed ==
    /\ Exit
    /\ call' = [x \in Call |->
           IF UnderWay(x) THEN Gone ELSE [Idle EXCEPT !.pc = call[x].pc, !.result = call[x].result]]
    /\ session' = [n \in Session |-> IF session[n] = "live" THEN "gone" ELSE session[n]]
    /\ store' = [store EXCEPT !["memory"] = {}]
    /\ tally' = Zeros
    /\ span' = [x \in Call |-> NoSpan]
    /\ UNCHANGED recorded
    /\ Watched

Init ==
    /\ StartupInit
    /\ call = [x \in Call |-> Idle]
    /\ session = [n \in Session |-> "unborn"]
    /\ store = [s \in {"memory", "sqlite"} |-> {}]
    /\ tally = Zeros
    /\ recorded = [x \in Call |-> 0]
    /\ entitled = {}
    /\ life = [x \in Call |-> {}]
    /\ span = [x \in Call |-> NoSpan]

Boot == (Start \/ Boots \/ WriteFile) /\ UNCHANGED rvars
TimePasses == Tick /\ UNCHANGED <<call, session, store, tally, recorded, span>> /\ Watched

GoesOn(x) == ToolEnds(x) \/ SnapshotEnds(x) \/ Count(x) \/ Observe(x) \/ Tell(x)
Tool(x) == RequestTimesOut(x) \/ GoesOn(x)

Next ==
    \/ Boot \/ TimePasses \/ Killed \/ SessionEnds
    \/ \E x \in Call : \/ Receive(x) \/ Authenticated(x) \/ Dropped(x)
                       \/ Routed(x) \/ Handed(x) \/ Tool(x)

(* The start goes on, and so does a call of a tool.  That the tool itself  *)
(* comes to its end is what ToolCalls and ClientChanges show of it: its    *)
(* requests have a timeout, and its loops a last step.                     *)
(* Nothing here bounds the wait for a request's body, nor that for the     *)
(* authenticator: KC_ADMIN_MCP_INTROSPECTION_TIMEOUT_MS is read (config.rs *)
(* 495) and used nowhere.                                                  *)
Fairness ==
    /\ WF_vars(Boots /\ UNCHANGED rvars)
    /\ \A x \in Call : WF_vars(GoesOn(x))

Spec == Init /\ [][Next]_vars /\ Fairness

-----------------------------------------------------------------------------
Replies == {"none", "bad_request", "unauthorized", "forbidden", "unsupported", "bad_gateway",
            "not_found", "not_allowed", "replayed", "opened", "stream", "closed", "gone",
            "success", "error", "full"}

ACall ==
    [pc : {"idle", "token", "route", "hand", "run", "snap", "count", "dropped"} \cup Counted,
     ask : Ask \cup {NoAsk}, born : Nat,
     route : {"none", "stateful", "stateless", "bad_request", "not_found", "not_allowed"},
     failed : BOOLEAN, late : BOOLEAN, result : {"none", "ok", "error"},
     told : Replies, calls : Nat, durations : Nat]

(* Types; requests are under way only while their process serves. *)
TypeOK ==
    /\ StartupTypeOK
    /\ call \in [Call -> ACall]
    /\ session \in [Session -> {"unborn", "live", "gone"}]
    /\ store \in [{"memory", "sqlite"} -> SUBSET Session]
    /\ tally \in [DOMAIN Zeros -> Nat]
    /\ recorded \in [Call -> Nat]
    /\ entitled \subseteq Call
    /\ life \in [Call -> SUBSET {"unborn", "live", "gone"}]
    /\ span \in [Call -> [from : Nat, to : Nat]]
    /\ \A x \in Call :
           UnderWay(x) => Serving /\ call[x].born = starts /\ call[x].ask \in Ask

(* Whatever gets behind the authentication was entitled to it at some      *)
(* moment of its wait for the token's answer, in the process that serves   *)
(* it: neither a token that expired nor a break-glass deadline that passed *)
(* meanwhile lets it through, whoever's session it names (auth.rs 189-293).*)
EntitledWhenServed ==
    \A x \in Call : call[x].route # "none" \/ call[x].pc = "route" => x \in entitled

(* A request is run in its session only if the session lived while it was  *)
(* routed, and without it - refused, replayed, or by the stateless service *)
(* - only if it did not, at some moment, or its lookup failed; one that is *)
(* told its session is gone lost it meanwhile (main.rs 618-718).           *)
RoutedByItsSession ==
    \A x \in Call :
        LET d == call[x]
        IN  d.route # "none" /\ d.ask.session # NoSession =>
                /\ d.route = "stateful" => "live" \in life[x]
                /\ d.route \in {"stateless", "not_found"} =>
                       d.failed \/ life[x] \cap {"gone", "unborn"} # {}
                /\ d.told = "gone" => {"live", "gone"} \subseteq life[x]

Mine(x) == call[x].born = starts /\ call[x].pc # "dropped"

(* The metrics of a process account for each request it took exactly once: *)
(* a rejection when it was told, a tool call by what its caller is told    *)
(* (so an unflagged error as success), a call with requests that timed out *)
(* at least once and whatever it told, and each answered call has exactly  *)
(* one audit entry, also behind a restart (server.rs 206-250, metrics.rs   *)
(* 168-173, gateway.rs 137-145, main.rs 902).                              *)
TalliesAgree ==
    /\ boot.pc = "serving" =>
           LET mine == {x \in Call : Mine(x)}
               Size(S) == Cardinality(S \cap mine)
           IN  /\ tally.success + tally.error =
                      Size({x \in Call : call[x].result # "none" /\ call[x].pc \in Counted})
               /\ tally.observed =
                      Size({x \in Call : call[x].result # "none" /\ call[x].pc \in Observed})
               /\ Size({x \in Call : call[x].told = "success"}) <= tally.success
               /\ Size({x \in Call : call[x].told = "error"}) <= tally.error
               /\ Size({x \in Call : call[x].late}) <= tally.timeouts
               /\ tally.timeouts > 0 => \E x \in mine : call[x].late
               /\ tally.rejects = Size({x \in Call : call[x].told \in
                      {"unauthorized", "forbidden", "unsupported", "bad_gateway"}})
    /\ \A x \in Call :
           /\ recorded[x] <= 1
           /\ call[x].pc = "done" => recorded[x] = IF call[x].result = "none" THEN 0 ELSE 1

(* A snapshot counts every call answered before it was asked for, and none *)
(* that was not over when it was taken, in its counters and in its         *)
(* histogram, though neither is locked while the other is read.            *)
SnapshotAccountsForCalls ==
    \A x \in Call :
        LET d == call[x]
        IN  d.ask # NoAsk /\ d.result # "none" =>
                (d.ask.body = "snapshot" =>
                    /\ span[x].from <= d.calls /\ d.calls <= span[x].to
                    /\ span[x].from <= d.durations /\ d.durations <= span[x].to)

(* A process that starts comes to serve or gives up, and every call of a   *)
(* tool ends, counted and recorded, if the process lasts.                  *)
EveryRequestEnds ==
    /\ boot.pc = "gate" ~> boot.pc \in {"serving", "refused", "down"}
    /\ \A x \in Call : call[x].pc = "run" ~> Over(x)
=============================================================================
