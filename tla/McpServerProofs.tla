--------------------------- MODULE McpServerProofs ---------------------------
(***************************************************************************)
(* Proofs about McpServer, for every set of requests, sessions, settings,  *)
(* builds and artifacts: its types, that startup's theorem holds of it,    *)
(* that only entitled callers get behind the authentication, that requests *)
(* are routed by what their session was, and that the metrics and their    *)
(* snapshots account for every request exactly once.                       *)
(***************************************************************************)
EXTENDS McpServer, StartupProofs, FiniteSetTheorems

Pending == {"token", "route", "hand"}
Running == {"run", "snap", "count", "observe", "tell"}

(* What is known of one request. *)
Admitted(x) ==
    LET d == call[x]
    IN  /\ d.pc = "token" => /\ d.ask.tidy /\ ~boot.set.dpop /\ (boot.set.cert => d.ask.cert)
                             /\ d.route = "none"
        /\ d.pc = "token" /\ Entitled(d.ask, boot, now) => x \in entitled
        /\ d.route # "none" \/ d.pc = "route" => x \in entitled /\ d.ask \in Ask

RoutedRight(x) ==
    LET d == call[x]
    IN  d.route # "none" /\ d.ask.session # NoSession =>
            /\ d.route = "stateful" => "live" \in life[x]
            /\ d.route \in {"stateless", "not_found"} =>
                   d.failed \/ life[x] \cap {"gone", "unborn"} # {}
            /\ d.told = "gone" => {"live", "gone"} \subseteq life[x]

InLife(x) ==
    LET d == call[x]
    IN  /\ d.pc \in Pending =>
               /\ d.ask \in Ask /\ d.told = "none"
               /\ StateOf(d.ask, session) \in life[x]
               /\ "live" \in life[x] /\ d.ask.session # NoSession =>
                      session[d.ask.session] # "unborn"
        /\ d.pc = "idle" => d.ask = NoAsk
        /\ d.ask = NoAsk => life[x] = {}
        /\ d.pc = "route" => d.route = "none"
        /\ d.pc = "hand" => d.route \in {"stateful", "stateless"}
        /\ d.pc \in Running =>
               /\ d.told = "none" /\ d.route # "none"
               /\ (d.route = "stateful" => d.ask.session # NoSession)
        /\ RoutedRight(x)

ServerInv == TypeOK /\ StartupInv /\ \A x \in Call : Admitted(x) /\ InLife(x)

-----------------------------------------------------------------------------
(* Every step of the server is one of its process, or leaves that alone.   *)
LEMMA StepsOfTheProcess ==
    ASSUME [Next]_vars
    PROVE  [StartupNext]_svars
<1>1. ASSUME NEW x \in Call,
             \/ Receive(x) \/ Authenticated(x) \/ Dropped(x) \/ Routed(x) \/ Handed(x) \/ Tool(x)
      PROVE  [StartupNext]_svars
    BY <1>1 DEF Receive, Authenticated, Dropped, Routed, Handed, Tool, RequestTimesOut,
       GoesOn, ToolEnds, SnapshotEnds,
                Count, Observe, Tell, StartupNext
<1>2. ASSUME Boot \/ TimePasses \/ Killed \/ SessionEnds
      PROVE  [StartupNext]_svars
    BY <1>2 DEF Boot, TimePasses, Killed, SessionEnds, StartupNext
<1>3. ASSUME UNCHANGED vars
      PROVE  UNCHANGED svars
    BY <1>3 DEF vars, svars
<1> QED BY <1>1, <1>2, <1>3 DEF Next

LEMMA StartupHolds == Spec => StartupSpec
<1>1. Init => StartupInit
    BY DEF Init
<1>2. [Next]_vars => [StartupNext]_svars
    BY StepsOfTheProcess
<1> QED BY <1>1, <1>2, PTL DEF Spec, StartupSpec

(* The server's process serves only on evidence, whatever its requests do  *)
(* (admission.rs 84-315).                                                  *)
THEOREM ServesOnEvidence == Spec => []AdmittedOnEvidence
<1>1. StartupTypeOK /\ AdmittedOnEvidence => AdmittedOnEvidence
    OBVIOUS
<1> QED BY <1>1, StartupHolds, StartupRestsOnEvidence, PTL

-----------------------------------------------------------------------------
(* Types. *)

LEMMA CountsAreNumbers ==
    ASSUME NEW S \in SUBSET Call
    PROVE  Cardinality(S) \in Nat
<1>1. IsFiniteSet(S)
    BY CallAssumption, FS_Subset
<1> QED BY <1>1, FS_CardinalityType

LEMMA WatchedTyped ==
    ASSUME TypeOK, Watched, \A x \in Call : call'[x].ask = NoAsk \/ call'[x].ask \in Ask,
           session' \in [Session -> {"unborn", "live", "gone"}]
    PROVE  entitled' \subseteq Call /\ life' \in [Call -> SUBSET {"unborn", "live", "gone"}]
<1>1. entitled' \subseteq Call
    BY DEF Watched
<1>2. ASSUME NEW x \in Call, call'[x].ask # NoAsk
      PROVE  StateOf(call'[x].ask, session') \in {"unborn", "live", "gone"}
    BY <1>2, AskAssumption DEF AnAsk, StateOf
<1>3. /\ life' = [x \in Call |-> life'[x]]
      /\ \A x \in Call : life'[x] \in SUBSET {"unborn", "live", "gone"}
    <2>1. ASSUME NEW x \in Call
          PROVE  life[x] \in SUBSET {"unborn", "live", "gone"}
        BY DEF TypeOK
    <2> QED BY <2>1, <1>2 DEF Watched
<1> QED BY <1>1, <1>3

(* A step of one request keeps its types if the request's own are kept.    *)
LEMMA CallTyped ==
    ASSUME TypeOK, NEW x \in Call, NEW d \in ACall, Become(x, d), UNCHANGED <<boot, starts>>,
           d.pc \notin {"idle", "done", "dropped"} => Serving /\ d.born = starts /\ d.ask \in Ask
    PROVE  /\ call' \in [Call -> ACall] /\ call'[x] = d
           /\ \A y \in Call : y # x => call'[y] = call[y]
           /\ \A y \in Call : call'[y].ask = NoAsk \/ call'[y].ask \in Ask
           /\ (\A y \in Call :
                 UnderWay(y) => Serving /\ call[y].born = starts /\ call[y].ask \in Ask)'
<1>1. /\ call' \in [Call -> ACall] /\ call'[x] = d
      /\ \A y \in Call : y # x => call'[y] = call[y]
    BY DEF TypeOK, Become
<1>2. \A y \in Call : call'[y].ask = NoAsk \/ call'[y].ask \in Ask
    BY <1>1 DEF ACall
<1>3. ASSUME NEW y \in Call
      PROVE  (UnderWay(y) => Serving /\ call[y].born = starts /\ call[y].ask \in Ask)'
    BY <1>1 DEF TypeOK, UnderWay, Over, Serving
<1> QED BY <1>1, <1>2, <1>3

Stores == [{"memory", "sqlite"} -> SUBSET Session]
Sessions == [Session -> {"unborn", "live", "gone"}]
Tallies == [DOMAIN Zeros -> Nat]
Spans == [Call -> [from : Nat, to : Nat]]

(* A step of one request keeps the types.                                  *)
LEMMA RequestTyped ==
    ASSUME TypeOK, StartupTypeOK', NEW x \in Call, NEW d \in ACall, Become(x, d),
           UNCHANGED <<boot, starts>>, Watched,
           d.pc \notin {"idle", "done", "dropped"} => Serving /\ d.born = starts /\ d.ask \in Ask,
           session' \in Sessions, store' \in Stores, tally' \in Tallies,
           recorded' \in [Call -> Nat], span' \in Spans
    PROVE  TypeOK'
<1>1. /\ call' \in [Call -> ACall]
      /\ \A y \in Call : call'[y].ask = NoAsk \/ call'[y].ask \in Ask
      /\ (\A y \in Call :
            UnderWay(y) => Serving /\ call[y].born = starts /\ call[y].ask \in Ask)'
    BY CallTyped
<1>2. entitled' \subseteq Call /\ life' \in [Call -> SUBSET {"unborn", "live", "gone"}]
    BY <1>1, WatchedTyped DEF Sessions
<1> QED BY <1>1, <1>2 DEF TypeOK, Sessions, Stores, Tallies, Spans

LEMMA ToldTyped ==
    ASSUME NEW d \in ACall, NEW r \in Replies
    PROVE  /\ Told(d, r) \in ACall /\ Told(d, r).pc = "done" /\ Told(d, r).told = r
           /\ Told(d, r).ask = d.ask /\ Told(d, r).route = d.route
           /\ Told(d, r).failed = d.failed
    BY DEF ACall, Told, Counted

LEMMA TallyTyped ==
    ASSUME NEW t \in Tallies
    PROVE  /\ [t EXCEPT !.rejects = @ + 1] \in Tallies
           /\ [t EXCEPT !.timeouts = @ + 1] \in Tallies
           /\ [t EXCEPT !.error = @ + 1] \in Tallies
           /\ [t EXCEPT !.success = @ + 1] \in Tallies
           /\ [t EXCEPT !.observed = @ + 1] \in Tallies
           /\ t.success \in Nat /\ t.error \in Nat /\ t.observed \in Nat
    BY DEF Tallies, Zeros

LEMMA KeepsTyped ==
    ASSUME TypeOK, NEW n \in Session, Keeps(n)
    PROVE  store' \in Stores
    BY DEF TypeOK, Keeps, Stores

LEMMA ReceiveTyped ==
    ASSUME TypeOK, StartupTypeOK', NEW x \in Call, Receive(x)
    PROVE  TypeOK'
<1>1. PICK a \in Ask :
          LET d == [Idle EXCEPT !.ask = a, !.born = starts]
          IN  CASE ~a.tidy -> Become(x, Told(d, "bad_request")) /\ UNCHANGED tally
                [] a.tidy /\ boot.set.dpop -> Rejected(x, d, "unsupported")
                [] a.tidy /\ ~boot.set.dpop /\ boot.set.cert /\ ~a.cert ->
                       Rejected(x, d, "forbidden")
                [] OTHER -> Become(x, [d EXCEPT !.pc = "token"]) /\ UNCHANGED tally
    BY DEF Receive
<1> DEFINE d == [Idle EXCEPT !.ask = a, !.born = starts]
           e == [d EXCEPT !.pc = "token"]
<1>2. Idle \in ACall
    BY DEF Idle, ACall, Replies
<1>3. d \in ACall /\ d.born = starts /\ d.ask = a
    BY <1>2 DEF TypeOK, StartupTypeOK, ACall
<1>4. e \in ACall /\ e.born = starts /\ e.ask \in Ask
    BY <1>3 DEF ACall, Counted
<1>5. \A r \in Replies : Told(d, r) \in ACall /\ Told(d, r).pc = "done"
    BY <1>3, ToldTyped
<1>6. tally \in Tallies
    BY DEF TypeOK, Tallies
<1>7. \E r \in ACall : /\ Become(x, r) /\ (r.pc \notin {"idle", "done", "dropped"} => r = e)
                       /\ tally' \in Tallies
    <2>1. CASE ~a.tidy
        BY <2>1, <1>1, <1>5, <1>6 DEF Replies
    <2>2. CASE a.tidy /\ boot.set.dpop
        BY <2>2, <1>1, <1>5, <1>6, TallyTyped DEF Rejected, Replies
    <2>3. CASE a.tidy /\ ~boot.set.dpop /\ boot.set.cert /\ ~a.cert
        BY <2>3, <1>1, <1>5, <1>6, TallyTyped DEF Rejected, Replies
    <2>4. CASE a.tidy /\ ~boot.set.dpop /\ ~(boot.set.cert /\ ~a.cert)
        BY <2>4, <1>1, <1>4, <1>6
    <2> QED BY <2>1, <2>2, <2>3, <2>4
<1>8. /\ Serving /\ UNCHANGED <<boot, starts>> /\ Watched
      /\ session' \in Sessions /\ store' \in Stores /\ span' \in Spans
      /\ recorded' \in [Call -> Nat]
    BY DEF Receive, Request, TypeOK, Sessions, Stores, Spans
<1>9. PICK r \in ACall : /\ Become(x, r) /\ (r.pc \notin {"idle", "done", "dropped"} => r = e)
                        /\ tally' \in Tallies
    BY <1>7
<1>10. r.pc \notin {"idle", "done", "dropped"} => Serving /\ r.born = starts /\ r.ask \in Ask
    BY <1>4, <1>8, <1>9
<1> HIDE DEF d, e
<1> QED
    BY <1>8, <1>9, <1>10, RequestTyped

LEMMA VerdictTyped ==
    ASSUME NEW a, NEW d, NEW t, NEW answer \in {"unreachable", "active", "inactive"}
    PROVE  Verdict(a, d, t, answer) \in
               {"ok", "bad_gateway", "unauthorized", "forbidden"}
    BY DEF Verdict

LEMMA AuthenticatedTyped ==
    ASSUME TypeOK, StartupTypeOK', NEW x \in Call, Authenticated(x)
    PROVE  TypeOK'
<1> DEFINE d == call[x]
           e == [d EXCEPT !.pc = "route"]
<1>1. /\ d \in ACall /\ d.pc = "token" /\ Serving /\ d.born = starts /\ d.ask \in Ask
      /\ UNCHANGED <<boot, starts>> /\ Watched
      /\ session' \in Sessions /\ store' \in Stores /\ span' \in Spans
      /\ recorded' \in [Call -> Nat] /\ tally \in Tallies
    BY DEF Authenticated, TypeOK, UnderWay, Over, Sessions, Stores, Spans, Tallies, svars
<1>2. e \in ACall /\ e.born = starts /\ e.ask \in Ask
    BY <1>1 DEF ACall, Counted
<1>3. PICK v \in {"ok", "bad_gateway", "unauthorized", "forbidden"} :
          IF v = "ok" THEN Become(x, e) /\ UNCHANGED tally ELSE Rejected(x, d, v)
    BY VerdictTyped DEF Authenticated, Answers
<1>4. v # "ok" => v \in Replies
    BY DEF Replies
<1>5. v # "ok" => Told(d, v) \in ACall /\ Told(d, v).pc = "done"
    BY <1>1, <1>4, ToldTyped
<1>6. PICK r \in ACall : /\ Become(x, r) /\ (r.pc \notin {"idle", "done", "dropped"} => r = e)
                        /\ tally' \in Tallies
    <2>1. CASE v = "ok"
        BY <2>1, <1>1, <1>2, <1>3
    <2>2. CASE v # "ok"
        BY <2>2, <1>1, <1>3, <1>5, TallyTyped DEF Rejected
    <2> QED BY <2>1, <2>2
<1>7. r.pc \notin {"idle", "done", "dropped"} => Serving /\ r.born = starts /\ r.ask \in Ask
    BY <1>1, <1>2, <1>6
<1> HIDE DEF d, e
<1> QED
    BY <1>1, <1>6, <1>7, RequestTyped

LEMMA DroppedTyped ==
    ASSUME TypeOK, StartupTypeOK', NEW x \in Call, Dropped(x)
    PROVE  TypeOK'
<1>1. Gone \in ACall /\ Gone.pc = "dropped"
    BY DEF Gone, Idle, ACall, Replies
<1> QED
    BY <1>1, RequestTyped DEF Dropped, TypeOK, Sessions, Stores, Spans, Tallies, svars

LEMMA RouteTyped ==
    ASSUME NEW a, NEW s, NEW found
    PROVE  Route(a, s, found) \in
               {"stateful", "stateless", "bad_request", "not_found", "not_allowed"}
    BY DEF Route

LEMMA RoutedTyped ==
    ASSUME TypeOK, StartupTypeOK', NEW x \in Call, Routed(x)
    PROVE  TypeOK'
<1> DEFINE d == call[x]
           Found(failed) == ~failed /\ StateOf(d.ask, session) = "live"
           R(failed) == Route(d.ask, boot.set, Found(failed))
<1>1. /\ d \in ACall /\ d.pc = "route" /\ Serving /\ d.born = starts /\ d.ask \in Ask
      /\ UNCHANGED <<boot, starts>> /\ Watched
      /\ session' \in Sessions /\ store' \in Stores /\ span' \in Spans
      /\ recorded' \in [Call -> Nat] /\ tally' \in Tallies
    BY DEF Routed, TypeOK, UnderWay, Over, Sessions, Stores, Spans, Tallies, svars
<1>2. PICK failed \in BOOLEAN :
          LET n == [d EXCEPT !.route = R(failed), !.failed = failed]
          IN  IF R(failed) \in {"stateful", "stateless"}
              THEN Become(x, [n EXCEPT !.pc = "hand"])
              ELSE \/ Become(x, Told(n, R(failed))) \/ Become(x, Told(n, "replayed"))
    BY DEF Routed
<1> DEFINE n == [d EXCEPT !.route = R(failed), !.failed = failed]
           e == [n EXCEPT !.pc = "hand"]
<1>3. n \in ACall /\ n.born = starts /\ n.ask \in Ask
    <2>1. R(failed) \in {"stateful", "stateless", "bad_request", "not_found", "not_allowed"}
        BY RouteTyped
    <2> HIDE DEF R
    <2> QED BY <1>1, <2>1 DEF ACall
<1>4. e \in ACall /\ e.born = starts /\ e.ask \in Ask
    BY <1>3 DEF ACall, Counted
<1>5. R(failed) \notin {"stateful", "stateless"} =>
          Told(n, R(failed)) \in ACall /\ Told(n, R(failed)).pc = "done"
    BY <1>3, RouteTyped, ToldTyped DEF Replies
<1>6. Told(n, "replayed") \in ACall /\ Told(n, "replayed").pc = "done"
    BY <1>3, ToldTyped DEF Replies
<1>7. PICK r \in ACall : Become(x, r) /\ (r.pc \notin {"idle", "done", "dropped"} => r = e)
    BY <1>2, <1>4, <1>5, <1>6
<1>8. r.pc \notin {"idle", "done", "dropped"} => Serving /\ r.born = starts /\ r.ask \in Ask
    BY <1>1, <1>4, <1>7
<1> HIDE DEF d, e
<1> QED
    BY <1>1, <1>7, <1>8, RequestTyped

(* What the toolkit's service makes of a request, its sessions and events. *)
LEMMA HandedTyped ==
    ASSUME TypeOK, StartupTypeOK', NEW x \in Call, Handed(x)
    PROVE  TypeOK'
<1> DEFINE d == call[x]
           e == [d EXCEPT !.pc = "run"]
<1>1. /\ d \in ACall /\ d.pc = "hand" /\ Serving /\ d.born = starts /\ d.ask \in Ask
      /\ UNCHANGED <<boot, starts>> /\ Watched
      /\ session \in Sessions /\ store \in Stores /\ span \in Spans
      /\ recorded' \in [Call -> Nat] /\ tally' \in Tallies
    BY DEF Handed, TypeOK, UnderWay, Over, Sessions, Stores, Spans, Tallies, svars
<1>2. e \in ACall /\ e.born = starts /\ e.ask \in Ask
    BY <1>1 DEF ACall, Counted
<1>3. \A r \in Replies : Told(d, r) \in ACall /\ Told(d, r).pc = "done"
    BY <1>1, ToldTyped
<1> DEFINE Fine == /\ \E r \in ACall :
                          Become(x, r) /\ (r.pc \notin {"idle", "done", "dropped"} => r = e)
                   /\ session' \in Sessions /\ store' \in Stores /\ span' \in Spans
<1>4. Takes(x) => Fine
    <2>1. Answered \in SUBSET Call
        BY DEF Answered
    <2>2. Cardinality(Answered) \in Nat
        BY <2>1, CountsAreNumbers
    <2>3. [span EXCEPT ![x].from = Cardinality(Answered)] \in Spans
        BY <1>1, <2>2 DEF Spans
    <2> QED BY <1>1, <1>2, <1>3, <2>3 DEF Takes, Replies
<1>5. Fine
    <2>1. ASSUME NEW n \in Session, session' = [session EXCEPT ![n] = "live"], Keeps(n),
                 Become(x, Told(d, "opened")), UNCHANGED span
          PROVE  Fine
        BY <2>1, <1>1, <1>3, KeepsTyped DEF Sessions, Replies
    <2>2. ASSUME NEW r \in Replies, Become(x, Told(d, r)), UNCHANGED <<session, store, span>>
          PROVE  Fine
        BY <2>2, <1>1, <1>3
    <2>3. ASSUME session' = [session EXCEPT ![d.ask.session] = "gone"],
                 Become(x, Told(d, "closed")), UNCHANGED <<store, span>>
          PROVE  Fine
        BY <2>3, <1>1, <1>3 DEF Sessions, Replies
    <2> HIDE DEF Fine, d
    <2>4. {"full", "stream", "gone"} \subseteq Replies
        BY DEF Replies
    <2>5. CASE d.route = "stateful" /\ d.ask.session = NoSession
        BY <2>5, <1>1, <2>1, <2>2, <2>4 DEF Handed, d
    <2>6. CASE d.route = "stateful" /\ d.ask.session # NoSession /\ StateOf(d.ask, session) = "live"
        <3>1. CASE d.ask.method = "POST"
            BY <2>6, <3>1, <1>4 DEF Handed, d
        <3>2. CASE d.ask.method = "GET"
            BY <2>6, <3>2, <2>2, <2>4 DEF Handed, d
        <3>3. CASE d.ask.method \notin {"POST", "GET"}
            BY <2>6, <3>3, <2>3 DEF Handed, d
        <3> QED BY <3>1, <3>2, <3>3
    <2>7. CASE d.route = "stateful" /\ d.ask.session # NoSession /\ StateOf(d.ask, session) # "live"
        BY <2>7, <2>2, <2>4 DEF Handed, d
    <2>8. CASE d.route = "stateless"
        BY <2>8, <1>4 DEF Handed, d
    <2> QED BY <2>5, <2>6, <2>7, <2>8 DEF Handed, d
<1>6. PICK r \in ACall : Become(x, r) /\ (r.pc \notin {"idle", "done", "dropped"} => r = e)
    BY <1>5
<1>7. r.pc \notin {"idle", "done", "dropped"} => Serving /\ r.born = starts /\ r.ask \in Ask
    BY <1>1, <1>2, <1>6
<1>8. session' \in Sessions /\ store' \in Stores /\ span' \in Spans
    BY <1>5
<1> HIDE DEF d, e
<1> QED
    BY <1>1, <1>6, <1>7, <1>8, RequestTyped

LEMMA ToolTyped ==
    ASSUME TypeOK, StartupTypeOK', NEW x \in Call, InLife(x), Tool(x)
    PROVE  TypeOK'
<1> DEFINE d == call[x]
<1>1. /\ d \in ACall /\ d.pc \in {"run", "snap", "count", "observe", "tell"}
      /\ Serving /\ d.born = starts /\ d.ask \in Ask
      /\ UNCHANGED <<boot, starts>> /\ Watched /\ tally \in Tallies /\ session' \in Sessions
      /\ span \in Spans /\ store \in Stores /\ recorded \in [Call -> Nat]
    BY DEF Tool, RequestTimesOut, GoesOn, ToolEnds, SnapshotEnds, Count, Observe, Tell,
       TypeOK, UnderWay, Over,
           Sessions, Stores, Spans, Tallies, svars
<1>2. tally.success + tally.error \in Nat /\ tally.observed \in Nat
    <2>1. tally.success \in Nat /\ tally.error \in Nat /\ tally.observed \in Nat
        BY <1>1 DEF Tallies, Zeros
    <2> QED BY <2>1
<1>3. CASE ToolEnds(x)
    <2>1. store' \in Stores /\ span' \in Spans /\ recorded' \in [Call -> Nat]
        BY <1>1, <1>3 DEF ToolEnds
    <2>2. CASE d.ask.body # "snapshot"
        <3>1. PICK result \in {"ok", "error"} :
                  Become(x, [d EXCEPT !.result = result, !.pc = "count"]) /\ tally' = tally
            BY <1>3, <2>2 DEF ToolEnds
        <3> DEFINE r == [d EXCEPT !.result = result, !.pc = "count"]
        <3>2. r \in ACall /\ r.born = starts /\ r.ask \in Ask
            BY <1>1 DEF ACall
        <3>3. tally' \in Tallies
            BY <1>1, <3>1, TallyTyped
        <3> HIDE DEF r
        <3> QED BY <1>1, <2>1, <3>1, <3>2, <3>3, RequestTyped DEF r
    <2>3. CASE d.ask.body = "snapshot"
        <3> DEFINE r == [d EXCEPT !.calls = tally.success + tally.error, !.pc = "snap"]
        <3>1. Become(x, r) /\ tally' \in Tallies
            BY <1>1, <1>3, <2>3 DEF ToolEnds
        <3>2. r \in ACall /\ r.born = starts /\ r.ask \in Ask
            BY <1>1, <1>2 DEF ACall
        <3> HIDE DEF r
        <3> QED BY <1>1, <2>1, <3>1, <3>2, RequestTyped
    <2> QED BY <2>2, <2>3
<1>4. CASE SnapshotEnds(x)
    <2> DEFINE r == [d EXCEPT !.durations = tally.observed, !.result = "ok", !.pc = "count"]
    <2>1. Cardinality(Ended) \in Nat
        BY CountsAreNumbers DEF Ended
    <2>2. span' \in Spans
        BY <1>1, <1>4, <2>1 DEF SnapshotEnds, Spans
    <2>3. r \in ACall /\ r.born = starts /\ r.ask \in Ask
        BY <1>1, <1>2 DEF ACall
    <2>4. Become(x, r) /\ UNCHANGED <<store, tally, recorded>>
        BY <1>4 DEF SnapshotEnds
    <2> HIDE DEF r
    <2> QED BY <1>1, <2>2, <2>3, <2>4, RequestTyped
<1>5. CASE Count(x)
    <2> DEFINE r == [d EXCEPT !.pc = "observe"]
    <2>1. r \in ACall /\ r.born = starts /\ r.ask \in Ask
        BY <1>1 DEF ACall, Counted
    <2>2. Become(x, r) /\ tally' \in Tallies /\ UNCHANGED <<store, recorded, span>>
        BY <1>1, <1>5, TallyTyped DEF Count
    <2> HIDE DEF r
    <2> QED BY <1>1, <2>1, <2>2, RequestTyped
<1>6. CASE Observe(x)
    <2> DEFINE r == [d EXCEPT !.pc = "tell"]
    <2>1. r \in ACall /\ r.born = starts /\ r.ask \in Ask
        BY <1>1 DEF ACall, Counted
    <2>2. Become(x, r) /\ tally' \in Tallies /\ UNCHANGED <<store, recorded, span>>
        BY <1>1, <1>6, TallyTyped DEF Observe
    <2> HIDE DEF r
    <2> QED BY <1>1, <2>1, <2>2, RequestTyped
<1>7. CASE Tell(x)
    <2> DEFINE reply == IF Flagged(d.result) THEN "error" ELSE "success"
    <2>1. Told(d, reply) \in ACall /\ Told(d, reply).pc = "done"
        BY <1>1, ToldTyped DEF Replies
    <2>2. recorded' \in [Call -> Nat]
        BY <1>1, <1>7 DEF Tell
    <2>3. d.route = "stateful" => d.ask.session \in Session
        BY <1>1, <1>7, AskAssumption DEF AnAsk, Tell, Running, InLife
    <2>4. store' \in Stores
        BY <1>1, <1>7, <2>3, KeepsTyped DEF Tell
    <2>5. Become(x, Told(d, reply)) /\ UNCHANGED <<tally, span>>
        BY <1>7 DEF Tell
    <2> HIDE DEF reply
    <2> QED BY <1>1, <2>1, <2>2, <2>4, <2>5, RequestTyped
<1>8. CASE RequestTimesOut(x)
    <2> DEFINE r == [d EXCEPT !.late = TRUE]
    <2>1. r \in ACall /\ r.born = starts /\ r.ask \in Ask
        BY <1>1 DEF ACall
    <2>2. Become(x, r) /\ tally' \in Tallies /\ UNCHANGED <<store, recorded, span>>
        BY <1>1, <1>8, TallyTyped DEF RequestTimesOut
    <2> HIDE DEF r
    <2> QED BY <1>1, <2>1, <2>2, RequestTyped
<1> QED
    BY <1>3, <1>4, <1>5, <1>6, <1>7, <1>8 DEF Tool, GoesOn

LEMMA ProcessTyped ==
    ASSUME TypeOK, StartupTypeOK', Boot \/ TimePasses \/ SessionEnds
    PROVE  TypeOK'
<1>1. \A y \in Call : call[y].ask = NoAsk \/ call[y].ask \in Ask
    BY DEF TypeOK, ACall
<1>2. CASE Boot
    <2>1. (\A x \in Call : ~UnderWay(x)) \/ (boot' = boot /\ starts' = starts)
        BY <1>2 DEF Boot, Start, Boots, ReadGate, ReadExe, ReadText, CannotRead, SetUp, WriteFile,
                    Reading, Serving, TypeOK
    <2>2. \A x \in Call :
              UnderWay(x)' => (Serving /\ call[x].born = starts /\ call[x].ask \in Ask)'
        BY <1>2, <2>1 DEF Boot, rvars, UnderWay, Over, TypeOK, Serving
    <2> QED BY <1>2, <2>2 DEF Boot, rvars, TypeOK
<1>3. CASE TimePasses
    <2>1. UNCHANGED <<call, session, store, tally, recorded, span, boot, starts>> /\ Watched
        BY <1>3 DEF TimePasses, Tick
    <2>2. entitled' \subseteq Call /\ life' \in [Call -> SUBSET {"unborn", "live", "gone"}]
        BY <1>1, <2>1, WatchedTyped DEF TypeOK
    <2> QED BY <2>1, <2>2 DEF TypeOK, UnderWay, Over, Serving
<1>4. CASE SessionEnds
    <2>1. UNCHANGED <<svars, call, tally, recorded, span>> /\ Watched
        BY <1>4 DEF SessionEnds
    <2>2. session' \in Sessions /\ store' \in Stores
        BY <1>4 DEF SessionEnds, TypeOK, Sessions, Stores
    <2>3. entitled' \subseteq Call /\ life' \in [Call -> SUBSET {"unborn", "live", "gone"}]
        BY <1>1, <2>1, <2>2, WatchedTyped DEF Sessions
    <2> QED BY <2>1, <2>2, <2>3 DEF TypeOK, UnderWay, Over, Serving, svars, Sessions, Stores
<1> QED BY <1>2, <1>3, <1>4

LEMMA KilledTyped ==
    ASSUME TypeOK, StartupTypeOK', Killed
    PROVE  TypeOK' /\ \A x \in Call : ~UnderWay(x)' /\ call'[x].route = "none"
<1>1. Idle \in ACall /\ Gone \in ACall
    BY DEF Idle, Gone, ACall, Replies
<1> DEFINE After(x) ==
        IF UnderWay(x) THEN Gone ELSE [Idle EXCEPT !.pc = call[x].pc, !.result = call[x].result]
<1>2. ASSUME NEW x \in Call
      PROVE  /\ After(x) \in ACall /\ After(x).route = "none" /\ After(x).ask = NoAsk
             /\ After(x).pc \in {"idle", "done", "dropped"}
    <2>1. call[x] \in ACall
        BY DEF TypeOK
    <2>2. CASE UnderWay(x)
        BY <2>2, <1>1 DEF Gone, Idle
    <2>3. CASE ~UnderWay(x)
        BY <2>1, <2>3, <1>1 DEF UnderWay, Over, ACall, Idle
    <2> QED BY <2>2, <2>3
<1>3. /\ call' = [x \in Call |-> After(x)] /\ Watched /\ UNCHANGED recorded
      /\ session' = [n \in Session |-> IF session[n] = "live" THEN "gone" ELSE session[n]]
      /\ store' = [store EXCEPT !["memory"] = {}]
      /\ tally' = Zeros
      /\ span' = [x \in Call |-> NoSpan]
    BY DEF Killed
<1> HIDE DEF After
<1>4. call' \in [Call -> ACall] /\ \A x \in Call : call'[x] = After(x)
    BY <1>2, <1>3
<1>5. session' \in Sessions /\ store' \in Stores /\ tally' \in Tallies /\ span' \in Spans
    BY <1>3 DEF TypeOK, Sessions, Stores, Tallies, Spans, Zeros, NoSpan
<1>6. entitled' \subseteq Call /\ life' \in [Call -> SUBSET {"unborn", "live", "gone"}]
    BY <1>2, <1>3, <1>4, <1>5, WatchedTyped DEF Sessions
<1>7. \A x \in Call : ~UnderWay(x)' /\ call'[x].route = "none"
    BY <1>2, <1>4 DEF UnderWay, Over
<1> QED BY <1>3, <1>4, <1>5, <1>6, <1>7 DEF TypeOK, Sessions, Stores, Tallies, Spans

LEMMA ServerTyped ==
    ASSUME TypeOK, StartupTypeOK', \A x \in Call : InLife(x), [Next]_vars
    PROVE  TypeOK'
<1>1. ASSUME NEW x \in Call,
             \/ Receive(x) \/ Authenticated(x) \/ Dropped(x) \/ Routed(x) \/ Handed(x) \/ Tool(x)
      PROVE  TypeOK'
    BY <1>1, ReceiveTyped, AuthenticatedTyped, DroppedTyped, RoutedTyped, HandedTyped, ToolTyped
<1>2. CASE UNCHANGED vars
    BY <1>2 DEF vars, rvars, svars, TypeOK, UnderWay, Over, Serving
<1> QED BY <1>1, <1>2, ProcessTyped, KilledTyped DEF Next

-----------------------------------------------------------------------------
(* What a step makes of the requests. *)

LEMMA AsksAreReal ==
    ASSUME NEW a \in Ask
    PROVE  a # NoAsk /\ (a.session # NoSession => a.session \in Session)
    BY AskAssumption DEF AnAsk, NoAsk

LEMMA Noting ==
    ASSUME NEW y \in Call, Watched, NEW a, call'[y].ask = a, a # NoAsk
    PROVE  /\ y \in entitled => y \in entitled'
           /\ call'[y].pc = "token" /\ Entitled(a, boot', now') => y \in entitled'
           /\ life[y] \subseteq life'[y]
           /\ call'[y].pc \in Pending => life'[y] = life[y] \cup {StateOf(a, session')}
    BY DEF Watched, Pending

(* A request that is left alone keeps what is known of it. *)
LEMMA Bystander ==
    ASSUME ServerInv, NEW y \in Call, call'[y] = call[y], boot' = boot, Watched,
           \A n \in Session : session[n] # "unborn" => session'[n] # "unborn"
    PROVE  Admitted(y)' /\ InLife(y)'
<1> DEFINE d == call[y]
<1>1. Admitted(y) /\ InLife(y)
    BY DEF ServerInv
<1>2. d.pc \in Pending \/ d.route # "none" => d.ask \in Ask /\ d.ask # NoAsk
    BY <1>1, AsksAreReal DEF Admitted, InLife
<1>3. d.ask # NoAsk =>
          /\ y \in entitled => y \in entitled'
          /\ d.pc = "token" /\ Entitled(d.ask, boot', now') => y \in entitled'
          /\ life[y] \subseteq life'[y]
          /\ d.pc \in Pending => life'[y] = life[y] \cup {StateOf(d.ask, session')}
    BY DEF Watched, Pending
<1>4. Admitted(y)'
    BY <1>1, <1>2, <1>3 DEF Admitted, Pending
<1>5. RoutedRight(y)'
    BY <1>1, <1>2, <1>3 DEF InLife, RoutedRight
<1>6. d.pc \in Pending =>
          /\ StateOf(d.ask, session') \in life'[y]
          /\ "live" \in life'[y] /\ d.ask.session # NoSession => session'[d.ask.session] # "unborn"
    BY <1>1, <1>2, <1>3, AsksAreReal DEF InLife, StateOf
<1>7. d.ask = NoAsk => life'[y] = {}
    BY DEF Watched
<1> QED BY <1>1, <1>4, <1>5, <1>6, <1>7 DEF InLife

(* A request that has no route and waits for none has nothing to keep.     *)
LEMMA NothingKept ==
    ASSUME NEW y \in Call, Watched, call'[y].route = "none", call'[y].pc \in {"idle", "done", "dropped"},
           call'[y].pc = "idle" => call'[y].ask = NoAsk
    PROVE  Admitted(y)' /\ InLife(y)'
<1>1. call'[y].ask = NoAsk => life'[y] = {}
    BY DEF Watched
<1> QED BY <1>1 DEF Admitted, InLife, RoutedRight, Pending, Running

(* One that goes on with its route behind it keeps what was so.            *)
LEMMA RouteBehind ==
    ASSUME ServerInv, NEW y \in Call, Watched,
           call'[y].ask = call[y].ask, call'[y].route = call[y].route,
           call'[y].failed = call[y].failed, call'[y].told # "gone",
           call[y].route # "none",
           call'[y].pc \notin Pending \cup {"idle"},
           call'[y].pc \in Running =>
               /\ call'[y].told = "none"
               /\ call'[y].route = "stateful" => call'[y].ask.session # NoSession
    PROVE  Admitted(y)' /\ InLife(y)'
<1>1. Admitted(y) /\ RoutedRight(y)
    BY DEF ServerInv, InLife
<1>2. call[y].ask \in Ask /\ call[y].ask # NoAsk /\ y \in entitled
    BY <1>1, AsksAreReal DEF Admitted
<1>3. y \in entitled' /\ life[y] \subseteq life'[y]
    BY <1>2 DEF Watched
<1> QED BY <1>1, <1>2, <1>3 DEF Admitted, InLife, RoutedRight, Pending

LEMMA Others ==
    ASSUME ServerInv, NEW x \in Call, NEW r, Become(x, r)
    PROVE  call'[x] = r /\ \A y \in Call : y # x => call'[y] = call[y]
    BY DEF ServerInv, TypeOK, Become

LEMMA ReceiveKeeps ==
    ASSUME ServerInv, NEW x \in Call, Receive(x)
    PROVE  Admitted(x)' /\ InLife(x)' /\ boot' = boot /\ Watched /\ session' = session
           /\ \A y \in Call : y # x => call'[y] = call[y]
<1>1. boot' = boot /\ Watched /\ session' = session
    BY DEF Receive, Request
<1>2. PICK a \in Ask :
          LET d == [Idle EXCEPT !.ask = a, !.born = starts]
          IN  CASE ~a.tidy -> Become(x, Told(d, "bad_request")) /\ UNCHANGED tally
                [] a.tidy /\ boot.set.dpop -> Rejected(x, d, "unsupported")
                [] a.tidy /\ ~boot.set.dpop /\ boot.set.cert /\ ~a.cert ->
                       Rejected(x, d, "forbidden")
                [] OTHER -> Become(x, [d EXCEPT !.pc = "token"]) /\ UNCHANGED tally
    BY DEF Receive
<1> DEFINE d == [Idle EXCEPT !.ask = a, !.born = starts]
           e == [d EXCEPT !.pc = "token"]
<1>3. /\ a \in Ask /\ a # NoAsk
      /\ e.pc = "token" /\ e.ask = a /\ e.route = "none" /\ e.told = "none"
      /\ \A reply : Told(d, reply).pc = "done" /\ Told(d, reply).route = "none"
    BY AsksAreReal DEF Idle, Told
<1>4. PICK r : /\ Become(x, r)
               /\ \/ r.pc = "done" /\ r.route = "none"
                  \/ r = e /\ a.tidy /\ ~boot.set.dpop /\ (boot.set.cert => a.cert)
    <2> HIDE DEF d, e
    <2>1. CASE ~a.tidy
        BY <2>1, <1>2, <1>3 DEF d
    <2>2. CASE a.tidy /\ boot.set.dpop
        BY <2>2, <1>2, <1>3 DEF Rejected, d
    <2>3. CASE a.tidy /\ ~boot.set.dpop /\ boot.set.cert /\ ~a.cert
        BY <2>3, <1>2, <1>3 DEF Rejected, d
    <2>4. CASE a.tidy /\ ~boot.set.dpop /\ ~(boot.set.cert /\ ~a.cert)
        <3>1. Become(x, e)
            BY <2>4, <1>2 DEF d, e
        <3>2. boot.set.cert => a.cert
            BY <2>4
        <3> QED BY <2>4, <3>1, <3>2
    <2> QED BY <2>1, <2>2, <2>3, <2>4
<1>5. call'[x] = r /\ \A y \in Call : y # x => call'[y] = call[y]
    BY <1>4, Others
<1> HIDE DEF d, e
<1>6. CASE r.pc = "done" /\ r.route = "none"
    BY <1>1, <1>5, <1>6, NothingKept DEF Pending
<1>7. CASE r = e /\ a.tidy /\ ~boot.set.dpop /\ (boot.set.cert => a.cert)
    <2>0. call'[x].ask = a /\ call'[x].pc = "token"
        BY <1>3, <1>5, <1>7
    <2>1. Entitled(a, boot', now') => x \in entitled'
        BY <1>1, <1>3, <2>0, Noting
    <2>2. life'[x] = life[x] \cup {StateOf(a, session')}
        BY <1>1, <1>3, <2>0, Noting DEF Pending
    <2>3. life[x] = {}
        BY DEF ServerInv, InLife, Receive
    <2> QED BY <1>1, <1>3, <1>5, <1>7, <2>1, <2>2, <2>3, AsksAreReal
            DEF Admitted, InLife, RoutedRight, Pending, StateOf, Running
<1> QED BY <1>1, <1>4, <1>5, <1>6, <1>7

(* What the authentication lets through is entitled to it at that moment.  *)
LEMMA OkIsEntitled ==
    ASSUME ServerInv, NEW x \in Call, call[x].pc = "token",
           NEW answer \in Answers(call[x].ask), Verdict(call[x].ask, boot, now, answer) = "ok"
    PROVE  Entitled(call[x].ask, boot, now)
<1> DEFINE a == call[x].ask
<1>1. Admitted(x) /\ InLife(x) /\ TypeOK /\ StartupTypeOK
    BY DEF ServerInv, TypeOK
<1>2. a.tidy /\ ~boot.set.dpop /\ (boot.set.cert => a.cert) /\ a \in Ask
    BY <1>1 DEF Admitted, InLife, Pending
<1>3. answer = "active" /\ a.good
    BY DEF Answers, Verdict
<1>4. /\ ~TokenExpired(a, now) /\ ~BreakGlassExpired(boot.set, boot.start, now)
      /\ ~(boot.set.azp # {} /\ a.azp \notin boot.set.azp)
      /\ ~(boot.set.clients # {} /\ a.client \notin boot.set.clients)
    BY <1>3 DEF Verdict
<1>5. a.exp + Skew \in Int /\ now \in Nat /\ a.dated \in BOOLEAN
    BY <1>1, <1>2, AskAssumption, SkewAssumption DEF AnAsk, StartupTypeOK
<1>6. a.dated => now <= a.exp + Skew
    BY <1>4, <1>5 DEF TokenExpired
<1>7. Serving
    BY <1>1 DEF TypeOK, UnderWay, Over
<1>8. Deadline(boot.set, boot.start) \in Nat
    BY <1>1, <1>7, SettingsAssumption
       DEF StartupTypeOK, ABoot, Serving, ASetting, Deadline
<1>9. AnyCaller(boot.set) /\ HasDeadline(boot.set) => now < Deadline(boot.set, boot.start)
    BY <1>4, <1>5, <1>8 DEF BreakGlassExpired
<1> HIDE DEF a
<1> QED BY <1>2, <1>3, <1>4, <1>6, <1>9 DEF Entitled, a

LEMMA AuthenticatedKeeps ==
    ASSUME ServerInv, NEW x \in Call, Authenticated(x)
    PROVE  Admitted(x)' /\ InLife(x)' /\ boot' = boot /\ Watched /\ session' = session
           /\ \A y \in Call : y # x => call'[y] = call[y]
<1> DEFINE d == call[x]
           e == [d EXCEPT !.pc = "route"]
<1>1. boot' = boot /\ Watched /\ session' = session /\ d.pc = "token"
    BY DEF Authenticated, svars
<1>2. PICK answer \in Answers(d.ask) :
          LET v == Verdict(d.ask, boot, now, answer)
          IN  IF v = "ok" THEN Become(x, e) /\ UNCHANGED tally ELSE Rejected(x, d, v)
    BY DEF Authenticated
<1>3. /\ Admitted(x) /\ InLife(x) /\ d \in ACall /\ d.route = "none" /\ d.told = "none"
      /\ d.ask \in Ask /\ d.ask # NoAsk /\ StateOf(d.ask, session) \in life[x]
      /\ "live" \in life[x] /\ d.ask.session # NoSession => session[d.ask.session] # "unborn"
    BY <1>1, AsksAreReal DEF ServerInv, TypeOK, Admitted, InLife, Pending
<1>4. /\ e.pc = "route" /\ e.ask = d.ask /\ e.route = "none" /\ e.told = "none"
    BY <1>3 DEF ACall
<1>5. CASE Verdict(d.ask, boot, now, answer) = "ok"
    <2>1. call'[x] = e /\ \A y \in Call : y # x => call'[y] = call[y]
        BY <1>2, <1>5, Others
    <2>2. x \in entitled
        BY <1>1, <1>3, <1>5, OkIsEntitled DEF Admitted
    <2>3. call'[x].ask = d.ask /\ call'[x].pc = "route" /\ call'[x].route = "none"
          /\ call'[x].told = "none"
        BY <2>1, <1>4
    <2>4. x \in entitled' /\ life'[x] = life[x] \cup {StateOf(d.ask, session')}
        BY <1>1, <1>3, <2>2, <2>3, Noting DEF Pending
    <2> HIDE DEF d, e
    <2> QED BY <1>1, <1>3, <2>1, <2>3, <2>4, AsksAreReal
            DEF Admitted, InLife, RoutedRight, Pending, StateOf, Running
<1>6. CASE Verdict(d.ask, boot, now, answer) # "ok"
    <2>1. PICK v : Become(x, Told(d, v))
        BY <1>2, <1>6 DEF Rejected
    <2>2. call'[x] = Told(d, v) /\ \A y \in Call : y # x => call'[y] = call[y]
        BY <2>1, Others
    <2>3. call'[x].pc = "done" /\ call'[x].route = "none"
        BY <2>2, <1>3 DEF Told, ACall
    <2> QED BY <1>1, <2>2, <2>3, NothingKept DEF Pending
<1> QED BY <1>5, <1>6

LEMMA DroppedKeeps ==
    ASSUME ServerInv, NEW x \in Call, Dropped(x)
    PROVE  Admitted(x)' /\ InLife(x)' /\ boot' = boot /\ Watched /\ session' = session
           /\ \A y \in Call : y # x => call'[y] = call[y]
<1>1. boot' = boot /\ Watched /\ session' = session /\ Become(x, Gone)
    BY DEF Dropped, svars
<1>2. call'[x] = Gone /\ \A y \in Call : y # x => call'[y] = call[y]
    BY <1>1, Others
<1> QED BY <1>1, <1>2, NothingKept DEF Gone, Idle, Pending

(* What Route answers of a request that names a session.                   *)
LEMMA RouteFollowsSession ==
    ASSUME NEW a \in Ask, NEW s, NEW found \in BOOLEAN, a.session # NoSession
    PROVE  /\ Route(a, s, found) = "stateful" => found
           /\ Route(a, s, found) \in {"stateless", "not_found"} => ~found
    BY DEF Route

LEMMA RoutedKeeps ==
    ASSUME ServerInv, NEW x \in Call, Routed(x)
    PROVE  Admitted(x)' /\ InLife(x)' /\ boot' = boot /\ Watched /\ session' = session
           /\ \A y \in Call : y # x => call'[y] = call[y]
<1> DEFINE d == call[x]
           Found(failed) == ~failed /\ StateOf(d.ask, session) = "live"
           R(failed) == Route(d.ask, boot.set, Found(failed))
<1>1. boot' = boot /\ Watched /\ session' = session /\ d.pc = "route"
    BY DEF Routed, svars
<1>2. PICK failed \in BOOLEAN :
          LET n == [d EXCEPT !.route = R(failed), !.failed = failed]
          IN  IF R(failed) \in {"stateful", "stateless"}
              THEN Become(x, [n EXCEPT !.pc = "hand"])
              ELSE \/ Become(x, Told(n, R(failed)))
                   \/ Replays(d.ask, R(failed)) /\ Become(x, Told(n, "replayed"))
    BY DEF Routed
<1> DEFINE route == R(failed)
           n == [d EXCEPT !.route = R(failed), !.failed = failed]
           e == [n EXCEPT !.pc = "hand"]
<1>3. /\ Admitted(x) /\ InLife(x) /\ d \in ACall /\ d.told = "none" /\ x \in entitled
      /\ d.ask \in Ask /\ d.ask # NoAsk /\ StateOf(d.ask, session) \in life[x]
      /\ "live" \in life[x] /\ d.ask.session # NoSession => session[d.ask.session] # "unborn"
    BY <1>1, AsksAreReal DEF ServerInv, TypeOK, Admitted, InLife, Pending
<1>4. route \in {"stateful", "stateless", "bad_request", "not_found", "not_allowed"}
    BY RouteTyped
<1>5. /\ n.ask = d.ask /\ n.route = route /\ n.failed = failed /\ n.told = "none"
      /\ e.pc = "hand" /\ e.ask = d.ask /\ e.route = route /\ e.failed = failed
      /\ e.told = "none"
    BY <1>3 DEF ACall
<1>6. d.ask.session # NoSession =>
          /\ route = "stateful" => "live" \in life[x]
          /\ route \in {"stateless", "not_found"} => failed \/ life[x] \cap {"gone", "unborn"} # {}
    <2> HIDE DEF R
    <2>1. StateOf(d.ask, session) \in {"unborn", "live", "gone"}
        BY <1>3, AsksAreReal DEF ServerInv, TypeOK, StateOf
    <2>2. d.ask.session # NoSession =>
              /\ route = "stateful" => Found(failed)
              /\ route \in {"stateless", "not_found"} => ~Found(failed)
        BY <1>3, RouteFollowsSession DEF R
    <2> QED BY <1>3, <2>1, <2>2
<1> HIDE DEF R, route, n
<1>7. CASE route \in {"stateful", "stateless"}
    <2>1. Become(x, e)
        BY <1>2, <1>7 DEF route, n
    <2>2. call'[x] = e /\ \A y \in Call : y # x => call'[y] = call[y]
        BY <2>1, Others
    <2>3. /\ call'[x].pc = "hand" /\ call'[x].ask = d.ask /\ call'[x].route = route
          /\ call'[x].failed = failed /\ call'[x].told = "none"
        BY <2>2, <1>5
    <2>4. x \in entitled' /\ life'[x] = life[x] \cup {StateOf(d.ask, session')}
        BY <1>1, <1>3, <2>3, Noting DEF Pending
    <2> HIDE DEF d, e
    <2> QED BY <1>1, <1>3, <1>6, <1>7, <2>2, <2>3, <2>4, AsksAreReal
            DEF Admitted, InLife, RoutedRight, Pending, StateOf, Running
<1>8. CASE route \notin {"stateful", "stateless"}
    <2>1. PICK reply \in {route, "replayed"} : Become(x, Told(n, reply))
        BY <1>2, <1>8 DEF route, n
    <2>2. call'[x] = Told(n, reply) /\ \A y \in Call : y # x => call'[y] = call[y]
        BY <2>1, Others
    <2>3. n \in ACall
        BY <1>3, <1>4 DEF n, route, ACall
    <2>4. /\ call'[x].pc = "done" /\ call'[x].ask = d.ask /\ call'[x].route = route
          /\ call'[x].failed = failed /\ call'[x].told # "gone"
        BY <2>2, <2>3, <1>4, <1>5 DEF Told, ACall
    <2>5. x \in entitled' /\ life[x] \subseteq life'[x]
        BY <1>1, <1>3, <2>4, Noting
    <2> HIDE DEF d
    <2> QED BY <1>1, <1>3, <1>6, <1>8, <2>2, <2>4, <2>5
            DEF Admitted, InLife, RoutedRight, Pending, Running
<1> QED BY <1>7, <1>8

Unborning == \E n \in Session : session[n] # "unborn" /\ session'[n] = "unborn"

(* How Handed ends: with an answer, or with a tool in a session that is one.*)
LEMMA HandedEnds ==
    ASSUME ServerInv, NEW x \in Call, Handed(x)
    PROVE  /\ ~Unborning
           /\ \/ \E reply \in Replies :
                     /\ Become(x, Told(call[x], reply))
                     /\ reply = "gone" =>
                            /\ call[x].route = "stateful" /\ call[x].ask.session # NoSession
                            /\ StateOf(call[x].ask, session) # "live"
              \/ /\ Become(x, [call[x] EXCEPT !.pc = "run"])
                 /\ call[x].route = "stateful" => call[x].ask.session # NoSession
<1> DEFINE d == call[x]
           Ends == /\ ~Unborning
                   /\ \/ \E reply \in Replies :
                             /\ Become(x, Told(d, reply))
                             /\ reply = "gone" =>
                                    /\ d.route = "stateful" /\ d.ask.session # NoSession
                                    /\ StateOf(d.ask, session) # "live"
                      \/ /\ Become(x, [d EXCEPT !.pc = "run"])
                         /\ d.route = "stateful" => d.ask.session # NoSession
<1> SUFFICES Ends
    OBVIOUS
<1>1. session \in Sessions
    BY DEF ServerInv, TypeOK, Sessions
<1>2. ASSUME NEW n \in Session, session' = [session EXCEPT ![n] = "live"],
             Become(x, Told(d, "opened"))
      PROVE  Ends
    BY <1>1, <1>2 DEF Unborning, Replies, Sessions
<1>3. ASSUME NEW reply \in Replies \ {"gone"}, Become(x, Told(d, reply)), session' = session
      PROVE  Ends
    BY <1>3 DEF Unborning
<1>4. ASSUME Takes(x), d.route = "stateful" => d.ask.session # NoSession
      PROVE  Ends
    <2>1. CASE d.ask.body = "initialize"
        BY <1>4, <2>1, <1>3 DEF Takes, Replies
    <2>2. CASE d.ask.body # "initialize"
        BY <1>4, <2>2 DEF Takes, Unborning
    <2> QED BY <2>1, <2>2
<1>5. ASSUME session' = [session EXCEPT ![d.ask.session] = "gone"], Become(x, Told(d, "closed"))
      PROVE  Ends
    BY <1>1, <1>5 DEF Unborning, Replies, Sessions
<1>6. {"full", "stream"} \subseteq Replies \ {"gone"} /\ "gone" \in Replies
    BY DEF Replies
<1> HIDE DEF Ends, d
<1>7. CASE d.route = "stateful" /\ d.ask.session = NoSession
    BY <1>2, <1>3, <1>6, <1>7 DEF Handed, d
<1>8. CASE d.route = "stateful" /\ d.ask.session # NoSession /\ StateOf(d.ask, session) = "live"
    <2>1. CASE d.ask.method = "POST"
        BY <1>4, <1>8, <2>1 DEF Handed, d
    <2>2. CASE d.ask.method = "GET"
        BY <1>3, <1>6, <1>8, <2>2 DEF Handed, d
    <2>3. CASE d.ask.method \notin {"POST", "GET"}
        BY <1>5, <1>8, <2>3 DEF Handed, d
    <2> QED BY <2>1, <2>2, <2>3
<1>9. CASE d.route = "stateful" /\ d.ask.session # NoSession /\ StateOf(d.ask, session) # "live"
    <2>1. Become(x, Told(d, "gone")) /\ session' = session
        BY <1>9 DEF Handed, d
    <2> QED BY <1>6, <1>9, <2>1 DEF Ends, Unborning
<1>10. CASE d.route = "stateless"
    BY <1>4, <1>10 DEF Handed, d
<1> QED
    BY <1>7, <1>8, <1>9, <1>10 DEF Handed, d

LEMMA HandedKeeps ==
    ASSUME ServerInv, NEW x \in Call, Handed(x)
    PROVE  Admitted(x)' /\ InLife(x)' /\ boot' = boot /\ Watched /\ ~Unborning
           /\ \A y \in Call : y # x => call'[y] = call[y]
<1> DEFINE d == call[x]
<1>1. boot' = boot /\ Watched /\ ~Unborning /\ d.pc = "hand"
    BY HandedEnds DEF Handed, svars
<1>2. /\ Admitted(x) /\ InLife(x) /\ d \in ACall /\ d.route \in {"stateful", "stateless"}
      /\ d.told = "none" /\ StateOf(d.ask, session) \in life[x]
      /\ d.ask \in Ask /\ d.ask # NoAsk /\ x \in entitled
      /\ "live" \in life[x] /\ d.ask.session # NoSession => session[d.ask.session] # "unborn"
    BY <1>1, AsksAreReal DEF ServerInv, TypeOK, Admitted, InLife, Pending
<1>3. CASE /\ Become(x, [d EXCEPT !.pc = "run"])
           /\ d.route = "stateful" => d.ask.session # NoSession
    <2>1. call'[x] = [d EXCEPT !.pc = "run"] /\ \A y \in Call : y # x => call'[y] = call[y]
        BY <1>3, Others
    <2>2. /\ call'[x].pc = "run" /\ call'[x].ask = d.ask /\ call'[x].route = d.route
          /\ call'[x].failed = d.failed /\ call'[x].told = "none"
        BY <2>1, <1>2 DEF ACall
    <2> QED BY <1>1, <1>2, <1>3, <2>1, <2>2, RouteBehind DEF Pending
<1>4. ASSUME NEW reply \in Replies, Become(x, Told(d, reply)),
             reply = "gone" =>
                 /\ d.route = "stateful" /\ d.ask.session # NoSession
                 /\ StateOf(d.ask, session) # "live"
      PROVE  Admitted(x)' /\ InLife(x)' /\ \A y \in Call : y # x => call'[y] = call[y]
    <2>1. call'[x] = Told(d, reply) /\ \A y \in Call : y # x => call'[y] = call[y]
        BY <1>4, Others
    <2>2. /\ call'[x].pc = "done" /\ call'[x].ask = d.ask /\ call'[x].route = d.route
          /\ call'[x].failed = d.failed /\ call'[x].told = reply
        BY <2>1, <1>2, <1>4, ToldTyped
    <2>3. x \in entitled' /\ life[x] \subseteq life'[x]
        BY <1>1, <1>2, <2>2, Noting
    <2>4. reply = "gone" => {"live", "gone"} \subseteq life[x]
        <3>1. StateOf(d.ask, session) \in {"unborn", "live", "gone"}
            BY <1>2, AsksAreReal DEF ServerInv, TypeOK, StateOf
        <3>2. d.ask.session # NoSession => StateOf(d.ask, session) = session[d.ask.session]
            BY DEF StateOf
        <3>3. reply = "gone" => "live" \in life[x]
            BY <1>2, <1>4 DEF InLife, RoutedRight
        <3> QED BY <1>2, <1>4, <3>1, <3>2, <3>3
    <2> HIDE DEF d
    <2>5. InLife(x) => RoutedRight(x)
        BY DEF InLife
    <2>6. RoutedRight(x)'
        BY <1>2, <2>2, <2>3, <2>4, <2>5 DEF RoutedRight, d
    <2> QED BY <1>2, <2>1, <2>2, <2>3, <2>6 DEF Admitted, InLife, Pending, Running
<1> QED BY <1>1, <1>3, <1>4, HandedEnds

LEMMA ToolKeeps ==
    ASSUME ServerInv, NEW x \in Call, Tool(x)
    PROVE  Admitted(x)' /\ InLife(x)' /\ boot' = boot /\ Watched /\ session' = session
           /\ \A y \in Call : y # x => call'[y] = call[y]
<1> DEFINE d == call[x]
<1>1. boot' = boot /\ Watched /\ session' = session /\ d.pc \in Running
    BY DEF Tool, RequestTimesOut, GoesOn, ToolEnds, SnapshotEnds, Count, Observe, Tell,
       Running, svars
<1>2. /\ InLife(x) /\ d \in ACall /\ d.route # "none" /\ d.told = "none"
      /\ d.route = "stateful" => d.ask.session # NoSession
    BY <1>1 DEF ServerInv, TypeOK, InLife
<1> DEFINE Follows(r) ==
               /\ r.ask = d.ask /\ r.route = d.route /\ r.failed = d.failed
               /\ \/ r.told = "none" /\ r.pc \in Running
                  \/ r.told \in {"error", "success"} /\ r.pc = "done"
<1>3. \E r : Become(x, r) /\ Follows(r)
    <2>1. CASE ToolEnds(x)
        <3>1. CASE d.ask.body # "snapshot"
            <4>1. PICK result \in {"ok", "error"} :
                      Become(x, [d EXCEPT !.result = result, !.pc = "count"])
                BY <2>1, <3>1 DEF ToolEnds
            <4>2. Follows([d EXCEPT !.result = result, !.pc = "count"])
                BY <1>2 DEF ACall, Running
            <4> HIDE DEF Follows
            <4> QED BY <4>1, <4>2
        <3>2. CASE d.ask.body = "snapshot"
            <4> DEFINE r == [d EXCEPT !.calls = tally.success + tally.error, !.pc = "snap"]
            <4>1. Become(x, r)
                BY <2>1, <3>2 DEF ToolEnds
            <4>2. Follows(r)
                BY <1>2 DEF ACall, Running
            <4> HIDE DEF Follows, r
            <4> QED BY <4>1, <4>2
        <3> QED BY <3>1, <3>2
    <2>2. CASE SnapshotEnds(x)
        <3> DEFINE r == [d EXCEPT !.durations = tally.observed, !.result = "ok", !.pc = "count"]
        <3>1. Become(x, r)
            BY <2>2 DEF SnapshotEnds
        <3>2. Follows(r)
            BY <1>2 DEF ACall, Running
        <3> HIDE DEF Follows, r
        <3> QED BY <3>1, <3>2
    <2>3. CASE Count(x) \/ Observe(x)
        <3>1. PICK pc \in {"observe", "tell"} : Become(x, [d EXCEPT !.pc = pc])
            BY <2>3 DEF Count, Observe
        <3>2. Follows([d EXCEPT !.pc = pc])
            BY <1>2 DEF ACall, Running
        <3> HIDE DEF Follows
        <3> QED BY <3>1, <3>2
    <2>4. CASE Tell(x)
        <3>1. PICK reply \in {"error", "success"} : Become(x, Told(d, reply))
            BY <2>4 DEF Tell
        <3>2. Follows(Told(d, reply))
            BY <1>2 DEF Told, ACall
        <3> HIDE DEF Follows
        <3> QED BY <3>1, <3>2
    <2>5. CASE RequestTimesOut(x)
        <3>1. Become(x, [d EXCEPT !.late = TRUE])
            BY <2>5 DEF RequestTimesOut
        <3>2. Follows([d EXCEPT !.late = TRUE])
            BY <1>1, <1>2 DEF ACall, Running
        <3> HIDE DEF Follows
        <3> QED BY <3>1, <3>2
    <2> QED BY <2>1, <2>2, <2>3, <2>4, <2>5 DEF Tool, GoesOn
<1>4. PICK r : Become(x, r) /\ Follows(r)
    BY <1>3
<1>5. call'[x] = r /\ \A y \in Call : y # x => call'[y] = call[y]
    BY <1>4, Others
<1>6. r.pc \notin Pending \cup {"idle"}
    BY <1>4 DEF Running, Pending
<1>7. r.told # "gone" /\ (r.pc \in Running => r.told = "none")
    BY <1>4 DEF Running
<1> HIDE DEF d
<1> QED BY <1>1, <1>2, <1>4, <1>5, <1>6, <1>7, RouteBehind DEF d

-----------------------------------------------------------------------------
LEMMA RequestKeeps ==
    ASSUME ServerInv, NEW x \in Call,
           \/ Receive(x) \/ Authenticated(x) \/ Dropped(x) \/ Routed(x) \/ Handed(x) \/ Tool(x)
    PROVE  \A y \in Call : Admitted(y)' /\ InLife(y)'
<1>1. /\ Admitted(x)' /\ InLife(x)' /\ boot' = boot /\ Watched /\ ~Unborning
      /\ \A y \in Call : y # x => call'[y] = call[y]
    BY ReceiveKeeps, AuthenticatedKeeps, DroppedKeeps, RoutedKeeps, HandedKeeps, ToolKeeps
       DEF Unborning
<1> QED BY <1>1, Bystander DEF Unborning

LEMMA ProcessKeeps ==
    ASSUME ServerInv, Boot \/ TimePasses \/ SessionEnds \/ Killed
    PROVE  \A y \in Call : Admitted(y)' /\ InLife(y)'
<1>1. CASE Boot
    <2>1. UNCHANGED rvars
        BY <1>1 DEF Boot
    <2>2. (\A x \in Call : ~UnderWay(x)) \/ UNCHANGED <<boot, now>>
        BY <1>1 DEF Boot, Start, Boots, ReadGate, ReadExe, ReadText, CannotRead, SetUp, WriteFile,
                    Reading, Serving, TypeOK, ServerInv
    <2>3. ASSUME NEW y \in Call
          PROVE  Admitted(y)' /\ InLife(y)'
        <3>1. Admitted(y) /\ InLife(y)
            BY DEF ServerInv
        <3>2. InLife(y)'
            BY <2>1, <3>1 DEF rvars, InLife, RoutedRight
        <3>3. CASE UNCHANGED <<boot, now>>
            BY <2>1, <3>1, <3>2, <3>3 DEF rvars, Admitted
        <3>4. CASE ~UnderWay(y)
            BY <2>1, <3>1, <3>2, <3>4 DEF rvars, Admitted, UnderWay, Over
        <3> QED BY <2>2, <3>3, <3>4
    <2> QED BY <2>3
<1>2. CASE TimePasses \/ SessionEnds
    <2>1. boot' = boot /\ Watched /\ call' = call
        BY <1>2 DEF TimePasses, Tick, SessionEnds, svars
    <2>2. ~Unborning
        BY <1>2 DEF TimePasses, SessionEnds, Unborning, ServerInv, TypeOK
    <2> QED BY <2>1, <2>2, Bystander DEF Unborning
<1>3. CASE Killed
    <2>1. TypeOK /\ Watched
        BY <1>3 DEF ServerInv, Killed
    <2>2. ASSUME NEW y \in Call
          PROVE  /\ call'[y].route = "none" /\ call'[y].ask = NoAsk
                 /\ call'[y].pc \in {"idle", "done", "dropped"}
        <3>1. call[y].pc \in {"idle", "done", "dropped"} \/ UnderWay(y)
            BY DEF UnderWay, Over
        <3> QED BY <1>3, <3>1 DEF Killed, UnderWay, Over, Gone, Idle, Pending
    <2> QED BY <2>1, <2>2, NothingKept
<1> QED BY <1>1, <1>2, <1>3

LEMMA ServerInvInitially ==
    ASSUME Init
    PROVE  ServerInv
<1>1. StartupInv
    BY StartupInvInitially DEF Init
<1>2. TypeOK
    <2>1. Idle \in ACall
        BY DEF Idle, ACall, Replies
    <2> QED BY <1>1, <2>1 DEF Init, TypeOK, StartupInv, Zeros, NoSpan, UnderWay, Idle
<1>3. ASSUME NEW x \in Call
      PROVE  Admitted(x) /\ InLife(x)
    BY DEF Init, Idle, Admitted, InLife, RoutedRight, Pending, Running
<1> QED BY <1>1, <1>2, <1>3 DEF ServerInv

LEMMA ServerInvInductive ==
    ASSUME ServerInv, [Next]_vars
    PROVE  ServerInv'
<1>1. StartupInv'
    BY StepsOfTheProcess, StartupInvInductive DEF ServerInv
<1>2. TypeOK'
    BY <1>1, ServerTyped DEF ServerInv, StartupInv
<1>3. \A y \in Call : Admitted(y)' /\ InLife(y)'
    <2>1. CASE UNCHANGED vars
        BY <2>1 DEF vars, rvars, svars, ServerInv, Admitted, InLife, RoutedRight
    <2> QED BY <2>1, RequestKeeps, ProcessKeeps DEF Next
<1> QED BY <1>1, <1>2, <1>3 DEF ServerInv

LEMMA ServerInvAlways == Spec => []ServerInv
<1>1. Init => ServerInv
    BY ServerInvInitially
<1>2. ServerInv /\ [Next]_vars => ServerInv'
    BY ServerInvInductive
<1> QED BY <1>1, <1>2, PTL DEF Spec

(* The server's variables keep their types, and requests are under way     *)
(* only while the process they came to serves (main.rs 229-415).           *)
THEOREM ServerTypeCorrect == Spec => []TypeOK
<1>1. ServerInv => TypeOK
    BY DEF ServerInv
<1> QED BY <1>1, ServerInvAlways, PTL

(* Only what was entitled to it while it waited for its token's answer     *)
(* gets behind the authentication (auth.rs 189-293).                       *)
THEOREM OnlyTheEntitledAreServed == Spec => []EntitledWhenServed
<1>1. ServerInv => EntitledWhenServed
    BY DEF ServerInv, Admitted, EntitledWhenServed
<1> QED BY <1>1, ServerInvAlways, PTL

(* Requests run in their session, without it or not at all by what it was  *)
(* while they were routed (main.rs 618-718).                               *)
THEOREM RequestsFollowTheirSession == Spec => []RoutedByItsSession
<1>1. ServerInv => RoutedByItsSession
    BY DEF ServerInv, InLife, RoutedRight, RoutedByItsSession
<1> QED BY <1>1, ServerInvAlways, PTL

-----------------------------------------------------------------------------
(* Metrics.  Each counter is the number of the requests of this process    *)
(* that have passed the step that counts them: a request d counts in each  *)
(* of these ways or not, in the process that started as the s-th.          *)

Refusals == {"unauthorized", "forbidden", "unsupported", "bad_gateway"}

EndsWell(d, s) == d.born = s /\ d.result = "ok" /\ d.pc \in Counted
EndsIll(d, s)  == d.born = s /\ Flagged(d.result) /\ d.pc \in Counted
IsTimed(d, s)  == d.born = s /\ d.result # "none" /\ d.pc \in Observed
IsLate(d, s)   == d.born = s /\ d.late /\ d.pc # "dropped"
IsTurned(d, s) == d.born = s /\ d.told \in Refusals /\ d.pc # "dropped"

Well   == {x \in Call : EndsWell(call[x], starts)}
Ill    == {x \in Call : EndsIll(call[x], starts)}
Timed  == {x \in Call : IsTimed(call[x], starts)}
Late   == {x \in Call : IsLate(call[x], starts)}
Turned == {x \in Call : IsTurned(call[x], starts)}

(* How far a request is, by what is known of it, with n audit entries.     *)
Accounts(d, n, s) ==
    /\ d.pc \in {"idle", "run", "snap"} \cup Pending => d.result = "none"
    /\ d.pc \in {"count", "observe", "tell"} => d.result # "none"
    /\ d.pc \in {"idle"} \cup Pending => ~d.late
    /\ d.pc # "done" => d.told = "none"
    /\ d.told = "success" => d.result = "ok"
    /\ d.told = "error" => Flagged(d.result)
    /\ d.born <= s
    /\ n = IF d.pc = "done" /\ d.result # "none" THEN 1 ELSE 0

Accounted(x) == Accounts(call[x], recorded[x], starts)

(* A process that does not serve has counted no request of its own.        *)
Unused ==
    /\ tally = Zeros
    /\ \A x \in Call :
           ~Mine(x) \/ (call[x].result = "none" /\ call[x].told = "none" /\ ~call[x].late)

(* A call may have any number of requests that time out.                   *)
Counters ==
    /\ tally.success = Cardinality(Well) /\ tally.error = Cardinality(Ill)
    /\ tally.observed = Cardinality(Timed)
    /\ Cardinality(Late) <= tally.timeouts /\ (tally.timeouts > 0 => Late # {})
    /\ tally.rejects = Cardinality(Turned)

TallyInv ==
    /\ boot.pc # "down" => starts > 0
    /\ ~Serving => Unused
    /\ \A x \in Call : Accounted(x)
    /\ Counters

-----------------------------------------------------------------------------
(* Counting a set that one request enters or not. *)
LEMMA CountStep ==
    ASSUME NEW S \in SUBSET Call, NEW T \in SUBSET Call, NEW x \in Call,
           \A y \in Call : y # x => (y \in S <=> y \in T), x \in S => x \in T
    PROVE  /\ Cardinality(S) \in Nat /\ Cardinality(T) \in Nat
           /\ Cardinality(T) = Cardinality(S) + IF x \in T /\ x \notin S THEN 1 ELSE 0
<1>1. IsFiniteSet(S)
    BY CallAssumption, FS_Subset
<1>2. Cardinality(S) \in Nat
    BY CountsAreNumbers
<1>3. CASE x \in T /\ x \notin S
    <2>1. T = S \cup {x}
        BY <1>3
    <2> QED BY <1>1, <1>2, <1>3, <2>1, FS_AddElement
<1>4. CASE ~(x \in T /\ x \notin S)
    <2>1. T = S
        BY <1>4
    <2> QED BY <1>2, <1>4, <2>1
<1> QED BY <1>3, <1>4

LEMMA NoneCounted ==
    ASSUME NEW S, S \subseteq {}
    PROVE  Cardinality(S) = 0
BY FS_EmptySet

(* What one request does to the counters when it becomes r, as it counts   *)
(* in a way it did not count before.                                       *)
Moves(d, r, s, n) ==
    LET By(was, is) == IF is /\ ~was THEN 1 ELSE 0
    IN  /\ n.success = tally.success + By(EndsWell(d, s), EndsWell(r, s))
        /\ n.error = tally.error + By(EndsIll(d, s), EndsIll(r, s))
        /\ n.observed = tally.observed + By(IsTimed(d, s), IsTimed(r, s))
        /\ n.timeouts >= tally.timeouts + By(IsLate(d, s), IsLate(r, s))
        /\ n.timeouts > tally.timeouts => IsLate(r, s)
        /\ n.rejects = tally.rejects + By(IsTurned(d, s), IsTurned(r, s))

Stays(d, r, s) ==
    /\ EndsWell(d, s) => EndsWell(r, s)
    /\ EndsIll(d, s) => EndsIll(r, s)
    /\ IsTimed(d, s) => IsTimed(r, s)
    /\ IsLate(d, s) => IsLate(r, s)
    /\ IsTurned(d, s) => IsTurned(r, s)

LEMMA Tallying ==
    ASSUME ServerInv, TallyInv, NEW x \in Call, NEW r, Become(x, r), tally' \in Tallies,
           UNCHANGED <<boot, starts>>, Serving,
           Stays(call[x], r, starts), Moves(call[x], r, starts, tally'),
           Accounts(r, recorded'[x], starts),
           \A y \in Call : y # x => recorded'[y] = recorded[y]
    PROVE  TallyInv'
<1>1. call'[x] = r /\ \A y \in Call : y # x => call'[y] = call[y]
    BY Others
<1>2. \A y \in Call : Accounted(y)'
    <2>1. Accounted(x)'
        BY <1>1 DEF Accounted
    <2>2. ASSUME NEW y \in Call, y # x
          PROVE  Accounted(y)'
        BY <1>1, <2>2 DEF TallyInv, Accounted
    <2> QED BY <2>1, <2>2
<1>3. tally'.success = Cardinality(Well')
    <2>1. /\ \A y \in Call : y # x => (y \in Well <=> y \in Well')
          /\ x \in Well <=> EndsWell(call[x], starts)
          /\ x \in Well' <=> EndsWell(r, starts)
        BY <1>1 DEF Well
    <2>2. Cardinality(Well') = Cardinality(Well) + IF x \in Well' /\ x \notin Well THEN 1 ELSE 0
        BY <2>1, CountStep DEF Stays, Well
    <2> QED BY <2>1, <2>2 DEF Moves, TallyInv, Counters
<1>4. tally'.error = Cardinality(Ill')
    <2>1. /\ \A y \in Call : y # x => (y \in Ill <=> y \in Ill')
          /\ x \in Ill <=> EndsIll(call[x], starts)
          /\ x \in Ill' <=> EndsIll(r, starts)
        BY <1>1 DEF Ill
    <2>2. Cardinality(Ill') = Cardinality(Ill) + IF x \in Ill' /\ x \notin Ill THEN 1 ELSE 0
        BY <2>1, CountStep DEF Stays, Ill
    <2> QED BY <2>1, <2>2 DEF Moves, TallyInv, Counters
<1>5. tally'.observed = Cardinality(Timed')
    <2>1. /\ \A y \in Call : y # x => (y \in Timed <=> y \in Timed')
          /\ x \in Timed <=> IsTimed(call[x], starts)
          /\ x \in Timed' <=> IsTimed(r, starts)
        BY <1>1 DEF Timed
    <2>2. Cardinality(Timed') = Cardinality(Timed) + IF x \in Timed' /\ x \notin Timed THEN 1 ELSE 0
        BY <2>1, CountStep DEF Stays, Timed
    <2> QED BY <2>1, <2>2 DEF Moves, TallyInv, Counters
<1>6. Cardinality(Late') <= tally'.timeouts /\ (tally'.timeouts > 0 => Late' # {})
    <2>1. /\ \A y \in Call : y # x => (y \in Late <=> y \in Late')
          /\ x \in Late <=> IsLate(call[x], starts)
          /\ x \in Late' <=> IsLate(r, starts)
        BY <1>1 DEF Late
    <2>2. /\ Cardinality(Late) \in Nat /\ Cardinality(Late') \in Nat
          /\ Cardinality(Late') = Cardinality(Late) + IF x \in Late' /\ x \notin Late THEN 1 ELSE 0
          /\ Late \subseteq Late'
        BY <2>1, CountStep DEF Stays, Late
    <2>3. /\ tally'.timeouts >= tally.timeouts + IF x \in Late' /\ x \notin Late THEN 1 ELSE 0
          /\ tally'.timeouts > tally.timeouts => x \in Late'
        BY <2>1 DEF Moves
    <2>4. /\ Cardinality(Late) <= tally.timeouts /\ (tally.timeouts > 0 => Late # {})
          /\ tally.timeouts \in Nat /\ tally'.timeouts \in Nat
        BY DEF TallyInv, Counters, ServerInv, TypeOK, Tallies, Zeros
    <2> QED BY <2>2, <2>3, <2>4
<1>7. tally'.rejects = Cardinality(Turned')
    <2>1. /\ \A y \in Call : y # x => (y \in Turned <=> y \in Turned')
          /\ x \in Turned <=> IsTurned(call[x], starts)
          /\ x \in Turned' <=> IsTurned(r, starts)
        BY <1>1 DEF Turned
    <2>2. Cardinality(Turned') = Cardinality(Turned) + IF x \in Turned' /\ x \notin Turned THEN 1 ELSE 0
        BY <2>1, CountStep DEF Stays, Turned
    <2> QED BY <2>1, <2>2 DEF Moves, TallyInv, Counters
<1>8. Serving' /\ (boot.pc # "down" => starts > 0)'
    BY DEF Serving, TallyInv
<1> HIDE DEF Accounted
<1> QED BY <1>2, <1>3, <1>4, <1>5, <1>6, <1>7, <1>8 DEF TallyInv, Counters

(* A request that runs no tool yet counts at most as turned away.          *)
HasNoResult(x) == call[x].result = "none" /\ call[x].pc # "snap"

LEMMA NoToolYet ==
    ASSUME ServerInv, TallyInv, NEW x \in Call, NEW r \in ACall, Become(x, r),
           UNCHANGED <<boot, starts, recorded>>, Serving,
           call[x].result = "none", call[x].told = "none", ~call[x].late, ~r.late,
           r.result = "none", r.born = starts, r.told \notin {"success", "error"},
           r.pc \in Pending \cup {"run", "dropped"} => r.told = "none",
           r.pc \in Pending \cup {"run", "done", "dropped"},
           tally' = IF r.told \in Refusals THEN [tally EXCEPT !.rejects = @ + 1] ELSE tally
    PROVE  TallyInv' /\ HasNoResult(x)'
<1> DEFINE d == call[x]
<1>1. tally \in Tallies
    BY DEF ServerInv, TypeOK, Tallies
<1>2. Accounts(d, recorded[x], starts)
    BY DEF TallyInv, Accounted
<1>3. recorded[x] = 0
    BY <1>2 DEF Accounts
<1>4. starts \in Nat
    BY DEF ServerInv, TypeOK, StartupTypeOK
<1>5. Stays(d, r, starts)
    BY DEF Stays, EndsWell, EndsIll, IsTimed, IsLate, IsTurned, Flagged, Refusals
<1>6. Moves(d, r, starts, tally')
    <2>1. CASE r.told \in Refusals
        <3>1. r.pc = "done"
            BY <2>1 DEF Pending, Refusals
        <3>2. /\ ~EndsWell(r, starts) /\ ~EndsIll(r, starts) /\ ~IsTimed(r, starts)
              /\ ~IsLate(r, starts) /\ IsTurned(r, starts) /\ ~IsTurned(d, starts)
            BY <2>1, <3>1 DEF EndsWell, EndsIll, IsTimed, IsLate, IsTurned, Flagged, Refusals
        <3>3. tally' = [tally EXCEPT !.rejects = @ + 1]
            BY <2>1
        <3> HIDE DEF d
        <3> QED BY <1>1, <3>2, <3>3 DEF Moves, Tallies, Zeros
    <2>2. CASE r.told \notin Refusals
        <3>1. /\ ~EndsWell(r, starts) /\ ~EndsIll(r, starts) /\ ~IsTimed(r, starts)
              /\ ~IsLate(r, starts) /\ ~IsTurned(r, starts)
            BY <2>2 DEF EndsWell, EndsIll, IsTimed, IsLate, IsTurned, Flagged
        <3>2. tally' = tally
            BY <2>2
        <3> HIDE DEF d
        <3> QED BY <1>1, <3>1, <3>2 DEF Moves, Tallies, Zeros
    <2> QED BY <2>1, <2>2
<1>7. Accounts(r, recorded'[x], starts)
    BY <1>3, <1>4 DEF Accounts, Pending
<1>8. \A y \in Call : y # x => recorded'[y] = recorded[y]
    OBVIOUS
<1>9. HasNoResult(x)'
    BY Others DEF HasNoResult, Pending
<1>10. tally' \in Tallies
    BY <1>1, TallyTyped
<1> HIDE DEF d
<1> QED BY <1>5, <1>6, <1>7, <1>8, <1>9, <1>10, Tallying DEF d

LEMMA ToldKeeps ==
    ASSUME NEW d \in ACall, NEW r \in Replies
    PROVE  /\ Told(d, r) \in ACall /\ Told(d, r).pc = "done" /\ Told(d, r).told = r
           /\ Told(d, r).born = d.born /\ Told(d, r).result = d.result
           /\ Told(d, r).late = d.late
    BY DEF ACall, Told, Counted

LEMMA PendingIsQuiet ==
    ASSUME ServerInv, TallyInv, NEW x \in Call, call[x].pc \in {"idle"} \cup Pending
    PROVE  /\ call[x] \in ACall /\ call[x].result = "none" /\ call[x].told = "none"
           /\ ~call[x].late
           /\ call[x].pc # "idle" => call[x].born = starts /\ Serving
<1>1. call[x] \in ACall /\ (UnderWay(x) => Serving /\ call[x].born = starts)
    BY DEF ServerInv, TypeOK
<1>2. Accounts(call[x], recorded[x], starts)
    BY DEF TallyInv, Accounted
<1> QED BY <1>1, <1>2 DEF Accounts, Pending, UnderWay, Over

LEMMA ReceiveTallies ==
    ASSUME ServerInv, TallyInv, NEW x \in Call, Receive(x)
    PROVE  TallyInv' /\ HasNoResult(x)'
<1>1. PICK a \in Ask :
          LET d == [Idle EXCEPT !.ask = a, !.born = starts]
          IN  CASE ~a.tidy -> Become(x, Told(d, "bad_request")) /\ UNCHANGED tally
                [] a.tidy /\ boot.set.dpop -> Rejected(x, d, "unsupported")
                [] a.tidy /\ ~boot.set.dpop /\ boot.set.cert /\ ~a.cert ->
                       Rejected(x, d, "forbidden")
                [] OTHER -> Become(x, [d EXCEPT !.pc = "token"]) /\ UNCHANGED tally
    BY DEF Receive
<1> DEFINE d == [Idle EXCEPT !.ask = a, !.born = starts]
           e == [d EXCEPT !.pc = "token"]
<1>2. /\ Serving /\ UNCHANGED <<boot, starts, recorded>>
      /\ call[x].result = "none" /\ call[x].told = "none" /\ ~call[x].late
    BY PendingIsQuiet DEF Receive, Request
<1>3. d \in ACall /\ d.born = starts /\ d.result = "none" /\ ~d.late
    <2>1. Idle \in ACall /\ Idle.result = "none" /\ ~Idle.late
        BY DEF Idle, ACall, Replies
    <2> QED BY <2>1 DEF ServerInv, TypeOK, StartupTypeOK, ACall
<1>4. e \in ACall /\ e.born = starts /\ e.result = "none" /\ e.pc = "token" /\ e.told = "none"
      /\ ~e.late
    BY <1>3 DEF ACall, Idle
<1>5. ASSUME NEW r \in Replies
      PROVE  /\ Told(d, r) \in ACall /\ Told(d, r).pc = "done" /\ Told(d, r).told = r
             /\ Told(d, r).born = starts /\ Told(d, r).result = "none" /\ ~Told(d, r).late
    BY <1>3, ToldKeeps
<1> HIDE DEF d, e
<1> DEFINE Fine(r) ==
               /\ Become(x, r) /\ r.result = "none" /\ r.born = starts /\ ~r.late
               /\ r.told \notin {"success", "error"}
               /\ (r.pc = "token" /\ r.told = "none") \/ r.pc = "done"
               /\ tally' = IF r.told \in Refusals THEN [tally EXCEPT !.rejects = @ + 1] ELSE tally
<1>6. \E r \in ACall : Fine(r)
    <2>1. CASE ~a.tidy
        <3>1. Become(x, Told(d, "bad_request")) /\ tally' = tally
            BY <1>1, <2>1 DEF d
        <3> QED BY <3>1, <1>5 DEF Replies, Refusals
    <2>2. ASSUME a.tidy, NEW reply \in {"unsupported", "forbidden"}, Rejected(x, d, reply)
          PROVE  \E r \in ACall : Fine(r)
        <3>1. Become(x, Told(d, reply)) /\ tally' = [tally EXCEPT !.rejects = @ + 1]
            BY <2>2 DEF Rejected
        <3>2. reply \in Replies /\ reply \in Refusals /\ reply \notin {"success", "error"}
            BY DEF Replies, Refusals
        <3> QED BY <3>1, <3>2, <1>5
    <2>3. CASE a.tidy /\ ~boot.set.dpop /\ ~(boot.set.cert /\ ~a.cert)
        <3>1. Become(x, e) /\ tally' = tally
            BY <1>1, <2>3 DEF d, e
        <3> QED BY <3>1, <1>4 DEF Refusals
    <2> QED BY <1>1, <2>1, <2>2, <2>3 DEF d
<1>7. PICK r \in ACall : Fine(r)
    BY <1>6
<1> QED BY <1>2, <1>7, NoToolYet DEF Pending

LEMMA AuthenticatedTallies ==
    ASSUME ServerInv, TallyInv, NEW x \in Call, Authenticated(x)
    PROVE  TallyInv' /\ HasNoResult(x)'
<1> DEFINE d == call[x]
           e == [d EXCEPT !.pc = "route"]
<1>1. d.pc = "token" /\ UNCHANGED <<boot, starts, recorded>>
    BY DEF Authenticated, svars
<1>2. /\ d \in ACall /\ d.result = "none" /\ d.told = "none" /\ d.born = starts /\ Serving
      /\ ~d.late
    BY <1>1, PendingIsQuiet DEF Pending
<1>3. PICK v \in {"ok", "bad_gateway", "unauthorized", "forbidden"} :
          IF v = "ok" THEN Become(x, e) /\ UNCHANGED tally ELSE Rejected(x, d, v)
    BY VerdictTyped DEF Authenticated, Answers
<1>4. CASE v = "ok"
    <2>1. e \in ACall /\ e.born = starts /\ e.result = "none" /\ e.pc = "route" /\ e.told = "none"
          /\ ~e.late
        BY <1>2 DEF ACall
    <2>2. Become(x, e) /\ tally' = tally
        BY <1>3, <1>4
    <2> HIDE DEF d, e
    <2> QED BY <1>1, <1>2, <2>1, <2>2, NoToolYet DEF Pending, Refusals, d
<1>5. CASE v # "ok"
    <2>1. v \in Refusals /\ v \in Replies /\ v \notin {"success", "error"}
        BY <1>5 DEF Refusals, Replies
    <2>2. /\ Told(d, v) \in ACall /\ Told(d, v).pc = "done" /\ Told(d, v).told = v
          /\ Told(d, v).born = starts /\ Told(d, v).result = "none" /\ ~Told(d, v).late
        BY <1>2, <2>1, ToldKeeps
    <2>3. Become(x, Told(d, v)) /\ tally' = [tally EXCEPT !.rejects = @ + 1]
        BY <1>3, <1>5 DEF Rejected
    <2> HIDE DEF d, e
    <2> QED BY <1>1, <1>2, <2>1, <2>2, <2>3, NoToolYet DEF Pending, d
<1> QED BY <1>4, <1>5

LEMMA RoutedTallies ==
    ASSUME ServerInv, TallyInv, NEW x \in Call, Routed(x)
    PROVE  TallyInv' /\ HasNoResult(x)'
<1> DEFINE d == call[x]
           Found(failed) == ~failed /\ StateOf(d.ask, session) = "live"
           R(failed) == Route(d.ask, boot.set, Found(failed))
<1>1. d.pc = "route" /\ UNCHANGED <<boot, starts, recorded, tally>>
    BY DEF Routed, svars
<1>2. /\ d \in ACall /\ d.result = "none" /\ d.told = "none" /\ d.born = starts /\ Serving
      /\ ~d.late
    BY <1>1, PendingIsQuiet DEF Pending
<1>3. PICK failed \in BOOLEAN :
          LET n == [d EXCEPT !.route = R(failed), !.failed = failed]
          IN  IF R(failed) \in {"stateful", "stateless"}
              THEN Become(x, [n EXCEPT !.pc = "hand"])
              ELSE \/ Become(x, Told(n, R(failed))) \/ Become(x, Told(n, "replayed"))
    BY DEF Routed
<1> DEFINE route == R(failed)
<1> DEFINE n == [d EXCEPT !.route = route, !.failed = failed]
           e == [n EXCEPT !.pc = "hand"]
<1>4. route \in {"stateful", "stateless", "bad_request", "not_found", "not_allowed"}
    BY RouteTyped
<1> HIDE DEF R
<1>5. n \in ACall /\ n.born = starts /\ n.result = "none" /\ n.told = "none" /\ ~n.late
    <2> HIDE DEF route
    <2> QED BY <1>2, <1>4 DEF ACall
<1>6. CASE route \in {"stateful", "stateless"}
    <2>1. e \in ACall /\ e.born = starts /\ e.result = "none" /\ e.pc = "hand" /\ e.told = "none"
          /\ ~e.late
        BY <1>5 DEF ACall
    <2>2. Become(x, e) /\ e.told \notin Refusals
        BY <1>3, <1>6, <2>1 DEF Refusals
    <2> HIDE DEF d, e, n
    <2> QED BY <1>1, <1>2, <2>1, <2>2, NoToolYet DEF Pending, d
<1>7. CASE route \notin {"stateful", "stateless"}
    <2>1. PICK reply \in {route, "replayed"} : Become(x, Told(n, reply))
        BY <1>3, <1>7
    <2>2. reply \in Replies /\ reply \notin Refusals /\ reply \notin {"success", "error"}
        BY <1>7, <1>4, <2>1 DEF Replies, Refusals
    <2>3. /\ Told(n, reply) \in ACall /\ Told(n, reply).pc = "done" /\ Told(n, reply).told = reply
          /\ Told(n, reply).born = starts /\ Told(n, reply).result = "none" /\ ~Told(n, reply).late
        <3> HIDE DEF n
        <3> QED BY <1>5, <2>2, ToldKeeps
    <2> HIDE DEF d, n
    <2> QED BY <1>1, <1>2, <2>1, <2>2, <2>3, NoToolYet DEF Pending, d
<1> QED BY <1>6, <1>7

LEMMA DroppedTallies ==
    ASSUME ServerInv, TallyInv, NEW x \in Call, Dropped(x)
    PROVE  TallyInv' /\ HasNoResult(x)'
<1>1. call[x].pc \in Pending /\ UNCHANGED <<boot, starts, recorded, tally>> /\ Become(x, Gone)
    BY DEF Dropped, Pending, svars
<1>2. call[x].result = "none" /\ call[x].told = "none" /\ ~call[x].late /\ Serving
    BY <1>1, PendingIsQuiet DEF Pending
<1>3. Gone.result = "none" /\ Gone.told = "none" /\ Gone.pc = "dropped" /\ Gone.born = 0
      /\ ~Gone.late
    BY DEF Gone, Idle
<1>4. recorded[x] = 0 /\ starts \in Nat /\ tally \in Tallies
    BY <1>1, <1>2 DEF TallyInv, Accounted, Accounts, ServerInv, TypeOK, StartupTypeOK, Tallies
<1>5. Stays(call[x], Gone, starts)
    BY <1>1, <1>2 DEF Stays, EndsWell, EndsIll, IsTimed, IsLate, IsTurned, Flagged, Refusals
<1>6. Moves(call[x], Gone, starts, tally')
    <2>1. /\ ~EndsWell(Gone, starts) /\ ~EndsIll(Gone, starts) /\ ~IsTimed(Gone, starts)
          /\ ~IsLate(Gone, starts) /\ ~IsTurned(Gone, starts)
        BY <1>3 DEF EndsWell, EndsIll, IsTimed, IsLate, IsTurned, Flagged
    <2> QED BY <1>1, <1>4, <2>1 DEF Moves, Tallies, Zeros
<1>7. Accounts(Gone, recorded'[x], starts)
    BY <1>1, <1>3, <1>4 DEF Accounts, Pending
<1>8. HasNoResult(x)'
    BY <1>1, <1>3, Others DEF HasNoResult
<1> QED BY <1>1, <1>2, <1>4, <1>5, <1>6, <1>7, <1>8, Tallying

LEMMA HandedTallies ==
    ASSUME ServerInv, TallyInv, NEW x \in Call, Handed(x)
    PROVE  TallyInv' /\ HasNoResult(x)'
<1> DEFINE d == call[x]
           e == [d EXCEPT !.pc = "run"]
<1>1. d.pc = "hand" /\ UNCHANGED <<boot, starts, recorded, tally>>
    BY DEF Handed, svars
<1>2. /\ d \in ACall /\ d.result = "none" /\ d.told = "none" /\ d.born = starts /\ Serving
      /\ ~d.late
    BY <1>1, PendingIsQuiet DEF Pending
<1>3. CASE Become(x, e)
    <2>1. e \in ACall /\ e.born = starts /\ e.result = "none" /\ e.pc = "run" /\ e.told = "none"
          /\ ~e.late
        BY <1>2 DEF ACall
    <2> HIDE DEF d, e
    <2> QED BY <1>1, <1>2, <1>3, <2>1, NoToolYet DEF Pending, Refusals, d
<1>4. ASSUME NEW reply \in {"opened", "full", "stream", "closed", "gone"}, Become(x, Told(d, reply))
      PROVE  TallyInv' /\ HasNoResult(x)'
    <2>1. reply \in Replies /\ reply \notin Refusals /\ reply \notin {"success", "error"}
        BY DEF Replies, Refusals
    <2>2. /\ Told(d, reply) \in ACall /\ Told(d, reply).pc = "done" /\ Told(d, reply).told = reply
          /\ Told(d, reply).born = starts /\ Told(d, reply).result = "none" /\ ~Told(d, reply).late
        BY <1>2, <2>1, ToldKeeps
    <2> HIDE DEF d, e
    <2> QED BY <1>1, <1>2, <1>4, <2>1, <2>2, NoToolYet DEF Pending, d
<1>5. Takes(x) => TallyInv' /\ HasNoResult(x)'
    BY <1>3, <1>4 DEF Takes
<1> HIDE DEF d, e
<1> QED BY <1>4, <1>5 DEF Handed, d

(* A tool's steps: each counts its request once, in the way its result     *)
(* tells.                                                                  *)
LEMMA ToolTallies ==
    ASSUME ServerInv, TallyInv, NEW x \in Call, Tool(x)
    PROVE  TallyInv'
<1> DEFINE d == call[x]
<1>1. /\ d \in ACall /\ d.pc \in Running /\ d.born = starts /\ Serving
      /\ UNCHANGED <<boot, starts>> /\ starts \in Nat /\ tally \in Tallies
      /\ recorded \in [Call -> Nat]
    BY DEF Tool, RequestTimesOut, GoesOn, ToolEnds, SnapshotEnds, Count, Observe, Tell,
       Running, svars,
           ServerInv, TypeOK, StartupTypeOK, UnderWay, Over, Tallies
<1>2. Accounts(d, recorded[x], starts)
    BY DEF TallyInv, Accounted
<1>3. d.told = "none" /\ recorded[x] = 0
    BY <1>1, <1>2 DEF Accounts, Running
<1> DEFINE Fine(r) == /\ Become(x, r) /\ Stays(d, r, starts) /\ Moves(d, r, starts, tally')
                      /\ Accounts(r, recorded'[x], starts)
<1>4. (\E r : Fine(r)) /\ \A y \in Call : y # x => recorded'[y] = recorded[y]
    <2>1. CASE ToolEnds(x)
        <3>1. d.pc = "run" /\ d.result = "none" /\ recorded' = recorded
            BY <1>2, <2>1 DEF ToolEnds, Accounts
        <3>2. CASE d.ask.body # "snapshot"
            <4>1. PICK result \in {"ok", "error"} :
                      Become(x, [d EXCEPT !.result = result, !.pc = "count"]) /\ tally' = tally
                BY <2>1, <3>2 DEF ToolEnds
            <4> DEFINE r == [d EXCEPT !.result = result, !.pc = "count"]
            <4>2. /\ r.pc = "count" /\ r.result = result /\ r.told = "none" /\ r.born = starts
                  /\ r.late = d.late
                BY <1>1, <1>3 DEF ACall
            <4> HIDE DEF d, r
            <4>3. Stays(d, r, starts)
                BY <1>1, <1>3, <3>1, <4>2 DEF Stays, EndsWell, EndsIll, IsTimed, IsLate, IsTurned,
                                              Flagged, Refusals
            <4>4. /\ ~EndsWell(r, starts) /\ ~EndsIll(r, starts) /\ ~IsTimed(r, starts)
                  /\ ~IsTurned(r, starts) /\ (IsLate(r, starts) => IsLate(d, starts))
                BY <1>1, <3>1, <4>2 DEF EndsWell, EndsIll, IsTimed, IsLate, IsTurned, Counted,
                                        Observed, Refusals
            <4>5. Moves(d, r, starts, tally')
                BY <1>1, <4>1, <4>4 DEF Moves, Tallies, Zeros
            <4>6. Accounts(r, recorded'[x], starts)
                BY <1>1, <1>3, <3>1, <4>2 DEF Accounts, Pending
            <4> QED BY <3>1, <4>1, <4>3, <4>5, <4>6 DEF r
        <3>3. CASE d.ask.body = "snapshot"
            <4> DEFINE r == [d EXCEPT !.calls = tally.success + tally.error, !.pc = "snap"]
            <4>1. Become(x, r) /\ tally' = tally
                BY <2>1, <3>3 DEF ToolEnds
            <4>2. /\ r.pc = "snap" /\ r.result = "none" /\ r.told = "none" /\ r.born = starts
                  /\ r.late = d.late
                BY <1>1, <1>3, <3>1 DEF ACall
            <4> HIDE DEF d, r
            <4>3. Stays(d, r, starts)
                BY <1>1, <1>3, <3>1, <4>2 DEF Stays, EndsWell, EndsIll, IsTimed, IsLate, IsTurned,
                                              Flagged, Refusals
            <4>4. /\ ~EndsWell(r, starts) /\ ~EndsIll(r, starts) /\ ~IsTimed(r, starts)
                  /\ ~IsTurned(r, starts) /\ (IsLate(r, starts) => IsLate(d, starts))
                BY <1>1, <3>1, <4>2 DEF EndsWell, EndsIll, IsTimed, IsLate, IsTurned, Counted, Observed, Refusals
            <4>5. Moves(d, r, starts, tally')
                BY <1>1, <4>1, <4>4 DEF Moves, Tallies, Zeros
            <4>6. Accounts(r, recorded'[x], starts)
                BY <1>1, <1>3, <3>1, <4>2 DEF Accounts, Pending
            <4> QED BY <3>1, <4>1, <4>3, <4>5, <4>6
        <3> QED BY <3>2, <3>3
    <2>2. CASE SnapshotEnds(x)
        <3> DEFINE r == [d EXCEPT !.durations = tally.observed, !.result = "ok", !.pc = "count"]
        <3>1. /\ d.pc = "snap" /\ d.result = "none" /\ recorded' = recorded /\ tally' = tally
              /\ Become(x, r)
            BY <1>2, <2>2 DEF SnapshotEnds, Accounts
        <3>2. /\ r.pc = "count" /\ r.result = "ok" /\ r.told = "none" /\ r.born = starts
              /\ r.late = d.late
            BY <1>1, <1>3 DEF ACall
        <3> HIDE DEF d, r
        <3>3. Stays(d, r, starts)
            BY <1>1, <1>3, <3>1, <3>2 DEF Stays, EndsWell, EndsIll, IsTimed, IsLate, IsTurned,
                                          Flagged, Refusals
        <3>4. /\ ~EndsWell(r, starts) /\ ~EndsIll(r, starts) /\ ~IsTimed(r, starts)
              /\ ~IsTurned(r, starts) /\ (IsLate(r, starts) => IsLate(d, starts))
            BY <1>1, <3>1, <3>2 DEF EndsWell, EndsIll, IsTimed, IsLate, IsTurned, Counted, Observed, Refusals
        <3>5. Moves(d, r, starts, tally')
            BY <1>1, <3>1, <3>4 DEF Moves, Tallies, Zeros
        <3>6. Accounts(r, recorded'[x], starts)
            BY <1>1, <1>3, <3>1, <3>2 DEF Accounts, Pending
        <3> QED BY <3>1, <3>3, <3>5, <3>6
    <2>3. CASE Count(x)
        <3> DEFINE r == [d EXCEPT !.pc = "observe"]
        <3>1. /\ d.pc = "count" /\ d.result # "none" /\ recorded' = recorded /\ Become(x, r)
              /\ tally' = IF Flagged(d.result) THEN [tally EXCEPT !.error = @ + 1]
                          ELSE [tally EXCEPT !.success = @ + 1]
            BY <1>2, <2>3 DEF Count, Accounts
        <3>2. /\ r.pc = "observe" /\ r.result = d.result /\ r.told = "none" /\ r.born = starts
              /\ r.late = d.late
            BY <1>1, <1>3 DEF ACall
        <3>3. d.result \in {"ok", "error"} /\ d.born = starts
            BY <1>1, <3>1 DEF ACall
        <3> HIDE DEF d, r
        <3>4. Stays(d, r, starts)
            BY <1>3, <3>1, <3>2 DEF Stays, EndsWell, EndsIll, IsTimed, IsLate, IsTurned, Counted,
                                    Observed, Refusals
        <3>5. /\ ~EndsWell(d, starts) /\ ~EndsIll(d, starts) /\ ~IsTimed(r, starts)
              /\ ~IsTurned(r, starts) /\ (IsLate(r, starts) => IsLate(d, starts))
              /\ EndsIll(r, starts) <=> Flagged(d.result)
              /\ EndsWell(r, starts) <=> ~Flagged(d.result)
            BY <3>1, <3>2, <3>3 DEF EndsWell, EndsIll, IsTimed, IsLate, IsTurned, Counted, Observed,
                                    Refusals, Flagged
        <3>6. Moves(d, r, starts, tally')
            <4>1. tally.rejects \in Nat /\ tally.timeouts \in Nat
                BY <1>1 DEF Tallies, Zeros
            <4> QED BY <1>1, <3>1, <3>5, <4>1 DEF Moves, Tallies, Zeros
        <3>7. Accounts(r, recorded'[x], starts)
            BY <1>1, <1>3, <3>1, <3>2 DEF Accounts, Pending
        <3> QED BY <3>1, <3>4, <3>6, <3>7
    <2>4. CASE Observe(x)
        <3> DEFINE r == [d EXCEPT !.pc = "tell"]
        <3>1. /\ d.pc = "observe" /\ d.result # "none" /\ recorded' = recorded /\ Become(x, r)
              /\ tally' = [tally EXCEPT !.observed = @ + 1]
            BY <1>2, <2>4 DEF Observe, Accounts
        <3>2. /\ r.pc = "tell" /\ r.result = d.result /\ r.told = "none" /\ r.born = starts
              /\ r.late = d.late
            BY <1>1, <1>3 DEF ACall
        <3> HIDE DEF d, r
        <3>3. Stays(d, r, starts)
            BY <1>3, <3>1, <3>2 DEF Stays, EndsWell, EndsIll, IsTimed, IsLate, IsTurned, Counted,
                                    Observed, Refusals
        <3>4. /\ IsTimed(r, starts) /\ ~IsTimed(d, starts)
              /\ ~IsTurned(r, starts) /\ (IsLate(r, starts) => IsLate(d, starts))
              /\ EndsIll(r, starts) => EndsIll(d, starts)
              /\ EndsWell(r, starts) => EndsWell(d, starts)
            BY <1>1, <3>1, <3>2 DEF EndsWell, EndsIll, IsTimed, IsLate, IsTurned, Counted, Observed,
                                    Refusals
        <3>5. Moves(d, r, starts, tally')
            BY <1>1, <3>1, <3>4 DEF Moves, Tallies, Zeros
        <3>6. Accounts(r, recorded'[x], starts)
            BY <1>1, <1>3, <3>1, <3>2 DEF Accounts, Pending
        <3> QED BY <3>1, <3>3, <3>5, <3>6
    <2>5. CASE Tell(x)
        <3> DEFINE reply == IF Flagged(d.result) THEN "error" ELSE "success"
                   r == Told(d, reply)
        <3>1. /\ d.pc = "tell" /\ d.result # "none" /\ tally' = tally /\ Become(x, r)
              /\ recorded' = [recorded EXCEPT ![x] = @ + 1]
            BY <1>2, <2>5 DEF Tell, Accounts
        <3>2. /\ r.pc = "done" /\ r.result = d.result /\ r.told = reply /\ r.born = starts
              /\ r.late = d.late
            BY <1>1, ToldKeeps DEF Replies
        <3>3. d.result \in {"ok", "error"} /\ d.born = starts
            BY <1>1, <3>1 DEF ACall
        <3>4. recorded'[x] = 1 /\ \A y \in Call : y # x => recorded'[y] = recorded[y]
            BY <1>1, <1>3, <3>1
        <3> HIDE DEF d, r
        <3>5. Stays(d, r, starts)
            BY <1>3, <3>1, <3>2, <3>3 DEF Stays, EndsWell, EndsIll, IsTimed, IsLate, IsTurned,
                                          Counted, Observed, Refusals
        <3>6. /\ ~IsTurned(r, starts) /\ (IsLate(r, starts) => IsLate(d, starts))
              /\ EndsIll(r, starts) => EndsIll(d, starts)
              /\ EndsWell(r, starts) => EndsWell(d, starts)
              /\ IsTimed(r, starts) => IsTimed(d, starts)
            BY <1>1, <3>1, <3>2 DEF EndsWell, EndsIll, IsTimed, IsLate, IsTurned, Counted, Observed,
                                    Refusals
        <3>7. Moves(d, r, starts, tally')
            BY <1>1, <3>1, <3>6 DEF Moves, Tallies, Zeros
        <3>8. Accounts(r, recorded'[x], starts)
            BY <1>1, <3>1, <3>2, <3>3, <3>4 DEF Accounts, Flagged, Pending
        <3> QED BY <3>1, <3>4, <3>5, <3>7, <3>8
    <2>6. CASE RequestTimesOut(x)
        <3> DEFINE r == [d EXCEPT !.late = TRUE]
        <3>1. /\ d.pc = "run" /\ d.result = "none" /\ recorded' = recorded /\ Become(x, r)
              /\ tally' = [tally EXCEPT !.timeouts = @ + 1]
            BY <1>2, <2>6 DEF RequestTimesOut, Accounts
        <3>2. /\ r.pc = "run" /\ r.result = "none" /\ r.told = "none" /\ r.born = starts
              /\ r.late
            BY <1>1, <1>3, <3>1 DEF ACall
        <3> HIDE DEF d, r
        <3>3. Stays(d, r, starts)
            BY <1>3, <3>1, <3>2 DEF Stays, EndsWell, EndsIll, IsTimed, IsLate, IsTurned, Flagged,
                                    Refusals
        <3>4. /\ ~EndsWell(r, starts) /\ ~EndsIll(r, starts) /\ ~IsTimed(r, starts)
              /\ ~IsTurned(r, starts) /\ IsLate(r, starts)
            BY <3>2 DEF EndsWell, EndsIll, IsTimed, IsLate, IsTurned, Flagged, Refusals
        <3>5. Moves(d, r, starts, tally')
            BY <1>1, <3>1, <3>4 DEF Moves, Tallies, Zeros
        <3>6. Accounts(r, recorded'[x], starts)
            BY <1>1, <1>3, <3>1, <3>2 DEF Accounts, Pending
        <3> QED BY <3>1, <3>3, <3>5, <3>6
    <2> QED BY <2>1, <2>2, <2>3, <2>4, <2>5, <2>6 DEF Tool, GoesOn
<1> HIDE DEF d
<1>5. PICK r : Fine(r)
    BY <1>4
<1>6. tally' \in Tallies
    BY <1>1, TallyTyped DEF Tool, RequestTimesOut, GoesOn, ToolEnds, SnapshotEnds,
       Count, Observe, Tell, d
<1> QED BY <1>1, <1>4, <1>5, <1>6, Tallying DEF d

(* A process that has no request of its own has counted none.              *)
LEMMA NothingTallied ==
    ASSUME tally' = Zeros, ~Serving', (boot.pc # "down" => starts > 0)',
           \A x \in Call : Accounts(call'[x], recorded'[x], starts'),
           \A x \in Call : ~Mine(x)' \/ (/\ call'[x].result = "none" /\ call'[x].told = "none"
                                           /\ ~call'[x].late)
    PROVE  TallyInv'
<1>1. /\ Well' \subseteq {} /\ Ill' \subseteq {} /\ Timed' \subseteq {}
      /\ Late' \subseteq {} /\ Turned' \subseteq {}
    BY DEF Well, Ill, Timed, Late, Turned, EndsWell, EndsIll, IsTimed, IsLate, IsTurned, Mine,
           Counted, Observed, Refusals, Flagged
<1>2. Counters'
    BY <1>1, NoneCounted DEF Counters, Zeros
<1> QED BY <1>2 DEF TallyInv, Accounted, Unused

LEMMA ProcessTallies ==
    ASSUME ServerInv, TallyInv, Boot \/ TimePasses \/ SessionEnds \/ Killed
    PROVE  TallyInv'
<1>1. \A x \in Call : Accounts(call[x], recorded[x], starts)
    BY DEF TallyInv, Accounted
<1>2. starts \in Nat /\ \A x \in Call : call[x] \in ACall
    BY DEF ServerInv, TypeOK, StartupTypeOK
<1>3. CASE Boot /\ Start
    <2>1. starts' = starts + 1 /\ boot.pc = "down" /\ UNCHANGED <<call, tally, recorded>>
        BY <1>3 DEF Boot, Start, rvars
    <2>2. ~Serving'
        BY <1>3 DEF Start, Begun, Serving, Down
    <2>3. tally' = Zeros
        BY <2>1 DEF TallyInv, Unused, Serving
    <2>4. \A x \in Call : call[x].born \in Nat /\ call[x].born <= starts
        BY <1>1, <1>2 DEF Accounts, ACall
    <2>5. \A x \in Call : ~Mine(x)'
        BY <1>2, <2>1, <2>4 DEF Mine
    <2>6. \A x \in Call : Accounts(call'[x], recorded'[x], starts')
        BY <1>1, <1>2, <2>1, <2>4 DEF Accounts
    <2>7. starts' > 0
        BY <1>2, <2>1
    <2> QED BY <2>2, <2>3, <2>5, <2>6, <2>7, NothingTallied
<1>4. CASE Boot /\ ~Start
    <2>1. /\ ~Serving /\ UNCHANGED <<call, tally, recorded, starts>>
          /\ boot'.pc # "down" => boot.pc # "down"
        BY <1>4 DEF Boot, Boots, ReadGate, ReadExe, ReadText, CannotRead, SetUp, WriteFile,
                    Serving, Reading, rvars
    <2>2. Unused' /\ (\A x \in Call : Accounted(x)') /\ Counters'
        BY <1>1, <2>1 DEF TallyInv, Unused, Mine, Accounted, Counters, Well, Ill, Timed, Late, Turned
    <2> QED BY <2>1, <2>2 DEF TallyInv
<1>5. CASE TimePasses \/ SessionEnds
    <2>1. UNCHANGED <<boot, call, tally, recorded, starts>>
        BY <1>5 DEF TimePasses, SessionEnds, Tick, svars
    <2> QED BY <2>1 DEF TallyInv, Unused, Mine, Accounted, Counters, Well, Ill, Timed, Late, Turned,
                        Serving
<1>6. CASE Killed
    <2>1. /\ starts' = starts /\ starts > 0 /\ ~Serving' /\ tally' = Zeros /\ recorded' = recorded
        BY <1>6 DEF Killed, Exit, TallyInv, Serving, Down
    <2>2. ASSUME NEW x \in Call
          PROVE  call'[x].born = 0 /\ Accounts(call'[x], recorded[x], starts)
        <3>1. CASE UnderWay(x)
            <4>1. call'[x] = Gone
                BY <1>6, <3>1 DEF Killed
            <4>2. recorded[x] = 0
                BY <1>1, <3>1 DEF Accounts, UnderWay, Over
            <4> QED BY <1>2, <4>1, <4>2 DEF Gone, Idle, Accounts, Pending
        <3>2. CASE ~UnderWay(x)
            <4>1. call'[x] = [Idle EXCEPT !.pc = call[x].pc, !.result = call[x].result]
                BY <1>6, <3>2 DEF Killed
            <4>2. /\ call'[x].pc = call[x].pc /\ call'[x].result = call[x].result
                  /\ call'[x].told = "none" /\ call'[x].born = 0 /\ ~call'[x].late
                BY <4>1 DEF Idle
            <4> QED BY <1>1, <1>2, <4>2 DEF Accounts
        <3> QED BY <3>1, <3>2
    <2>3. \A x \in Call : ~Mine(x)'
        BY <1>2, <2>1, <2>2 DEF Mine
    <2> QED BY <2>1, <2>2, <2>3, NothingTallied
<1> QED BY <1>3, <1>4, <1>5, <1>6

LEMMA TallyInvInitially ==
    ASSUME Init
    PROVE  TallyInv
<1>1. /\ boot.pc = "down" /\ starts = 0 /\ tally = Zeros
      /\ \A x \in Call : call[x] = Idle /\ recorded[x] = 0
    BY DEF Init, StartupInit, Down
<1>2. \A x \in Call : Accounted(x)
    BY <1>1 DEF Accounted, Accounts, Idle
<1>3. /\ Well \subseteq {} /\ Ill \subseteq {} /\ Timed \subseteq {}
      /\ Late \subseteq {} /\ Turned \subseteq {}
    BY <1>1 DEF Well, Ill, Timed, Late, Turned, EndsWell, EndsIll, IsTimed, IsLate, IsTurned,
                Idle, Counted, Observed, Refusals, Flagged
<1>4. Counters
    BY <1>1, <1>3, NoneCounted DEF Counters, Zeros
<1> QED BY <1>1, <1>2, <1>4 DEF TallyInv, Unused, Serving, Idle

LEMMA TallyInvInductive ==
    ASSUME ServerInv, TallyInv, [Next]_vars
    PROVE  TallyInv'
<1>1. ASSUME NEW x \in Call,
             \/ Receive(x) \/ Authenticated(x) \/ Dropped(x) \/ Routed(x) \/ Handed(x) \/ Tool(x)
      PROVE  TallyInv'
    BY <1>1, ReceiveTallies, AuthenticatedTallies, DroppedTallies, RoutedTallies, HandedTallies,
       ToolTallies
<1>2. CASE UNCHANGED vars
    BY <1>2 DEF vars, rvars, svars, TallyInv, Unused, Mine, Accounted, Counters, Well, Ill, Timed,
                Late, Turned, Serving
<1> QED BY <1>1, <1>2, ProcessTallies DEF Next

LEMMA TallyInvAlways == Spec => [](ServerInv /\ TallyInv)
<1>1. Init => TallyInv
    BY TallyInvInitially
<1>2. ServerInv /\ TallyInv /\ [Next]_vars => TallyInv'
    BY TallyInvInductive
<1> QED BY <1>1, <1>2, ServerInvAlways, PTL DEF Spec

LEMMA Apart ==
    ASSUME NEW S \in SUBSET Call, NEW T \in SUBSET Call, S \cap T \subseteq {}
    PROVE  Cardinality(S \cup T) = Cardinality(S) + Cardinality(T)
<1>1. IsFiniteSet(S) /\ IsFiniteSet(T)
    BY CallAssumption, FS_Subset
<1>2. Cardinality(S \cap T) = 0
    BY NoneCounted
<1>3. Cardinality(S) \in Nat /\ Cardinality(T) \in Nat
    BY CountsAreNumbers
<1>4. Cardinality(S \cup T) = Cardinality(S) + Cardinality(T) - Cardinality(S \cap T)
    BY <1>1, FS_Union
<1> QED BY <1>2, <1>3, <1>4

LEMMA Fewer ==
    ASSUME NEW S, NEW T \in SUBSET Call, S \subseteq T
    PROVE  /\ Cardinality(S) \in Nat /\ Cardinality(T) \in Nat
           /\ Cardinality(S) <= Cardinality(T)
<1>1. IsFiniteSet(T)
    BY CallAssumption, FS_Subset
<1> QED BY <1>1, CountsAreNumbers, FS_Subset

(* The metrics count each call and each rejection of the process exactly   *)
(* once, and its audit entries too, and no call that met a timeout is      *)
(* missing from the counter of those, for any number of requests           *)
(* (server.rs 206-250, metrics.rs 168-173, gateway.rs 137-145, main.rs     *)
(* 902).                                                                   *)
THEOREM MetricsAccountForRequests == Spec => []TalliesAgree
<1>1. ServerInv /\ TallyInv => TalliesAgree
    <2> SUFFICES ASSUME ServerInv, TallyInv
                 PROVE  TalliesAgree
        OBVIOUS
    <2>1. \A x \in Call : call[x] \in ACall /\ Accounts(call[x], recorded[x], starts)
        BY DEF ServerInv, TypeOK, TallyInv, Accounted
    <2> DEFINE mine == {x \in Call : Mine(x)}
               Called == {x \in Call : call[x].result # "none" /\ call[x].pc \in Counted} \cap mine
    <2>2. Called = Well \cup Ill /\ Well \cap Ill \subseteq {}
        BY <2>1 DEF Well, Ill, EndsWell, EndsIll, Mine, Counted, Flagged, ACall
    <2>3. tally.success + tally.error = Cardinality(Called)
        <3>1. Well \in SUBSET Call /\ Ill \in SUBSET Call
            BY DEF Well, Ill
        <3> QED BY <2>2, <3>1, Apart DEF TallyInv, Counters
    <2>4. {x \in Call : call[x].result # "none" /\ call[x].pc \in Observed} \cap mine = Timed
        BY DEF Timed, IsTimed, Mine, Observed
    <2>5. {x \in Call : call[x].late} \cap mine = Late
        BY DEF Late, IsLate, Mine
    <2>6. {x \in Call : call[x].told \in Refusals} \cap mine = Turned
        BY DEF Turned, IsTurned, Mine
    <2>7. /\ {x \in Call : call[x].told = "success"} \cap mine \subseteq Well
          /\ {x \in Call : call[x].told = "error"} \cap mine \subseteq Ill
        BY <2>1 DEF Well, Ill, EndsWell, EndsIll, Mine, Counted, Accounts
    <2>8. /\ Cardinality({x \in Call : call[x].told = "success"} \cap mine) <= Cardinality(Well)
          /\ Cardinality({x \in Call : call[x].told = "error"} \cap mine) <= Cardinality(Ill)
        BY <2>7, Fewer DEF Well, Ill
    <2>9. \A x \in Call :
              /\ recorded[x] <= 1
              /\ call[x].pc = "done" => recorded[x] = IF call[x].result = "none" THEN 0 ELSE 1
        BY <2>1 DEF Accounts
    <2>10. Counters
        BY DEF TallyInv
    <2> QED BY <2>3, <2>4, <2>5, <2>6, <2>8, <2>9, <2>10
            DEF TalliesAgree, Counters, Refusals
<1> QED BY <1>1, TallyInvAlways, PTL

-----------------------------------------------------------------------------
(* Snapshots.  While one is taken the answered calls and the counters only *)
(* grow, so that what it reads of each lies between the calls answered     *)
(* before and those over by its end.                                       *)

Surveyed(x) ==
    LET d == call[x]
        from == span[x].from
        to == span[x].to
    IN  /\ ~Serving => from = 0
        /\ from <= Cardinality(Answered)
        /\ d.pc = "snap" => from <= d.calls /\ d.calls <= tally.success + tally.error
        /\ d.ask # NoAsk /\ d.result # "none" /\ d.ask.body = "snapshot" =>
               /\ from <= d.calls /\ d.calls <= to
               /\ from <= d.durations /\ d.durations <= to

SnapInv == \A x \in Call : Surveyed(x)

LEMMA AnsweredAreCounted ==
    ASSUME ServerInv, TallyInv
    PROVE  /\ Cardinality(Answered) \in Nat /\ Cardinality(Ended) \in Nat
           /\ tally.observed \in Nat /\ tally.success + tally.error \in Nat
           /\ Cardinality(Answered) <= tally.observed
           /\ tally.observed <= tally.success + tally.error
           /\ tally.success + tally.error <= Cardinality(Ended)
<1>1. \A x \in Call : call[x] \in ACall /\ Accounts(call[x], recorded[x], starts)
    BY DEF ServerInv, TypeOK, TallyInv, Accounted
<1>2. Well \in SUBSET Call /\ Ill \in SUBSET Call /\ Well \cap Ill \subseteq {}
    BY DEF Well, Ill, EndsWell, EndsIll, Flagged
<1>3. Timed \subseteq Well \cup Ill
    BY <1>1 DEF Timed, Well, Ill, IsTimed, EndsWell, EndsIll, Flagged, ACall, Counted, Observed
<1>4. Well \cup Ill \subseteq Ended
    BY DEF Ended, Well, Ill, EndsWell, EndsIll, Flagged, Counted
<1>5. Answered \subseteq Timed
    BY DEF Answered, Timed, IsTimed, Observed
<1>6. tally.success + tally.error = Cardinality(Well \cup Ill)
    BY <1>2, Apart DEF TallyInv, Counters
<1>7. tally.observed = Cardinality(Timed)
    BY DEF TallyInv, Counters
<1>8. Timed \in SUBSET Call /\ Ended \in SUBSET Call /\ Well \cup Ill \in SUBSET Call
    BY <1>2 DEF Timed, Ended
<1> QED BY <1>3, <1>4, <1>5, <1>6, <1>7, <1>8, Fewer

(* What every step of a request leaves alone, and what it only adds to.    *)
Grows(x) ==
    /\ UNCHANGED <<boot, starts>> /\ Serving /\ call[x].pc # "done"
    /\ \A y \in Call : y # x => call'[y] = call[y] /\ span'[y] = span[y]
    /\ span'[x].from \in {span[x].from, Cardinality(Answered)}
    /\ tally.success + tally.error <= tally'.success + tally'.error

LEMMA TalliesGrow ==
    ASSUME tally \in Tallies,
           \/ tally' = tally
           \/ tally' = [tally EXCEPT !.rejects = @ + 1]
           \/ tally' = [tally EXCEPT !.timeouts = @ + 1]
           \/ tally' = [tally EXCEPT !.success = @ + 1]
           \/ tally' = [tally EXCEPT !.error = @ + 1]
           \/ tally' = [tally EXCEPT !.observed = @ + 1]
    PROVE  tally.success + tally.error <= tally'.success + tally'.error
    BY DEF Tallies, Zeros

LEMMA RequestGrows ==
    ASSUME ServerInv, NEW x \in Call,
           \/ Receive(x) \/ Authenticated(x) \/ Dropped(x) \/ Routed(x) \/ Handed(x) \/ Tool(x)
    PROVE  Grows(x)
<1>1. tally \in Tallies /\ span \in Spans
    BY DEF ServerInv, TypeOK, Tallies, Spans
<1>2. \A y \in Call : y # x => call'[y] = call[y]
    BY ReceiveKeeps, AuthenticatedKeeps, DroppedKeeps, RoutedKeeps, HandedKeeps, ToolKeeps
<1>3. /\ UNCHANGED <<boot, starts>> /\ call[x].pc \notin {"done", "dropped"}
      /\ call[x].pc = "idle" => Serving
    BY DEF Receive, Request, Authenticated, Dropped, Routed, Handed, Tool,
       RequestTimesOut, GoesOn, ToolEnds, SnapshotEnds,
           Count, Observe, Tell, svars
<1>4. Serving
    BY <1>3 DEF ServerInv, TypeOK, UnderWay, Over
<1>5. \/ span' = span \/ span' = [span EXCEPT ![x].from = Cardinality(Answered)]
      \/ span' = [span EXCEPT ![x].to = Cardinality(Ended)]
    <2>1. CASE Handed(x)
        BY <2>1 DEF Handed, Takes
    <2>2. CASE Tool(x)
        BY <2>2 DEF Tool, RequestTimesOut, GoesOn, ToolEnds, SnapshotEnds, Count, Observe, Tell
    <2>3. CASE Receive(x) \/ Authenticated(x) \/ Dropped(x) \/ Routed(x)
        BY <2>3 DEF Receive, Authenticated, Dropped, Routed
    <2> QED BY <2>1, <2>2, <2>3
<1>6. \/ tally' = tally
      \/ tally' = [tally EXCEPT !.rejects = @ + 1]
      \/ tally' = [tally EXCEPT !.timeouts = @ + 1]
      \/ tally' = [tally EXCEPT !.success = @ + 1]
      \/ tally' = [tally EXCEPT !.error = @ + 1]
      \/ tally' = [tally EXCEPT !.observed = @ + 1]
    <2>1. CASE Receive(x)
        BY <2>1 DEF Receive, Rejected
    <2>2. CASE Authenticated(x)
        <3>1. PICK v : IF v = "ok" THEN UNCHANGED tally ELSE Rejected(x, call[x], v)
            BY <2>2 DEF Authenticated
        <3> QED BY <3>1 DEF Rejected
    <2>3. CASE Dropped(x) \/ Routed(x) \/ Handed(x)
        BY <2>3 DEF Dropped, Routed, Handed
    <2>4. CASE Tool(x)
        BY <2>4 DEF Tool, RequestTimesOut, GoesOn, ToolEnds, SnapshotEnds, Count, Observe, Tell
    <2> QED BY <2>1, <2>2, <2>3, <2>4
<1>7. tally.success + tally.error <= tally'.success + tally'.error
    BY <1>1, <1>6, TalliesGrow
<1>8. /\ \A y \in Call : y # x => span'[y] = span[y]
      /\ span'[x].from \in {span[x].from, Cardinality(Answered)}
    BY <1>1, <1>5 DEF Spans
<1> QED BY <1>2, <1>3, <1>4, <1>7, <1>8 DEF Grows

LEMMA AnsweredGrows ==
    ASSUME NEW x \in Call, Grows(x)
    PROVE  /\ Cardinality(Answered) \in Nat /\ Cardinality(Answered') \in Nat
           /\ Cardinality(Answered) <= Cardinality(Answered')
<1>1. Answered \subseteq Answered' /\ Answered' \in SUBSET Call
    BY DEF Grows, Answered
<1> QED BY <1>1, Fewer

(* The request's own step, by what it does to what it has read.            *)
LEMMA SurveyGoesOn ==
    ASSUME ServerInv, TallyInv, SnapInv, NEW x \in Call, Grows(x),
           \/ HasNoResult(x)'
           \/ Tool(x)
    PROVE  Surveyed(x)'
<1> DEFINE d == call[x]
<1>1. /\ Surveyed(x) /\ d \in ACall /\ span \in Spans /\ tally \in Tallies
    BY DEF SnapInv, ServerInv, TypeOK, Spans, Tallies
<1>2. /\ Cardinality(Answered) \in Nat /\ Cardinality(Answered') \in Nat
      /\ Cardinality(Answered) <= Cardinality(Answered')
    BY AnsweredGrows
<1>3. span'[x].from <= Cardinality(Answered') /\ Serving'
    <2>1. span[x].from \in Nat /\ span[x].from <= Cardinality(Answered)
        BY <1>1 DEF Surveyed, Spans
    <2> QED BY <1>2, <2>1 DEF Grows, Serving
<1>4. CASE HasNoResult(x)'
    BY <1>3, <1>4 DEF Surveyed, HasNoResult
<1>5. CASE ToolEnds(x) /\ d.ask.body # "snapshot"
    <2>1. PICK result : Become(x, [d EXCEPT !.result = result, !.pc = "count"])
        BY <1>5 DEF ToolEnds
    <2>2. call'[x] = [d EXCEPT !.result = result, !.pc = "count"]
        BY <2>1, Others
    <2>3. call'[x].pc = "count" /\ call'[x].ask.body # "snapshot"
        BY <1>1, <1>5, <2>2 DEF ACall
    <2> HIDE DEF d
    <2> QED BY <1>3, <2>3 DEF Surveyed
<1>6. CASE ToolEnds(x) /\ d.ask.body = "snapshot"
    <2>1. /\ d.pc = "run" /\ span' = span /\ tally' = tally
          /\ Become(x, [d EXCEPT !.calls = tally.success + tally.error, !.pc = "snap"])
        BY <1>6 DEF ToolEnds
    <2>2. /\ call'[x].pc = "snap" /\ call'[x].result = d.result
          /\ call'[x].calls = tally.success + tally.error
        <3>1. call'[x] = [d EXCEPT !.calls = tally.success + tally.error, !.pc = "snap"]
            BY <2>1, Others
        <3> QED BY <1>1, <3>1 DEF ACall
    <2>3. d.result = "none"
        BY <2>1 DEF TallyInv, Accounted, Accounts
    <2>4. /\ span[x].from \in Nat /\ span[x].from <= Cardinality(Answered)
          /\ tally.success + tally.error \in Nat
          /\ Cardinality(Answered) <= tally.success + tally.error
        BY <1>1, AnsweredAreCounted DEF Surveyed, Spans
    <2> HIDE DEF d
    <2> QED BY <1>2, <1>3, <2>1, <2>2, <2>3, <2>4 DEF Surveyed
<1>7. CASE SnapshotEnds(x)
    <2>1. /\ d.pc = "snap" /\ span' = [span EXCEPT ![x].to = Cardinality(Ended)]
          /\ Become(x, [d EXCEPT !.durations = tally.observed, !.result = "ok", !.pc = "count"])
        BY <1>7 DEF SnapshotEnds
    <2>2. /\ call'[x].pc = "count" /\ call'[x].calls = d.calls
          /\ call'[x].durations = tally.observed
        <3>1. call'[x] = [d EXCEPT !.durations = tally.observed, !.result = "ok", !.pc = "count"]
            BY <2>1, Others
        <3> QED BY <1>1, <3>1 DEF ACall
    <2>3. span'[x].from = span[x].from /\ span'[x].to = Cardinality(Ended)
        BY <1>1, <2>1 DEF Spans
    <2>4. /\ span[x].from \in Nat /\ span[x].from <= Cardinality(Answered)
          /\ d.calls \in Nat /\ span[x].from <= d.calls /\ d.calls <= tally.success + tally.error
        BY <1>1, <2>1 DEF Surveyed, Spans, ACall
    <2> HIDE DEF d
    <2>5. /\ span'[x].from <= d.calls /\ d.calls <= span'[x].to
          /\ span'[x].from <= tally.observed /\ tally.observed <= span'[x].to
        BY <2>3, <2>4, AnsweredAreCounted
    <2> QED BY <1>3, <2>2, <2>5 DEF Surveyed
<1>8. CASE Count(x) \/ Observe(x) \/ Tell(x)
    <2>1. d.pc \in {"count", "observe", "tell"} /\ span' = span
        BY <1>8 DEF Count, Observe, Tell
    <2>2. PICK r : /\ Become(x, r) /\ r.pc # "snap" /\ r.result = d.result /\ r.ask = d.ask
                   /\ r.calls = d.calls /\ r.durations = d.durations
        <3>1. CASE Count(x) \/ Observe(x)
            <4>1. PICK pc \in {"observe", "tell"} : Become(x, [d EXCEPT !.pc = pc])
                BY <3>1 DEF Count, Observe
            <4>2. LET r == [d EXCEPT !.pc = pc]
                  IN  /\ r.pc # "snap" /\ r.result = d.result /\ r.ask = d.ask
                      /\ r.calls = d.calls /\ r.durations = d.durations
                BY <1>1 DEF ACall
            <4> QED BY <4>1, <4>2
        <3>2. CASE Tell(x)
            <4>1. PICK reply : Become(x, Told(d, reply))
                BY <3>2 DEF Tell
            <4>2. LET r == Told(d, reply)
                  IN  /\ r.pc # "snap" /\ r.result = d.result /\ r.ask = d.ask
                      /\ r.calls = d.calls /\ r.durations = d.durations
                BY <1>1 DEF ACall, Told
            <4> QED BY <4>1, <4>2
        <3> QED BY <1>8, <3>1, <3>2
    <2>3. call'[x] = r
        BY <2>2, Others
    <2>4. d.result # "none" => (d.ask # NoAsk /\ d.ask.body = "snapshot" =>
               /\ span[x].from <= d.calls /\ d.calls <= span[x].to
               /\ span[x].from <= d.durations /\ d.durations <= span[x].to)
        BY <1>1 DEF Surveyed
    <2> HIDE DEF d
    <2> QED BY <1>3, <2>1, <2>2, <2>3, <2>4 DEF Surveyed
<1>9. CASE RequestTimesOut(x)
    <2>1. Become(x, [d EXCEPT !.late = TRUE]) /\ d.ask.body # "snapshot" /\ d.pc = "run"
        BY <1>9 DEF RequestTimesOut
    <2>2. call'[x] = [d EXCEPT !.late = TRUE]
        BY <2>1, Others
    <2>3. call'[x].pc = "run" /\ call'[x].ask.body # "snapshot"
        BY <1>1, <2>1, <2>2 DEF ACall
    <2> HIDE DEF d
    <2> QED BY <1>3, <2>3 DEF Surveyed
<1> QED BY <1>4, <1>5, <1>6, <1>7, <1>8, <1>9 DEF Tool, GoesOn

LEMMA RequestSurveys ==
    ASSUME ServerInv, TallyInv, SnapInv, NEW x \in Call,
           \/ Receive(x) \/ Authenticated(x) \/ Dropped(x) \/ Routed(x) \/ Handed(x) \/ Tool(x)
    PROVE  SnapInv'
<1>1. Grows(x)
    BY RequestGrows
<1>2. HasNoResult(x)' \/ Tool(x)
    BY ReceiveTallies, AuthenticatedTallies, DroppedTallies, RoutedTallies, HandedTallies
<1>3. Surveyed(x)'
    BY <1>1, <1>2, SurveyGoesOn
<1>4. ASSUME NEW y \in Call, y # x
      PROVE  Surveyed(y)'
    <2>1. /\ Surveyed(y) /\ span[y] \in [from : Nat, to : Nat] /\ call[y] \in ACall
          /\ tally.success + tally.error \in Nat
        BY AnsweredAreCounted DEF SnapInv, ServerInv, TypeOK
    <2>2. call'[y] = call[y] /\ span'[y] = span[y] /\ Serving'
        BY <1>1, <1>4 DEF Grows, Serving
    <2>3. /\ Cardinality(Answered) \in Nat /\ Cardinality(Answered') \in Nat
          /\ Cardinality(Answered) <= Cardinality(Answered')
        BY <1>1, AnsweredGrows
    <2>4. span'[y].from <= Cardinality(Answered')
        BY <2>1, <2>2, <2>3 DEF Surveyed
    <2>5. tally'.success + tally'.error \in Nat
        <3>1. TypeOK'
            BY ServerInvInductive DEF Next, ServerInv
        <3> QED BY <3>1 DEF TypeOK, Zeros
    <2>6. call[y].pc = "snap" => call[y].calls <= tally'.success + tally'.error
        <3>1. call[y].calls \in Nat
            BY <2>1 DEF ACall
        <3>2. tally.success + tally.error <= tally'.success + tally'.error
            BY <1>1 DEF Grows
        <3>3. call[y].pc = "snap" => call[y].calls <= tally.success + tally.error
            BY <2>1 DEF Surveyed
        <3> QED BY <2>1, <2>5, <3>1, <3>2, <3>3
    <2> QED BY <2>1, <2>2, <2>4, <2>6 DEF Surveyed
<1> QED BY <1>3, <1>4 DEF SnapInv

LEMMA ProcessSurveys ==
    ASSUME ServerInv, SnapInv, Boot \/ TimePasses \/ SessionEnds \/ Killed
    PROVE  SnapInv'
<1>1. CASE Boot
    <2>1. \/ ~Serving /\ UNCHANGED <<call, span, tally>>
          \/ UNCHANGED <<boot, starts, call, span, tally>>
        BY <1>1 DEF Boot, Start, Boots, ReadGate, ReadExe, ReadText, CannotRead, SetUp, WriteFile,
                    Reading, Serving, rvars
    <2>2. CASE UNCHANGED <<boot, starts, call, span, tally>>
        BY <2>2 DEF SnapInv, Surveyed, Serving, Answered
    <2>3. CASE ~Serving /\ UNCHANGED <<call, span, tally>>
        <3>1. Cardinality(Answered') \in Nat
            <4>1. Answered' \in SUBSET Call
                BY DEF Answered
            <4> QED BY <4>1, CountsAreNumbers
        <3>2. ASSUME NEW x \in Call
              PROVE  Surveyed(x)'
            <4>1. Surveyed(x) /\ span[x].from = 0 /\ call[x].pc # "snap"
                BY <2>3 DEF SnapInv, Surveyed, ServerInv, TypeOK, UnderWay, Over
            <4> QED BY <2>3, <3>1, <4>1 DEF Surveyed
        <3> QED BY <3>2 DEF SnapInv
    <2> QED BY <2>1, <2>2, <2>3
<1>2. CASE TimePasses \/ SessionEnds
    <2>1. UNCHANGED <<boot, call, tally, span, starts>>
        BY <1>2 DEF TimePasses, SessionEnds, Tick, svars
    <2> QED BY <2>1 DEF SnapInv, Surveyed, Serving, Answered
<1>3. CASE Killed
    <2>1. Cardinality(Answered') \in Nat
        <3>1. Answered' \in SUBSET Call
            BY DEF Answered
        <3> QED BY <3>1, CountsAreNumbers
    <2>2. ASSUME NEW x \in Call
          PROVE  call'[x].pc # "snap" /\ call'[x].ask = NoAsk /\ span'[x].from = 0
        <3>1. span'[x] = NoSpan
            BY <1>3 DEF Killed
        <3>2. call'[x] = IF UnderWay(x) THEN Gone
                         ELSE [Idle EXCEPT !.pc = call[x].pc, !.result = call[x].result]
            BY <1>3 DEF Killed
        <3> QED BY <3>1, <3>2 DEF NoSpan, Gone, Idle, UnderWay, Over
    <2> QED BY <2>1, <2>2 DEF SnapInv, Surveyed
<1> QED BY <1>1, <1>2, <1>3

LEMMA SnapInvAlways == Spec => []SnapInv
<1>1. Init => SnapInv
    <2> SUFFICES ASSUME Init, NEW x \in Call
                 PROVE  Surveyed(x)
        BY DEF SnapInv
    <2>1. Answered \in SUBSET Call
        BY DEF Answered
    <2>2. Cardinality(Answered) \in Nat
        BY <2>1, CountsAreNumbers
    <2> QED BY <2>2 DEF Init, Surveyed, Idle, NoSpan
<1>2. ServerInv /\ TallyInv /\ SnapInv /\ [Next]_vars => SnapInv'
    <2>1. ASSUME SnapInv, UNCHANGED vars
          PROVE  SnapInv'
        BY <2>1 DEF vars, rvars, svars, SnapInv, Surveyed, Serving, Answered
    <2> QED BY <2>1, RequestSurveys, ProcessSurveys DEF Next
<1> QED BY <1>1, <1>2, TallyInvAlways, PTL DEF Spec

(* A snapshot accounts for every call answered before it was asked for and *)
(* for none that was not over, though the counters and the histogram are   *)
(* read under locks of their own (metrics.rs 168-173).                     *)
THEOREM SnapshotsAccountForCalls == Spec => []SnapshotAccountsForCalls
<1>1. SnapInv => SnapshotAccountsForCalls
    BY DEF SnapInv, Surveyed, SnapshotAccountsForCalls
<1> QED BY <1>1, SnapInvAlways, PTL
=============================================================================
