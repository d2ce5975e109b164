---------------------------- MODULE MCMcpServer -----------------------------
(* Instance of McpServer: two requests, one session, two processes.        *)
EXTENDS McpServer

(* Production settings that are accepted, and what varies around them.     *)
Sound ==
    [production |-> TRUE, mode |-> "unset", profile |-> "unset", json |-> TRUE,
     bypass |-> FALSE, reason |-> FALSE, ttl |-> 0, prod_bypass |-> FALSE,
     store |-> "off", resume |-> "historyless", stateless |-> TRUE, oauth |-> TRUE,
     open |-> FALSE, open_reason |-> FALSE, open_ttl |-> 0,
     dpop |-> FALSE, cert |-> FALSE, azp |-> {"app"}, clients |-> {}]
Bypassed == [Sound EXCEPT !.bypass = TRUE, !.reason = TRUE, !.ttl = 1, !.prod_bypass = TRUE]

TheSettings ==
    {Sound,
     \* replay from a file, without the stateless fallback
     [Bypassed EXCEPT !.store = "sqlite", !.resume = "replay", !.stateless = FALSE],
     \* break-glass, mTLS
     [Bypassed EXCEPT !.azp = {}, !.open = TRUE, !.open_reason = TRUE, !.open_ttl = 1,
                      !.cert = TRUE, !.stateless = FALSE],
     \* a developer's machine without admission, and a gate of another kind
     [Sound EXCEPT !.production = FALSE, !.mode = "off"],
     [Sound EXCEPT !.mode = "strict", !.json = FALSE, !.azp = {}, !.clients = {"app"}],
     \* the defaults of a developer's machine, with an unsupported wish
     [Sound EXCEPT !.production = FALSE, !.dpop = TRUE],
     \* refused: open lists, replay without a store, a bypass not allowed for
     [Sound EXCEPT !.azp = {}], [Sound EXCEPT !.resume = "replay"],
     [Bypassed EXCEPT !.prod_bypass = FALSE]}

TheArtifacts ==
    {[build |-> "b1", level |-> "standard", pass |-> TRUE, sound |-> TRUE, expires |-> 0],
     [build |-> "b2", level |-> "standard", pass |-> TRUE, sound |-> TRUE, expires |-> 1],
     [build |-> "b1", level |-> "fast", pass |-> FALSE, sound |-> TRUE, expires |-> 1]}

Usual ==
    [method |-> "POST", session |-> NoSession, body |-> "call", last |-> FALSE, tidy |-> TRUE,
     cert |-> TRUE, good |-> TRUE, dated |-> TRUE, exp |-> 1, azp |-> "app", client |-> "app"]
InSession == [Usual EXCEPT !.session = "n1"]

TheAsks ==
    {Usual, [Usual EXCEPT !.body = "initialize", !.dated = FALSE, !.exp = 0],
     [Usual EXCEPT !.body = "snapshot"], InSession, [InSession EXCEPT !.method = "GET", !.last = TRUE],
     [InSession EXCEPT !.method = "DELETE"],
     [Usual EXCEPT !.body = "big", !.azp = "other"], [Usual EXCEPT !.method = "PUT", !.exp = 0],
     [Usual EXCEPT !.cert = FALSE, !.azp = "other", !.client = "other"],
     [Usual EXCEPT !.good = FALSE], [Usual EXCEPT !.tidy = FALSE]}
=============================================================================
