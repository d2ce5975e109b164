-------------------------- MODULE MCClientChanges ---------------------------
(* Instance of ClientChanges: two calls of either kind at a time, two      *)
(* clients, two scopes.                                                    *)
EXTENDS ClientChanges

Asks(tool, kind, asked, dry) ==
    [tool |-> tool, client |-> "c1", kind |-> kind, asked |-> asked, dry |-> dry,
     allow_empty |-> TRUE, confirm |-> TRUE]

(* Each tool with something to add, to remove, to keep; both kinds; dry    *)
(* runs; and one call that its early returns refuse.                       *)
TheRequests ==
    {Asks("add", "default", {"s1", "s2"}, FALSE), Asks("delete", "default", {"s1"}, FALSE),
     Asks("replace", "default", {"s2"}, FALSE), Asks("replace", "default", {}, FALSE),
     Asks("replace", "optional", {"s2"}, FALSE),
     Asks("ensure_bound", "default", {"s1"}, FALSE),
     Asks("ensure_unbound", "default", {"s1"}, FALSE),
     Asks("replace", "default", {"s2"}, TRUE), Asks("ensure_unbound", "default", {"s1"}, TRUE),
     Asks("add", "optional", {}, FALSE)}

Bulk(updates, dry) ==
    [tool |-> "bulk_update", updates |-> updates, dry |-> dry, confirm |-> TRUE]
Up(c, by, change) == [client |-> c, by |-> by, change |-> change]
Sweep(action, max, limit, exclude, dry) ==
    [tool |-> "prune", action |-> action, max |-> max, limit |-> limit,
     exclude |-> exclude, dry |-> dry, confirm |-> TRUE]

TheJobs ==
    {Bulk(<<Up("c1", "client_id", "disable"), Up("c1", "id", "enable")>>, FALSE),
     Bulk(<<Up("c1", "id", "untag"), Up(Unnamed, "id", "tag"), Up("c2", "client_id", "tag")>>, FALSE),
     Bulk(<<Up("c2", "id", "nothing"), Up("c2", "id", "disable")>>, TRUE),
     Bulk(<<>>, FALSE),
     Sweep("delete", 2, 1, {}, FALSE), Sweep("disable", 2, 2, {"c2"}, FALSE),
     Sweep("delete", 2, 2, {}, TRUE)}

OfC1(b) == [c \in Client |-> IF c = "c1" THEN b ELSE Unbound]
TheStart ==
    {<<Client, Client, Client, OfC1([default |-> {"s1"}, optional |-> {"s1", "s2"}])>>,
     <<Client, Client, {"c1"}, OfC1([default |-> {}, optional |-> {"s1"}])>>}
=============================================================================
