----------------------------- MODULE AdminGate ------------------------------
(***************************************************************************)
(* What the gateway promises about an admin request, without its tokens,   *)
(* checks and awaits.  A request is admitted or not, and only while the    *)
(* gate is open, which once closed opens again for a new process alone;    *)
(* only once admitted is it forwarded, and only once; and what the caller  *)
(* is told never contradicts what became of it: "refused" means that       *)
(* nothing was or ever will be changed on its behalf, "served" that it was *)
(* carried out, and "failed" leaves it open.                               *)
(***************************************************************************)
EXTENDS Naturals

CONSTANTS Requests

VARIABLES
    open,   \* new requests may be admitted
    fate,   \* what has become of each request
    told,   \* what its caller has been told
    process \* the process that keeps the gate: how many came before it

gateVars == <<open, fate, told, process>>

Fates == {"new", "admitted", "forwarded", "done", "declined"}
Tales == {"nothing", "refused", "failed", "served"}

GateInit ==
    /\ open = TRUE
    /\ fate = [r \in Requests |-> "new"]
    /\ told = [r \in Requests |-> "nothing"]
    /\ process = 0

Become(r, from, to) ==
    /\ fate[r] = from
    /\ fate' = [fate EXCEPT ![r] = to]
    /\ UNCHANGED <<open, told, process>>

Admit(r)   == open /\ told[r] = "nothing" /\ Become(r, "new", "admitted")
Forward(r) == told[r] = "nothing" /\ Become(r, "admitted", "forwarded")
CarryOut(r) == Become(r, "forwarded", "done")
Decline(r)  == Become(r, "forwarded", "declined")

Truthful(r, tale) ==
    CASE tale = "refused" -> fate[r] \in {"new", "admitted", "declined"}
      [] tale = "served"  -> fate[r] = "done"
      [] tale = "failed"  -> TRUE
      [] OTHER -> FALSE

Tell(r) ==
    /\ told[r] = "nothing"
    /\ \E tale \in Tales : Truthful(r, tale) /\ told' = [told EXCEPT ![r] = tale]
    /\ UNCHANGED <<open, fate, process>>

Close == open /\ open' = FALSE /\ UNCHANGED <<fate, told, process>>
Renew == process' = process + 1 /\ open' = TRUE /\ UNCHANGED <<fate, told>>

GateNext ==
    \/ \E r \in Requests : Admit(r) \/ Forward(r) \/ CarryOut(r) \/ Decline(r) \/ Tell(r)
    \/ Close \/ Renew

GateSpec == GateInit /\ [][GateNext]_gateVars
=============================================================================
