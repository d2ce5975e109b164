--------------------------- MODULE ServerSettings ---------------------------
(***************************************************************************)
(* The settings of the MCP server that the environment may combine wrongly *)
(* (config.rs), which combinations load_config refuses, and what it makes  *)
(* of the others.  Defaults that depend on other settings are "unset".     *)
(***************************************************************************)
EXTENDS Naturals

ASetting(s) ==
    /\ s.production \in BOOLEAN                           \* BUILD_PRODUCTION
    /\ s.mode \in {"unset", "off", "warn", "strict", "other"}   \* STARTUP_ADMISSION_MODE
    /\ s.profile \in {"unset", "fast", "standard", "other"}     \* TEST_GATE_REQUIRED_PROFILE
    /\ s.json \in BOOLEAN                 \* the artifacts' paths end in .json
    /\ s.bypass \in BOOLEAN /\ s.reason \in BOOLEAN /\ s.ttl \in Nat
    /\ s.prod_bypass \in BOOLEAN
    /\ s.store \in {"off", "memory", "sqlite"}            \* HTTP_EVENT_STORE
    /\ s.resume \in {"off", "historyless", "replay"}      \* HTTP_RESUME_MODE
    /\ s.stateless \in BOOLEAN                            \* HTTP_STATELESS_FALLBACK
    /\ s.oauth \in BOOLEAN       \* issuer, audience and, for jwks, the URL are there
    /\ s.open \in BOOLEAN /\ s.open_reason \in BOOLEAN /\ s.open_ttl \in Nat
    /\ s.dpop \in BOOLEAN /\ s.cert \in BOOLEAN   \* dpop_required, mTLS by proxy header
    \* s.azp, s.clients: the callers listed, as sets

Mode(s) ==
    CASE s.mode # "unset" -> s.mode [] s.production -> "strict" [] OTHER -> "warn"
Profile(s) ==
    CASE s.profile # "unset" -> s.profile [] s.production -> "standard" [] OTHER -> "fast"

HttpAccepted(s) == s.resume = "replay" <=> s.store # "off"

AdmissionAccepted(s) ==
    /\ Mode(s) # "other" /\ Profile(s) # "other"
    /\ s.production => Mode(s) # "off"
    /\ s.bypass => s.reason /\ s.ttl > 0 /\ (s.production => s.prod_bypass)

AnyCaller(s) == s.azp = {} /\ s.clients = {}

CallersAccepted(s) ==
    /\ s.open => s.open_reason /\ s.open_ttl > 0
    /\ s.production => s.open \/ ~AnyCaller(s)

Accepted(s) == HttpAccepted(s) /\ AdmissionAccepted(s) /\ s.oauth /\ CallersAccepted(s)

(* break_glass_deadline, counted from the start: none unless break-glass   *)
(* is on.  caller_allowlists_break_glass_expired asks it of open lists.    *)
HasDeadline(s) == s.open
Deadline(s, start) == start + s.open_ttl

NeverExpired(s, start, t) == FALSE                       \* mutant of BreakGlassExpired
BreakGlassExpired(s, start, t) ==
    AnyCaller(s) /\ HasDeadline(s) /\ t >= Deadline(s, start)
=============================================================================
