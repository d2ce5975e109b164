-------------------------- MODULE StartupAdmission --------------------------
(***************************************************************************)
(* How a process of the MCP server starts (main.rs, admission.rs): it      *)
(* loads its settings, judges the artifact of the test gate they require,  *)
(* and serves or exits.  The artifact's age, the executable's age and the  *)
(* artifact's contents are read one after the other, while deployments     *)
(* and test gates write these files.                                       *)
(***************************************************************************)
EXTENDS ServerSettings

CONSTANTS
    Build,      \* builds of the server: identity and source fingerprint
    Settings,   \* environments a process may be started with
    Artifact,   \* what a gate may have written: see AnArtifact
    MaxTime,    \* bound: the clock
    MaxEvents,  \* bound: changes of the files, and requests
    MaxStarts   \* bound: processes

Profiles == {"fast", "standard"}

AnArtifact(a) ==
    /\ a.build \in Build              \* build_identity, source_fingerprint
    /\ a.level \in Profiles /\ a.pass \in BOOLEAN
    /\ a.sound \in BOOLEAN            \* parses; schema, component, digest and dates right
    /\ a.expires \in Nat

ASSUME SettingsAssumption == \A s \in Settings : ASetting(s)
ASSUME ArtifactAssumption == \A a \in Artifact : AnArtifact(a)

VARIABLES
    env,     \* the settings in the environment of every process
    now,     \* the clock
    gate,    \* the artifact at each profile's path
    exe,     \* the executable's file
    boot,    \* the process
    shown,   \* history: what the files showed at some moment while it read them
    events,  \* bound: changes and requests made
    starts   \* processes started

svars == <<env, now, gate, exe, boot, shown, events, starts>>

NoFile == [at |-> 0, is |-> [level |-> "none"]]
NoSettings == [mode |-> "none"]
Down == [pc |-> "down", set |-> NoSettings, build |-> "none", start |-> 0,
         gate_at |-> 0, exe_at |-> 0, outcome |-> "none"]

Reading == {"gate", "exe", "text"}
Serving == boot.pc = "serving"

-----------------------------------------------------------------------------
(* What the contents must say, of the running build and at the time t. *)
Fits(a, d, t) ==
    /\ a.sound /\ a.level = Profile(d.set) /\ a.pass /\ a.build = d.build
    /\ t <= a.expires

(* Every moment of the reading is noted: whether the artifact was as new   *)
(* as the executable ("newer"), and whether its contents fit ("good").     *)
Facts(d, files, x, t) ==
    LET f == files[Profile(d.set)]
    IN  {w \in {"newer", "good"} :
             f # NoFile /\ IF w = "newer" THEN f.at >= x.at ELSE Fits(f.is, d, t)}

Noted ==
    shown' = IF boot'.pc \notin Reading THEN IF boot'.pc = "down" THEN {} ELSE shown
             ELSE (IF boot.pc = "down" THEN {} ELSE shown) \cup Facts(boot', gate', exe', now')

(* warning_or_reject, and the outcome main.rs goes on with. *)
Warned(d) ==
    IF Mode(d.set) = "strict" THEN [d EXCEPT !.outcome = "rejected", !.pc = "refused"]
    ELSE [d EXCEPT !.outcome = "warn", !.pc = "build"]
Concluded(d, passes) ==
    IF passes THEN [d EXCEPT !.outcome = "passed", !.pc = "build"] ELSE Warned(d)

(* is_stale is judged last, of the two ages read first. *)
StaleByMore(d) == d.gate_at + 1 < d.exe_at               \* mutant of Stale
Stale(d) == d.gate_at < d.exe_at

Begun(s) ==
    LET d == [Down EXCEPT !.set = s, !.build = exe.build, !.start = now]
    IN  CASE ~Accepted(s) -> [d EXCEPT !.pc = "refused"]
          [] Accepted(s) /\ Mode(s) = "off" -> [d EXCEPT !.pc = "build", !.outcome = "disabled"]
          [] Accepted(s) /\ Mode(s) # "off" /\ s.bypass ->
                 [d EXCEPT !.pc = "build", !.outcome = "bypassed"]
          [] OTHER -> [d EXCEPT !.pc = "gate"]

(* main up to evaluate_startup_admission's first file: the provenance is   *)
(* the build's own and is never empty.                                     *)
Start ==
    /\ boot.pc = "down" /\ starts < MaxStarts
    /\ boot' = Begun(env)
    /\ starts' = starts + 1
    /\ UNCHANGED <<env, now, gate, exe, events>>
    /\ Noted

ReadGate ==
    LET f == gate[Profile(boot.set)]
    IN  /\ boot.pc = "gate"
        /\ f # NoFile
        /\ boot' = [boot EXCEPT !.gate_at = f.at, !.pc = "exe"]
        /\ UNCHANGED <<env, now, gate, exe, events, starts>>
        /\ Noted

ReadExe ==
    LET d == [boot EXCEPT !.exe_at = exe.at]
    IN  /\ boot.pc = "exe"
        /\ boot' = IF boot.set.json THEN [d EXCEPT !.pc = "text"] ELSE Concluded(d, ~Stale(d))
        /\ UNCHANGED <<env, now, gate, exe, events, starts>>
        /\ Noted

ReadText ==
    LET f == gate[Profile(boot.set)]
    IN  /\ boot.pc = "text"
        /\ f # NoFile
        /\ boot' = Concluded(boot, Fits(f.is, boot, now) /\ ~Stale(boot))
        /\ UNCHANGED <<env, now, gate, exe, events, starts>>
        /\ Noted

(* A file that is not there, or cannot be read. *)
CannotReadYet ==                                         \* mutant of CannotRead
    /\ boot.pc \in Reading
    /\ boot' = [boot EXCEPT !.pc = "gate"]
    /\ UNCHANGED <<env, now, gate, exe, events, starts>>
    /\ Noted
CannotRead ==
    /\ boot.pc \in Reading
    /\ boot' = Warned(boot)
    /\ UNCHANGED <<env, now, gate, exe, events, starts>>
    /\ Noted

(* AppState::new and the listener, either of which may fail. *)
SetUp ==
    /\ boot.pc = "build"
    /\ \E pc \in {"serving", "refused"} : boot' = [boot EXCEPT !.pc = pc]
    /\ UNCHANGED <<env, now, gate, exe, events, starts>>
    /\ Noted

(* The process ends: by itself when refused, at any time if killed. *)
Exit ==
    /\ boot.pc # "down"
    /\ boot' = Down
    /\ UNCHANGED <<env, now, gate, exe, events, starts>>
    /\ Noted

(* External: what is installed and tested.  A file's age is the time of    *)
(* its last write.  Bound: none is written while a process serves, as the  *)
(* next process is the first to look.                                      *)
WriteFile ==
    /\ events < MaxEvents /\ ~Serving
    /\ \/ /\ \E b \in Build : exe' = [build |-> b, at |-> now]
          /\ UNCHANGED gate
       \/ /\ \E p \in Profiles : \E f \in {NoFile} \cup [at : {now}, is : Artifact] :
                 gate' = [gate EXCEPT ![p] = f]
          /\ UNCHANGED exe
    /\ events' = events + 1
    /\ UNCHANGED <<env, now, boot, starts>>
    /\ Noted

(* A request comes in, which module McpServer goes on with.               *)
Request ==
    /\ Serving /\ events < MaxEvents
    /\ events' = events + 1
    /\ UNCHANGED <<env, now, gate, exe, boot, shown, starts>>

Tick ==
    /\ now < MaxTime
    /\ now' = now + 1
    /\ UNCHANGED <<env, gate, exe, boot, events, starts>>
    /\ Noted

StartupInit ==
    /\ env \in Settings
    /\ now = 0 /\ boot = Down /\ shown = {} /\ events = 0 /\ starts = 0
    /\ gate = [p \in Profiles |-> NoFile]
    /\ exe \in [build : Build, at : {0}]

Boots == ReadGate \/ ReadExe \/ ReadText \/ CannotRead \/ SetUp

StartupNext == Start \/ Boots \/ Exit \/ WriteFile \/ Request \/ Tick
StartupSpec == StartupInit /\ [][StartupNext]_svars

-----------------------------------------------------------------------------
ABoot ==
    [pc : {"down", "build", "serving", "refused"} \cup Reading,
     set : Settings \cup {NoSettings}, build : Build \cup {"none"}, start : Nat,
     gate_at : Nat, exe_at : Nat,
     outcome : {"none", "disabled", "bypassed", "passed", "warn", "rejected"}]

StartupTypeOK ==
    /\ env \in Settings
    /\ now \in Nat /\ events \in Nat /\ starts \in Nat
    /\ gate \in [Profiles -> {NoFile} \cup [at : 0..now, is : Artifact]]
    /\ exe \in [build : Build, at : 0..now]
    /\ boot \in ABoot
    /\ boot.pc # "down" => boot.set = env
    /\ shown \subseteq {"newer", "good"}

(* A process that passed admission had, at some one moment of its start,   *)
(* an artifact as new as the executable and, at some moment, one whose     *)
(* contents are a pass of its own build and level, not expired, however    *)
(* files are replaced between its reads; in strict mode nothing else but   *)
(* a bypass lets it serve, in production no bypass that was not allowed    *)
(* for, and no open caller lists but under a deadline (admission.rs        *)
(* 84-315, config.rs 731-760 and 925-961).                                 *)
AdmittedOnEvidence ==
    boot.pc \in {"build", "serving"} =>
        LET s == boot.set
        IN  /\ boot.outcome = "passed" =>
                   "newer" \in shown /\ (s.json => "good" \in shown)
            /\ Mode(s) = "strict" => boot.outcome \in {"passed", "bypassed"}
            /\ boot.outcome = "bypassed" => s.bypass /\ s.reason
            /\ s.production =>
                   /\ boot.outcome # "disabled"
                   /\ boot.outcome = "bypassed" => s.prod_bypass
                   /\ AnyCaller(s) => HasDeadline(s)
=============================================================================
