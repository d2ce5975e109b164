---------------------------- MODULE StartupProofs ----------------------------
(***************************************************************************)
(* Proofs about StartupAdmission, for every set of settings, builds and    *)
(* artifacts: StartupInv is inductive, and admission rests on evidence.    *)
(***************************************************************************)
EXTENDS StartupAdmission, TLAPS

(* What the files show now has been noted.  An age of the artifact that is *)
(* not below the executable's one now was so when it was read, since the   *)
(* executable's only grows.                                                *)
Watching ==
    boot.pc \in Reading =>
        /\ Facts(boot, gate, exe, now) \subseteq shown
        /\ boot.pc \in {"exe", "text"} /\ boot.gate_at >= exe.at => "newer" \in shown
        /\ boot.pc = "text" /\ boot.gate_at >= boot.exe_at => "newer" \in shown

(* What load_config let through stays so. *)
Lawful == boot.pc \in Reading \cup {"build", "serving"} => Accepted(boot.set)

StartupInv == StartupTypeOK /\ Watching /\ Lawful /\ AdmittedOnEvidence

-----------------------------------------------------------------------------
LEMMA BeginningTyped ==
    ASSUME StartupTypeOK, NEW s \in Settings
    PROVE  Begun(s) \in ABoot /\ Begun(s).set = s
    BY DEF StartupTypeOK, Begun, ABoot, Down, Reading

LEMMA ConclusionTyped ==
    ASSUME NEW d \in ABoot, NEW passes \in BOOLEAN
    PROVE  /\ Concluded(d, passes) \in ABoot /\ Warned(d) \in ABoot
           /\ Concluded(d, passes).set = d.set /\ Warned(d).set = d.set
           /\ Concluded(d, passes).pc \in {"build", "refused"}
           /\ Warned(d).pc \in {"build", "refused"}
    BY DEF Concluded, Warned, ABoot

LEMMA NotedTyped ==
    ASSUME StartupTypeOK, Noted
    PROVE  shown' \subseteq {"newer", "good"}
    BY DEF StartupTypeOK, Noted, Facts

LEMMA ProfileKnown ==
    ASSUME NEW s \in Settings, Accepted(s)
    PROVE  Profile(s) \in Profiles
    BY SettingsAssumption DEF ASetting, Profile, Profiles, Accepted, AdmissionAccepted

LEMMA StartupTyping ==
    ASSUME StartupTypeOK, Lawful, [StartupNext]_svars
    PROVE  StartupTypeOK'
<1> USE DEF StartupTypeOK
<1>1. CASE Start
    <2>1. boot' \in ABoot /\ boot'.set = env
        BY <1>1, BeginningTyped DEF Start
    <2> QED BY <1>1, <2>1, NotedTyped DEF Start
<1>2. CASE ReadGate
    <2>1. Profile(boot.set) \in Profiles
        BY <1>2, ProfileKnown DEF ReadGate, Lawful, Reading
    <2>2. gate[Profile(boot.set)].at \in Nat
        BY <2>1 DEF NoFile
    <2>3. boot' \in ABoot /\ boot'.set = boot.set
        BY <1>2, <2>2 DEF ReadGate, ABoot, Reading
    <2> QED BY <1>2, <2>3, NotedTyped DEF ReadGate
<1>3. CASE ReadExe
    <2> DEFINE d == [boot EXCEPT !.exe_at = exe.at]
    <2>1. d \in ABoot /\ d.set = boot.set
        BY DEF ABoot
    <2>2. boot' \in ABoot /\ boot'.set = boot.set
        BY <1>3, <2>1, ConclusionTyped DEF ReadExe, ABoot, Reading
    <2> QED BY <1>3, <2>2, NotedTyped DEF ReadExe
<1>4. CASE ReadText
    <2>1. boot' \in ABoot /\ boot'.set = boot.set
        BY <1>4, ConclusionTyped DEF ReadText
    <2> QED BY <1>4, <2>1, NotedTyped DEF ReadText
<1>5. CASE CannotRead
    <2>1. boot' \in ABoot /\ boot'.set = boot.set
        BY <1>5, ConclusionTyped DEF CannotRead
    <2> QED BY <1>5, <2>1, NotedTyped DEF CannotRead, Reading
<1>6. CASE SetUp
    BY <1>6, NotedTyped DEF SetUp, ABoot
<1>7. CASE Exit
    BY <1>7, NotedTyped DEF Exit, ABoot, Down
<1>8. CASE WriteFile
    BY <1>8, NotedTyped DEF WriteFile
<1>9. CASE Request
    BY <1>9 DEF Request
<1>10. CASE Tick
    <2>1. 0..now \subseteq 0..now'
        BY <1>10 DEF Tick
    <2> QED BY <1>10, <2>1, NotedTyped DEF Tick
<1>11. CASE UNCHANGED svars
    BY <1>11 DEF svars
<1> QED
    BY <1>1, <1>2, <1>3, <1>4, <1>5, <1>6, <1>7, <1>8, <1>9, <1>10, <1>11
       DEF StartupNext, Boots

-----------------------------------------------------------------------------
LEMMA ConclusionLawful ==
    ASSUME NEW d, NEW passes \in BOOLEAN, d \in ABoot
    PROVE  /\ Concluded(d, passes).pc = "build" =>
                  \/ Concluded(d, passes).outcome = "passed" /\ passes
                  \/ Concluded(d, passes).outcome = "warn" /\ Mode(d.set) # "strict"
           /\ Warned(d).pc = "build" =>
                  Warned(d).outcome = "warn" /\ Mode(d.set) # "strict"
    BY DEF Concluded, Warned, ABoot

(* What is accepted in production is no open door. *)
LEMMA ProductionLawful ==
    ASSUME NEW s \in Settings, Accepted(s), s.production
    PROVE  /\ Mode(s) # "off"
           /\ s.bypass => s.prod_bypass /\ s.reason
           /\ AnyCaller(s) => HasDeadline(s)
    BY SettingsAssumption DEF ASetting, Accepted, AdmissionAccepted, CallersAccepted, HasDeadline

LEMMA StartLawful ==
    ASSUME StartupTypeOK, Start
    PROVE  Lawful' /\ AdmittedOnEvidence'
<1> DEFINE d == Begun(env)
<1>1. env \in Settings /\ boot' = d /\ d \in ABoot /\ d.set = env
    BY BeginningTyped DEF Start, StartupTypeOK
<1>2. d.pc \in {"refused", "build", "gate"} /\ (d.pc # "refused" => Accepted(env))
    BY DEF Begun, Down
<1>3. d.pc = "build" => \/ d.outcome = "disabled" /\ Mode(env) = "off"
                        \/ d.outcome = "bypassed" /\ env.bypass
    BY DEF Begun, Down
<1>4. Accepted(env) /\ env.bypass => env.reason
    BY <1>1 DEF Accepted, AdmissionAccepted
<1>5. Lawful'
    BY <1>1, <1>2 DEF Lawful, Reading
<1>6. d.pc \notin {"serving"}
    BY <1>2
<1>7. AdmittedOnEvidence'
    <2>1. CASE d.pc = "build"
        <3>1. Accepted(env) BY <2>1, <1>2
        <3>2. d.outcome # "passed" /\ (d.outcome = "bypassed" => env.bypass /\ env.reason)
            BY <2>1, <1>3, <1>4, <3>1
        <3>3. Mode(env) = "strict" => d.outcome = "bypassed"
            BY <2>1, <1>3
        <3>4. env.production => /\ d.outcome # "disabled"
                                /\ d.outcome = "bypassed" => env.prod_bypass
                                /\ AnyCaller(env) => HasDeadline(env)
            BY <2>1, <1>1, <1>3, <3>1, ProductionLawful
        <3> QED BY <1>1, <3>2, <3>3, <3>4 DEF AdmittedOnEvidence
    <2>2. CASE d.pc # "build"
        BY <2>2, <1>1, <1>2 DEF AdmittedOnEvidence
    <2> QED BY <2>1, <2>2
<1> QED BY <1>5, <1>7

(* The judgement: what passes was shown to be new and good. *)
LEMMA JudgementLawful ==
    ASSUME StartupInv, boot.pc \in Reading, boot'.pc \in {"build", "refused"},
           boot' \in ABoot, boot'.set = boot.set, Noted,
           boot'.pc = "build" =>
               \/ /\ boot'.outcome = "passed"
                  /\ "newer" \in shown /\ (boot.set.json => "good" \in shown)
               \/ boot'.outcome = "warn" /\ Mode(boot.set) # "strict"
    PROVE  Lawful' /\ AdmittedOnEvidence'
<1>1. boot.set \in Settings /\ Accepted(boot.set)
    BY DEF StartupInv, StartupTypeOK, Lawful, Reading
<1>2. shown' = shown
    BY DEF Noted, Reading
<1>3. boot.set.production => (AnyCaller(boot.set) => HasDeadline(boot.set))
    BY <1>1, ProductionLawful
<1>4. Lawful'
    BY <1>1 DEF Lawful
<1>5. boot'.pc # "serving"
    OBVIOUS
<1> QED BY <1>2, <1>3, <1>4, <1>5 DEF AdmittedOnEvidence

LEMMA StartupLaws ==
    ASSUME StartupInv, [StartupNext]_svars, StartupTypeOK'
    PROVE  Lawful' /\ AdmittedOnEvidence'
<1> USE DEF StartupInv, StartupTypeOK
<1>1. CASE Start
    BY <1>1, StartLawful
<1>2. CASE ReadGate
    BY <1>2 DEF ReadGate, Lawful, AdmittedOnEvidence, ABoot, Reading
<1>3. CASE ReadExe
    <2> DEFINE d == [boot EXCEPT !.exe_at = exe.at]
    <2>1. d \in ABoot /\ d.set = boot.set /\ d.gate_at = boot.gate_at /\ d.exe_at = exe.at
        BY DEF ABoot
    <2>2. CASE boot.set.json
        BY <1>3, <2>2 DEF ReadExe, Lawful, AdmittedOnEvidence, ABoot, Reading
    <2>3. CASE ~boot.set.json
        <3>1. boot' = Concluded(d, ~Stale(d)) /\ boot.pc = "exe" /\ Noted
            BY <1>3, <2>3 DEF ReadExe
        <3>2. ~Stale(d) => "newer" \in shown
            BY <2>1, <3>1 DEF Stale, Watching, Reading, ABoot
        <3>3. boot' \in ABoot /\ boot'.set = boot.set /\ boot'.pc \in {"build", "refused"}
            BY <3>1, <2>1, ConclusionTyped
        <3>4. boot'.pc = "build" =>
                  \/ boot'.outcome = "passed" /\ ~Stale(d)
                  \/ boot'.outcome = "warn" /\ Mode(boot.set) # "strict"
            BY <3>1, <2>1, ConclusionLawful
        <3> QED BY <2>3, <3>1, <3>2, <3>3, <3>4, JudgementLawful DEF Reading
    <2> QED BY <2>2, <2>3
<1>4. CASE ReadText
    <2> DEFINE f == gate[Profile(boot.set)]
               ok == Fits(f.is, boot, now) /\ ~Stale(boot)
    <2>1. boot.pc = "text" /\ f # NoFile /\ boot' = Concluded(boot, ok) /\ Noted
        BY <1>4 DEF ReadText
    <2>2. ok => "newer" \in shown /\ "good" \in shown
        BY <2>1 DEF Stale, Watching, Reading, ABoot, Facts
    <2>3. boot' \in ABoot /\ boot'.set = boot.set /\ boot'.pc \in {"build", "refused"}
        BY <2>1, ConclusionTyped
    <2>4. boot'.pc = "build" =>
              \/ boot'.outcome = "passed" /\ ok
              \/ boot'.outcome = "warn" /\ Mode(boot.set) # "strict"
        BY <2>1, ConclusionLawful
    <2> QED BY <2>1, <2>2, <2>3, <2>4, JudgementLawful DEF Reading
<1>5. CASE CannotRead
    <2>1. boot.pc \in Reading /\ boot' = Warned(boot) /\ Noted
        BY <1>5 DEF CannotRead
    <2>2. boot' \in ABoot /\ boot'.set = boot.set /\ boot'.pc \in {"build", "refused"}
        BY <2>1, ConclusionTyped
    <2>3. boot'.pc = "build" => boot'.outcome = "warn" /\ Mode(boot.set) # "strict"
        BY <2>1, ConclusionLawful
    <2> QED BY <2>1, <2>2, <2>3, JudgementLawful
<1>6. CASE SetUp
    <2>1. /\ boot.pc = "build" /\ boot'.pc \in {"serving", "refused"}
          /\ boot'.set = boot.set /\ boot'.outcome = boot.outcome
        BY <1>6 DEF SetUp, ABoot
    <2>2. shown' = shown
        BY <1>6, <2>1 DEF SetUp, Noted, Reading
    <2> QED BY <2>1, <2>2 DEF Lawful, AdmittedOnEvidence
<1>7. CASE Exit
    BY <1>7 DEF Exit, Down, Lawful, AdmittedOnEvidence, Reading
<1>8. CASE WriteFile \/ Request \/ Tick
    <2>1. boot' = boot
        BY <1>8 DEF WriteFile, Request, Tick
    <2>2. boot.pc \in {"build", "serving"} => shown' = shown
        BY <1>8, <2>1 DEF WriteFile, Request, Tick, Noted, Reading
    <2> QED BY <2>1, <2>2 DEF Lawful, AdmittedOnEvidence
<1>9. CASE UNCHANGED svars
    BY <1>9 DEF svars, Lawful, AdmittedOnEvidence
<1> QED
    BY <1>1, <1>2, <1>3, <1>4, <1>5, <1>6, <1>7, <1>8, <1>9 DEF StartupNext, Boots

(* A step that leaves the process reading notes what the files show then.  *)
LEMMA ReadingNotes ==
    ASSUME Noted, boot'.pc \in Reading
    PROVE  /\ Facts(boot', gate', exe', now') \subseteq shown'
           /\ boot.pc \in Reading => shown \subseteq shown'
    BY DEF Noted, Reading

LEMMA StartupWatching ==
    ASSUME StartupInv, [StartupNext]_svars, StartupTypeOK'
    PROVE  Watching'
<1> USE DEF StartupInv, StartupTypeOK
<1>1. CASE Start
    <2>1. boot'.pc \in {"gate", "build", "refused"} /\ Noted
        BY <1>1 DEF Start, Begun, Down
    <2> QED BY <2>1, ReadingNotes DEF Watching, Reading
<1>2. CASE ReadGate
    <2> DEFINE f == gate[Profile(boot.set)]
    <2>1. /\ boot'.pc = "exe" /\ boot'.gate_at = f.at /\ f # NoFile /\ Noted
          /\ boot'.set = boot.set /\ UNCHANGED <<gate, exe>>
        BY <1>2 DEF ReadGate, ABoot
    <2>2. Facts(boot', gate', exe', now') \subseteq shown'
        BY <2>1, ReadingNotes DEF Reading
    <2>3. boot'.gate_at >= exe'.at => "newer" \in Facts(boot', gate', exe', now')
        BY <2>1 DEF Facts
    <2> QED BY <2>1, <2>2, <2>3 DEF Watching
<1>3. CASE ReadExe
    <2>1. /\ boot.pc = "exe" /\ boot'.pc \in {"text", "build", "refused"} /\ Noted
          /\ UNCHANGED exe
        <3> DEFINE d == [boot EXCEPT !.exe_at = exe.at]
        <3>1. d \in ABoot
            BY DEF ABoot
        <3> QED BY <1>3, <3>1, ConclusionTyped DEF ReadExe, ABoot
    <2>2. boot'.pc = "text" => boot'.gate_at = boot.gate_at /\ boot'.exe_at = exe.at
        BY <1>3, <2>1 DEF ReadExe, ABoot, Concluded, Warned
    <2>3. boot.gate_at >= exe.at => "newer" \in shown
        BY <2>1 DEF Watching, Reading
    <2> QED BY <2>1, <2>2, <2>3, ReadingNotes DEF Watching, Reading
<1>4. CASE ReadText \/ CannotRead \/ SetUp \/ Exit \/ Request
    <2> SUFFICES boot'.pc \notin Reading
        BY DEF Watching
    <2>1. CASE ReadText
        <3>1. boot'.pc \in {"build", "refused"}
            BY <2>1, ConclusionTyped DEF ReadText
        <3> QED BY <3>1 DEF Reading
    <2>2. CASE CannotRead
        <3>1. boot'.pc \in {"build", "refused"}
            BY <2>2, ConclusionTyped DEF CannotRead
        <3> QED BY <3>1 DEF Reading
    <2>3. CASE SetUp
        BY <2>3 DEF SetUp, ABoot, Reading
    <2>4. CASE Exit \/ Request
        BY <2>4 DEF Exit, Request, Serving, Reading, Down
    <2> QED BY <1>4, <2>1, <2>2, <2>3, <2>4
<1>5. CASE WriteFile \/ Tick
    <2>1. boot' = boot /\ Noted /\ now' >= now
        BY <1>5 DEF WriteFile, Tick
    <2>2. exe'.at >= exe.at
        BY <1>5 DEF WriteFile, Tick
    <2>3. boot.pc \in Reading /\ boot.gate_at >= exe'.at => boot.gate_at >= exe.at
        BY <2>2, exe \in [build : Build, at : Nat], exe' \in [build : Build, at : Nat] DEF ABoot
    <2> QED BY <2>1, <2>3, ReadingNotes DEF Watching, Reading
<1>6. CASE UNCHANGED svars
    BY <1>6 DEF svars, Watching, Facts, Fits
<1> QED
    BY <1>1, <1>2, <1>3, <1>4, <1>5, <1>6 DEF StartupNext, Boots

LEMMA StartupInvInitially ==
    ASSUME StartupInit
    PROVE  StartupInv
    BY DEF StartupInit, StartupInv, StartupTypeOK, ABoot, Down, NoFile, Profiles, Watching,
           Lawful, AdmittedOnEvidence, Reading

LEMMA StartupInvInductive ==
    ASSUME StartupInv, [StartupNext]_svars
    PROVE  StartupInv'
<1>1. StartupTypeOK'
    BY StartupTyping DEF StartupInv
<1> QED BY <1>1, StartupLaws, StartupWatching DEF StartupInv

(* Whatever files are written between its reads, a process that passed     *)
(* admission was shown an artifact as new as the executable and a pass of  *)
(* its own build and level, and serves otherwise only as its settings      *)
(* allow (admission.rs 84-315).                                            *)
THEOREM StartupRestsOnEvidence == StartupSpec => [](StartupTypeOK /\ AdmittedOnEvidence)
<1>1. StartupInit => StartupInv
    BY StartupInvInitially
<1>2. StartupInv /\ [StartupNext]_svars => StartupInv'
    BY StartupInvInductive
<1>3. StartupInv => StartupTypeOK /\ AdmittedOnEvidence
    BY DEF StartupInv
<1> QED BY <1>1, <1>2, <1>3, PTL DEF StartupSpec
=============================================================================
