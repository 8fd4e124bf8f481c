------------------------------- MODULE Converge ------------------------------
(***************************************************************************)
(* Repeated applies of one host: its policy is resolved, the modules are   *)
(* built from what is observed, planned, and executed step by step; a step *)
(* or the process may fail, the user and upstream change things between    *)
(* runs, and the host is checked in between.                               *)
(*                                                                         *)
(* A command that runs with what it needs has its effect and nothing else, *)
(* but for pacman -Rns, which may take more packages than it is given.     *)
(* How the executor records steps and takes the lock is in ApplyRun.       *)
(***************************************************************************)
EXTENDS Bootstrap, Fingerprint, Devtools, Apps, Vicinae, Desktop, HostCheck

CONSTANTS
    Worlds,         \* what a behaviour starts from, by name: repository,
                    \* names, evidence, facts, drifts, graphs and requests
    Normal,         \* host name as written -> trimmed, in lower case, no dot
    MaxFaults,      \* failures and kills of a behaviour
    MaxDrifts       \* changes by the user or upstream

\* The kinds of items in the inventory of a check.
Kinds == {"files", "validators", "packages", "services", "boot", "pam", "pacman"}

\* The IDs of managed files, those of PAM apart, and all the IDs that the
\* factories give their steps.
FileIDs ==
    {"bootstrap.zsh", "apps.webapp.launcher", Environment, Custom, Session} \cup PolkitFiles
    \cup {WorkstationFiles[n] : n \in DOMAIN WorkstationFiles}
    \cup {DevtoolsFileID(f) : f \in BuildDevtoolsFiles} \cup {Entry(a) : a \in WebApps}

FixedIDs ==
    {"bootstrap.packages.install", "bootstrap.packages.remove", "bootstrap.packages.explicit",
     "bootstrap.boot.plymouth-edit", "bootstrap.boot.mkinitcpio", "bootstrap.boot.grub-edit",
     "bootstrap.boot.grub-generate", "bootstrap.boot.grub-publish", "bootstrap.kernel.lts",
     InstallOperation, MiseStep, "devtools.toolchain.install",
     PacmanStep, "apps.packages.explicit", "apps.service.docker-desktop.disable",
     Install, Actions, Disable, "vicinae.service.enable", Packages, "desktop.cosmic-prune"}

SourcePrefixes == {"bootstrap.chrome", "vicinae.package"} \cup {"apps.aur." \o p : p \in AURApps}
SourceOperations == {".fetch", ".checkout", ".patch.materialize", ".patch.verify", ".install"}
SourceIDs == UNION {{prefix \o op : op \in SourceOperations} : prefix \in SourcePrefixes}

FactoryIDs ==
    FileIDs \cup FixedIDs \cup SourceIDs \cup Range(BuildOperations)
    \cup {PAMID(f) : f \in PAMFiles} \cup {"policy." \o c : c \in RiskCapabilities}
    \cup {"bootstrap.service." \o u : u \in DOMAIN ManagedService}
    \cup {GatedStep[c] : c \in DOMAIN GatedStep}
    \cup {ServiceStep(u) : u \in DOMAIN AppServices}
    \cup {"apps.group." \o g \o ".add" : g \in DOMAIN AppGroups}
    \cup {"apps.webapp." \o a \o ".icon" : a \in WebApps}

\* The facts an item of the inventory stands for are those it asks about.
Asks(kind, item) ==
    /\ kind \in {"files", "boot", "pam"} => item.desired \in {None, "wanted"}
    /\ kind = "packages" => item.version = "wanted" \/ item.facts \subseteq {Pkg(item.name)}
    /\ kind = "services" => item.enabled \/ item.active \/ item.facts = {}

\* The lists are finite; nothing else asks for what bootstrap installs, and
\* nothing at all for what it removes.  The packages of the services are in
\* the lists, nothing built from a source is a dependency of what is removed,
\* and no managed file has the ID of another module's.  The inventory of a
\* check names each item of a kind once.
ASSUME ConvergeAssumption ==
    /\ FactoryIDs \subseteq Range(StepIDs) /\ KnownModules \subseteq Range(ModuleNames)
    /\ \A f \in PAMFiles : PAMID(f) \notin FileIDs
    /\ {Custom, "bootstrap.zsh"} \cap
         ({DevtoolsFileID(f) : f \in BuildDevtoolsFiles} \cup {Entry(a) : a \in WebApps}) = {}
    /\ IsFiniteSet(DOMAIN ManagedService) /\ IsFiniteSet(PAMFiles)
    /\ IsFiniteSet(ConfigFiles) /\ IsFiniteSet(ShellFiles) /\ ConfigFiles # {}
    /\ IsFiniteSet(AURApps) /\ IsFiniteSet(WebApps) /\ Range(PatchOf) \subseteq Patches
    /\ LET others == PacmanApps \cup AURApps \cup DesktopPackages \cup {Chrome, VicinaePackage, "mise"}
       IN /\ Driver \notin others \cup Wanted \cup Unwanted
          /\ others \cap (Wanted \cup {"paru"}) = {}
          /\ Unwanted \cap (others \cup Wanted \cup {"paru"} \cup Range(ManagedService)) = {}
    /\ \A p \in Unwanted : DependsOn[p] \cap (AURApps \cup {Chrome, VicinaePackage, Driver}) = {}
    /\ Range(AppServices) \subseteq PacmanApps \cup AURApps /\ "docker-desktop" \in AURApps
    /\ "vicinae" \notin DOMAIN ManagedService
    /\ \A w \in DOMAIN Worlds :
          /\ \A g \in Worlds[w].graphs : WellFormed(g.mods)
          /\ \A request \in Worlds[w].requests : \A kind \in Kinds :
                /\ IsFiniteSet(request[kind])
                /\ \A item, other \in request[kind] : item.name = other.name => item = other
                /\ \A item \in request[kind] : Asks(kind, item)
    /\ MaxFaults \in Nat /\ MaxDrifts \in Nat

VARIABLES
    world,
    repository, evidence, host,     \* what a run reads
    run,        \* the plan, and how far it has got
    calm,       \* complete runs since the last disturbance, up to 2
    faults, drifts,
    report      \* of the last check

vars == <<world, repository, evidence, host, run, calm, faults, drifts, report>>

scenario == Worlds[world]

Idle == [phase |-> "idle"]
NoReport == [exit |-> 1]

Init ==
    /\ world \in DOMAIN Worlds
    /\ repository = scenario.repository
    /\ evidence = scenario.evidence
    /\ host = scenario.facts
    /\ run = Idle
    /\ calm = 0 /\ faults = 0 /\ drifts = 0
    /\ report = NoReport

-----------------------------------------------------------------------------
\* The hosts a name stands for; names that normalize alike refuse everything.
ResolveHost(explicit, known, hostname) ==
    LET asked == IF Normal[explicit] # "" THEN explicit ELSE hostname
    IN IF \/ \E k \in known : Normal[k] = ""
          \/ \E k, l \in known : k # l /\ Normal[k] = Normal[l] THEN {}
       ELSE {k \in known : Normal[k] = Normal[asked]}

HostPolicy ==
    LET names == ResolveHost(scenario.explicit, DOMAIN repository.hosts, scenario.hostname)
    IN IF names = {} THEN [ok |-> FALSE]
       ELSE Resolve(repository, CHOOSE n \in names : TRUE)

BuildModules(policy) ==
    LET built == [bootstrap   |-> Bootstrap(policy, evidence, host),
                  fingerprint |-> Fingerprint(policy, evidence, host),
                  devtools    |-> Devtools(policy, evidence, host),
                  apps        |-> Apps(policy, evidence, host),
                  vicinae     |-> Vicinae(policy, evidence, host),
                  desktop     |-> Desktop(policy, evidence, host)]
    IN IF ~ValidateAssetOwnership(policy) \/ \E n \in DOMAIN built : ~built[n].valid
       THEN Invalid
       ELSE Valid({[name |-> n, enabled |-> ModuleEnabled(policy, n), deps |-> {},
                    steps |-> built[n].steps] : n \in DOMAIN built})

Planned(mods, sel) ==
    [phase |-> "planned", mods |-> mods, sel |-> sel, plan |-> BuildPlan(mods, sel)]

\* BuildHostPlan: refused as a whole when the policy or a factory refuses.
PlanHost ==
    LET built == IF HostPolicy.ok THEN BuildModules(HostPolicy) ELSE Invalid
    IN /\ run.phase = "idle" /\ scenario.graphs = {}
       /\ run' = IF built.valid THEN Planned(built.steps, EverySelection) ELSE Idle
       /\ report' = NoReport
       /\ UNCHANGED <<world, repository, evidence, host, calm, faults, drifts>>

\* The planner on modules with dependencies of their own, and selections.
PlanGraph ==
    /\ run.phase = "idle"
    /\ \E g \in scenario.graphs : run' = Planned(g.mods, g.sel)
    /\ report' = NoReport
    /\ UNCHANGED <<world, repository, evidence, host, calm, faults, drifts>>

Start ==
    /\ run.phase = "planned"
    /\ run' = IF run.plan.ok /\ scenario.graphs = {}
              THEN [phase |-> "running", steps |-> run.plan.steps, pos |-> 1,
                    changed |-> {}, lost |-> {}]
              ELSE Idle
    /\ UNCHANGED <<world, repository, evidence, host, calm, faults, drifts, report>>

-----------------------------------------------------------------------------
Running == run.phase = "running" /\ run.pos <= Len(run.steps)
Current == run.steps[run.pos]
ToExecute == Running /\ Current.disp # "blocked" /\ ~Done(Current, host)

\* An installation marks only what was not there; a mark that is wanted is set.
Leaves(s, facts) ==
    {f \in s.gives : f \in s.want \/ f[1] # "explicit" \/ Pkg(f[2]) \notin facts}
Effect(s, facts) == (facts \ s.drop) \cup Leaves(s, facts)

\* The services of a package go with it.
LostWith(packages) ==
    {Pkg(p) : p \in packages}
    \cup {Service(u) : u \in {v \in DOMAIN ManagedService : ManagedService[v] \in packages}}
    \cup {Service(u) : u \in {v \in DOMAIN AppServices : AppServices[v] \in packages}}
Losses(s) == {LostWith(packages) : packages \in SUBSET s.loses}

Skip ==
    /\ Running
    /\ Current.disp = "blocked" \/ Done(Current, host)
    /\ run' = [run EXCEPT !.pos = @ + 1]
    /\ UNCHANGED <<world, repository, evidence, host, calm, faults, drifts, report>>

\* A step is verified after its command; one that does not hold ends the run.
Mutate ==
    /\ ToExecute /\ Current.need \subseteq host
    /\ \E lost \in Losses(Current) :
          /\ host' = Effect(Current, host) \ lost
          /\ run' = IF Done(Current, host')
                    THEN [run EXCEPT !.pos = @ + 1, !.changed = @ \cup {Current.id},
                                     !.lost = @ \cup lost]
                    ELSE Idle
    /\ UNCHANGED <<world, repository, evidence, calm, faults, drifts, report>>

\* The command cannot do its work without what it needs.
CommandFails ==
    /\ ToExecute /\ ~(Current.need \subseteq host)
    /\ run' = Idle
    /\ UNCHANGED <<world, repository, evidence, host, calm, faults, drifts, report>>

\* A failure, a timeout or a kill, before or after the effect.
Fault ==
    /\ ToExecute /\ faults < MaxFaults
    /\ host' \in {host} \cup When(Current.need \subseteq host,
                                 {Effect(Current, host) \ lost : lost \in Losses(Current)})
    /\ run' = Idle /\ calm' = 0 /\ faults' = faults + 1
    /\ UNCHANGED <<world, repository, evidence, drifts, report>>

\* A run that took more packages than it was given is a disturbance itself.
Complete ==
    /\ run.phase = "running" /\ run.pos > Len(run.steps)
    /\ run' = Idle
    /\ calm' = IF run.lost # {} THEN 0 ELSE IF calm = 2 THEN 2 ELSE calm + 1
    /\ UNCHANGED <<world, repository, evidence, host, faults, drifts, report>>

Drift ==
    /\ run.phase = "idle" /\ drifts < MaxDrifts
    /\ \E d \in scenario.drifts :
          /\ host' = (host \ d.gone) \cup d.new
          /\ evidence' = d.evidence
          /\ repository' = d.repository
    /\ run' = Idle /\ calm' = 0 /\ drifts' = drifts + 1 /\ report' = NoReport
    /\ UNCHANGED <<world, faults>>

-----------------------------------------------------------------------------
\* What a truthful observer sees of an item of the inventory, which carries
\* the facts it stands for.
Holds(item) == item.facts \subseteq host
Version(item) == IF Holds(item) THEN "wanted" ELSE "other"
ObservationOf(item, status) ==
    [name |-> item.name, status |-> status, state |-> IF Holds(item) THEN "observed" ELSE "missing",
     live |-> Version(item), owned |-> TRUE, present |-> Pkg(item.name) \in host,
     version |-> Version(item), clean |-> Holds(item), installed |-> TRUE,
     enabled |-> Holds(item), active |-> Holds(item)]
Truthful(item) ==
    ObservationOf(item, IF item.silent THEN None ELSE IF Holds(item) THEN "passed" ELSE "failed")

\* One item may be left out, be read twice with different results, or come
\* back unknown.
Unknown(item) == [Truthful(item) EXCEPT !.status = "unknown", !.state = "unknown"]
Passing(item) ==
    [Truthful(item) EXCEPT !.status = "passed", !.state = "observed", !.live = "wanted",
        !.version = "wanted", !.present = TRUE, !.enabled = TRUE, !.active = TRUE]

Items(request) == UNION {request[kind] : kind \in Kinds}

Observations(items, lapsed, lapse) ==
    LET Lapsed(item, how) == item.name = lapsed /\ lapse = how
        seen  == SetToSeq({item \in items : ~Lapsed(item, "missing")})
        again == SetToSeq({item \in items : Lapsed(item, "twice")})
    IN [i \in DOMAIN seen |-> IF Lapsed(seen[i], "unknown") THEN Unknown(seen[i])
                              ELSE Truthful(seen[i])]
       \o [i \in DOMAIN again |-> Passing(again[i])]

Snapshot(request, lapsed, lapse) ==
    [part \in Kinds \cup {"failedUnits", "fingerprint", "pacnew"} |->
        IF part \in Kinds THEN Observations(request[part], lapsed, lapse)
        ELSE IF part = "fingerprint" THEN None ELSE <<>>]

\* The check reads the host and writes nothing; its observer may fail.
Check ==
    /\ run.phase = "idle"
    /\ \E request \in scenario.requests, failed \in BOOLEAN,
          lapse \in {"missing", "twice", "unknown"} :
         \E lapsed \in NamesIn(Items(request)) \cup {None} :
            report' = [exit |-> CheckReport(request, failed, Snapshot(request, lapsed, lapse)).exit,
                       failed |-> failed, lapsed |-> lapsed, request |-> request]
    /\ UNCHANGED <<world, repository, evidence, host, run, calm, faults, drifts>>

Next == PlanHost \/ PlanGraph \/ Start \/ Skip \/ Mutate \/ CommandFails \/ Fault
        \/ Complete \/ Drift \/ Check

Spec == Init /\ [][Next]_vars
-----------------------------------------------------------------------------
\* What the host's own document grants and the evidence confirms.
Granted ==
    LET doc == repository.hosts[HostPolicy.name]
    IN {c \in DOMAIN evidence.caps : /\ evidence.caps[c] = "ready"
                                     /\ "riskPolicy" \in DOMAIN doc /\ c \in doc.riskPolicy}

\* The capabilities a change of the host is an exercise of.
Exercised(changed) ==
    When(changed \cap {HookRemoved, ImageBuilt, SplashRemoved, MenuStaged, MenuPublished} # {},
         {"bootstrapBootMutation"})
    \cup When(\E p \in Wanted : Pkg(p) \in changed \ host, {"bootstrapSystemUpdate"})
    \cup When(\E f \in changed \cap host : f[1] = "package", {"bootstrapPackageRemoval"})
    \cup When(changed \cap ({File(PAMID(f)) : f \in PAMFiles} \cup {Pkg(Driver), AtPin}) # {},
              {"fingerprintPam"})
    \cup {c \in DOMAIN GatedStep : HostValues(c) \in changed}
    \cup When(Legacy \in changed, {"cosmicPrune"})

\* No run updates, removes, edits the boot configuration or PAM, applies the
\* values of a machine or prunes the desktop unless the document of that very
\* host grants it and the evidence is ready, whatever the roles, the global
\* layer or another host say, and however earlier runs ended.
OnlyAuthorized ==
    [][host' # host /\ drifts' = drifts =>
         Exercised((host \ host') \cup (host' \ host)) \subseteq Granted]_vars

\* A pin with the hash of another patch than its commit carries: what git
\* writes is not what the step wants.
Mispinned(s) == \E f \in s.gives : f[1] = "patch" /\ f \notin s.want

\* The two steps that write ~/.zshrc, and whether both are of the run's plan.
ZshSteps == {"bootstrap.zsh", DevtoolsFileID(Zshrc)}
ZshIsShared == ZshSteps \subseteq {run.steps[i].id : i \in DOMAIN run.steps}

\* Each command of a run finds what earlier steps were to provide, also when
\* an earlier run was cut short anywhere, and holds when it is verified.  The
\* exceptions are paru where no step of the plan installs it, a patch that is
\* not its pin's, and what pacman -Rns took along: a wanted package that came
\* as a dependency of a removed one goes before it would be marked, and the
\* mark then fails.  What the steps of a complete run wanted is still there at
\* its end, but for the staged menu, which publishing consumes, and the lines
\* of ~/.zshrc, which devtools puts back after bootstrap rewrote them.
CleanRunsSucceed ==
    [][/\ CommandFails =>
            LET missing == (Current.need \ host) \ run.lost
            IN missing # {} => /\ missing = {Pkg("paru")}
                               /\ \A i \in DOMAIN run.steps : Pkg("paru") \notin run.steps[i].gives
       /\ Mutate => Done(Current, host') \/ Mispinned(Current)
       /\ Complete => \A i \in DOMAIN run.steps :
            run.steps[i].disp # "blocked" =>
               /\ run.steps[i].want \ host \subseteq
                     {MenuStaged} \cup When(ZshIsShared, {ZshLines})
               /\ run.steps[i].drop \cap host = {}]_vars

\* After a complete run that nothing disturbed, applying again changes nothing
\* but two things (convergence-commands/spec.md, "Idempotent apply", wants
\* nothing changed at all).  A service is planned only once its package is observed, so
\* the run after the one that installs the package starts it.  And where
\* bootstrap and devtools both write ~/.zshrc, every run may have each undo
\* what the other did: bootstrap rewrites the lines, devtools publishes them
\* as they were when the run was planned.
Converges ==
    run.phase = "running" /\ calm > 0 =>
        run.changed \subseteq
            When(calm = 1, {"bootstrap.service." \o u : u \in DOMAIN ManagedService})
            \cup When(ZshIsShared, ZshSteps)

\* The check exits zero only when the observer answered, saw each item of the
\* inventory exactly once, and every item holds; an inventory of enrolled
\* fingers alone is the exception, its findings are warnings.
CheckFailsClosed ==
    report.exit = 0 =>
        /\ \A item \in Items(report.request) : Holds(item)
        /\ report.lapsed \in NamesIn(Items(report.request)) => report.failed
        /\ report.failed => /\ Items(report.request) = {}
                            /\ ~report.request.failedUnits /\ ~report.request.pacnew

-----------------------------------------------------------------------------
\* A plan holds each step of the selected modules once, none before one it
\* depends on, and its removal takes none away before what depends on it; the
\* planner refuses exactly the selections that have no such order, name what
\* is unknown or miss a dependency.
PlanIsSound ==
    run.phase = "planned" =>
        /\ run.plan.ok => Sound(run.mods, run.sel, run.plan.steps)
        /\ scenario.graphs # {} => (run.plan.ok <=> Plannable(run.mods, run.sel))
=============================================================================
