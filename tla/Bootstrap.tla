------------------------------ MODULE Bootstrap ------------------------------
(***************************************************************************)
(* The bootstrap module of a host: packages wanted and removed, explicit   *)
(* marks, plymouth and splash taken out of the boot configuration,         *)
(* services, and Chrome built from its pinned source.                      *)
(***************************************************************************)
EXTENDS Platform

CONSTANTS
    Wanted, Unwanted,       \* packages.want and packages.remove
    DependsOn,              \* what each package to remove had pacman install
    ManagedService          \* package of each service bootstrap enables

LTS == {"linux-cachyos-lts", "linux-cachyos-lts-headers"}
Chrome == "google-chrome"

BootstrapCapabilities ==
    {"bootstrapSystemUpdate", "bootstrapPackageRemoval", "bootstrapBootMutation"}

\* The two edited configurations, and what was generated from them.
HookRemoved   == <<"boot", "mkinitcpio.conf">>
ImageBuilt    == <<"boot", "initramfs">>
SplashRemoved == <<"boot", "grub">>
MenuStaged    == <<"boot", "staged menu">>
MenuPublished == <<"boot", "grub.cfg">>
Generator     == <<"tool", "grub-mkconfig">>

InstalledIndex(host, names) == {p \in names : Pkg(p) \in host}

RemovalDelta(host) == InstalledIndex(host, Unwanted) \ LTS

\* -Rns also takes the dependencies of what it removes that are not marked
\* explicit, unless another package needs them.
Unneeded(host, removed) ==
    {d \in InstalledIndex(host, UNION {DependsOn[p] : p \in removed}) : Explicit(d) \notin host}

ExplicitDelta(host, missing) ==
    missing \cup {p \in InstalledIndex(host, Wanted \cup {Chrome}) : Explicit(p) \notin host}

\* A service without an observation counts as stopped; two observations of
\* one service refuse the plan.
NormalizeServiceObservations(evidence) == "services" \notin evidence.faulty
ServiceRequests(host) ==
    {u \in DOMAIN ManagedService : Pkg(ManagedService[u]) \in host /\ Service(u) \notin host}

BootstrapRequest(id, want, drop, need) ==
    [Step(id, "bootstrap", {}, "apply", want, drop) EXCEPT !.need = need, !.inverse = TRUE]

PackageRequests(host, authorization) ==
    LET missing  == Wanted \ InstalledIndex(host, Wanted)
        removed  == RemovalDelta(host)
        explicit == ExplicitDelta(host, When("bootstrapSystemUpdate" \in authorization, missing))
    IN  When("bootstrapSystemUpdate" \in authorization /\ missing # {},
             {[BootstrapRequest("bootstrap.packages.install", {Pkg(p) : p \in missing}, {}, {})
                 EXCEPT !.gives = {Pkg(p) : p \in missing} \cup {Explicit(p) : p \in missing}]})
        \cup When("bootstrapPackageRemoval" \in authorization /\ removed # {},
             {[BootstrapRequest("bootstrap.packages.remove", {}, {Pkg(p) : p \in removed},
                                {Pkg(p) : p \in removed})
                 EXCEPT !.loses = Unneeded(host, removed)]})
        \cup When(explicit # {},
             {BootstrapRequest("bootstrap.packages.explicit", {Explicit(p) : p \in explicit}, {},
                               {Pkg(p) : p \in explicit})})

\* Publication is planned whenever the menu has to change, and blocked when
\* nothing can generate it.
GRUBPublishStep(host) ==
    [BootstrapRequest("bootstrap.boot.grub-publish", {MenuPublished}, {MenuStaged}, {MenuStaged})
       EXCEPT !.disp = IF Generator \in host THEN "apply" ELSE "blocked"]

\* The menu regenerated whether or not the configuration has to change.
BootRequestsUnconditional(host) ==
    When(HookRemoved \notin host,
         {BootstrapRequest("bootstrap.boot.plymouth-edit", {HookRemoved}, {}, {}),
          BootstrapRequest("bootstrap.boot.mkinitcpio", {ImageBuilt}, {}, {HookRemoved})})
    \cup {BootstrapRequest("bootstrap.boot.grub-edit", {SplashRemoved}, {}, {}),
          GRUBPublishStep(host)}
    \cup When(Generator \in host,
         {BootstrapRequest("bootstrap.boot.grub-generate", {MenuStaged}, {},
                           {SplashRemoved, Generator})})

\* What is generated is only planned together with the edit it follows.
BootRequests(host) ==
    When(HookRemoved \notin host,
         {BootstrapRequest("bootstrap.boot.plymouth-edit", {HookRemoved}, {}, {}),
          BootstrapRequest("bootstrap.boot.mkinitcpio", {ImageBuilt}, {}, {HookRemoved})})
    \cup When(SplashRemoved \notin host,
         {BootstrapRequest("bootstrap.boot.grub-edit", {SplashRemoved}, {}, {}),
          GRUBPublishStep(host)})
    \cup When(SplashRemoved \notin host /\ Generator \in host,
         {BootstrapRequest("bootstrap.boot.grub-generate", {MenuStaged}, {},
                           {SplashRemoved, Generator})})

ServiceSteps(host) ==
    {BootstrapRequest("bootstrap.service." \o u, {Service(u)}, {}, {Pkg(ManagedService[u])}) :
       u \in ServiceRequests(host)}

\* Installed LTS kernels are reported and left alone.
LTSStep(host) ==
    Step("bootstrap.kernel.lts", "bootstrap", {},
         IF InstalledIndex(host, LTS) # {} THEN "blocked" ELSE "satisfied", {}, {})

\* The lines of ~/.zshrc outside the block of devtools, which the step keeps.
ZshStep(host) == ManagedFileStep("bootstrap.zsh", "bootstrap", {}, host)

ChromeRequests(policy, host) ==
    When(Pkg(Chrome) \notin host,
         SourceSteps("bootstrap.chrome", "bootstrap", Chrome, AURPin(policy, Chrome), {},
                     "apply", "apply"))

-----------------------------------------------------------------------------
\* Dependencies between the steps that are present: the marks follow the
\* other package steps, and what comes with packages follows the last of them.
BootstrapDependencies(present) ==
    LET install  == "bootstrap.packages.install"
        remove   == "bootstrap.packages.remove"
        explicit == "bootstrap.packages.explicit"
        fetch    == "bootstrap.chrome" \o ".fetch"
        chrome   == "bootstrap.chrome" \o ".install"
        before   == IF remove \in present THEN remove ELSE install
        last     == IF explicit \in present THEN explicit ELSE before
        wired    == {<<remove, install>>, <<explicit, before>>,
                     <<"bootstrap.boot.mkinitcpio", "bootstrap.boot.plymouth-edit">>,
                     <<"bootstrap.boot.grub-generate", "bootstrap.boot.grub-edit">>,
                     <<"bootstrap.boot.grub-publish",
                       IF "bootstrap.boot.grub-generate" \in present
                       THEN "bootstrap.boot.grub-generate" ELSE "bootstrap.boot.grub-edit">>,
                     <<fetch, last>>,
                     <<"bootstrap.zsh", IF chrome \in present THEN chrome ELSE last>>}
                    \cup {<<"bootstrap.service." \o u, last>> : u \in DOMAIN ManagedService}
    IN [id \in present |-> {w[2] : w \in {v \in wired : v[1] = id /\ v[2] \in present}}]

BuildBootstrapModule(policy, host, authorization) ==
    LET steps == PackageRequests(host, authorization)
                 \cup When("bootstrapBootMutation" \in authorization, BootRequests(host))
                 \cup ServiceSteps(host) \cup ChromeRequests(policy, host)
                 \cup {LTSStep(host), ZshStep(host)}
        deps  == BootstrapDependencies(IDs(steps))
    IN {[s EXCEPT !.deps = @ \cup deps[s.id]] : s \in steps}

RequestInput(policy, evidence, host) ==
    /\ Pkg(Chrome) \notin host =>
          /\ HasAURPin(policy, Chrome) /\ ValidateAURLocalPin(AURPin(policy, Chrome))
          /\ "chrome remote" \notin evidence.faulty
    /\ NormalizeServiceObservations(evidence)

Bootstrap(policy, evidence, host) ==
    IF ~ModuleEnabled(policy, "bootstrap") THEN Valid({})
    ELSE IF \/ ~Readable(policy, evidence, BootstrapCapabilities)
            \/ ~RequestInput(policy, evidence, host) THEN Invalid
    ELSE Valid(BuildBootstrapModule(policy, host,
                   {c \in BootstrapCapabilities : Ready(policy, evidence, c)})
               \cup BlockedSteps(policy, evidence, "bootstrap", BootstrapCapabilities))
=============================================================================
