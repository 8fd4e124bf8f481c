--------------------------------- MODULE Apps --------------------------------
(***************************************************************************)
(* The apps module: repository packages, packages built from their pinned  *)
(* sources, services and groups that come with them, and web applications  *)
(* whose icons are fetched while the plan is made.                         *)
(***************************************************************************)
EXTENDS Platform

CONSTANTS
    PacmanApps, AURApps,    \* the two package lists
    WebApps                 \* names of the web applications

PacmanStep == "apps.packages.pacman.install"
AURStep(p) == "apps.aur." \o p \o ".install"

\* The package of each service, and the service each group waits for.
AppServices == [docker |-> "docker", tailscaled |-> "tailscale", nordvpnd |-> "nordvpn-bin"]
AppGroups   == [docker |-> "docker", nordvpn |-> "nordvpnd"]
ServiceStep(u) == "apps.service." \o u \o ".enable"
Group(g)  == <<"group", g>>
Disabled(u) == <<"disabled", u>>

MissingPackages(host, names) == {p \in names : Pkg(p) \notin host}

\* Every package of the list needs a pin, the installed ones too.
ResolveAppsPins(policy) ==
    \A p \in AURApps : HasAURPin(policy, p) /\ ValidateAURLocalPin(AURPin(policy, p))

AddPinnedAURInstall(policy, host, p) ==
    LET pin     == AURPin(policy, p)
        atPin   == Tree(p, pin.sourceCommit) \in host
        patched == atPin /\ Patch(p, pin.patchSHA256) \in host
    IN SourceSteps("apps.aur." \o p, "apps", p, pin, {},
                   ConvergedDisposition(atPin), ConvergedDisposition(patched))

\* What is installed is left at the commit it was built from.
AppsSatisfiedAURStep(p) ==
    [Step(AURStep(p), "apps", {}, "satisfied", {Pkg(p)}, {}) EXCEPT !.inverse = TRUE]

AppsPackageStep(host) ==
    LET missing == MissingPackages(host, PacmanApps)
    IN [ModuleRequestStep(PacmanStep, "apps", {}, {Pkg(p) : p \in missing}, {}, host)
          EXCEPT !.gives = {Pkg(p) : p \in missing} \cup {Explicit(p) : p \in missing}]

\* The marks not ordered after the packages of the repositories.
AppsExplicitStepUnordered(host) ==
    LET marks == {p \in PacmanApps \cup AURApps : Explicit(p) \notin host}
    IN ModuleRequestStep("apps.packages.explicit", "apps",
          When(marks # {}, {AURStep(p) : p \in AURApps}),
          {Explicit(p) : p \in marks}, {Pkg(p) : p \in marks}, host)

AppsExplicitStep(host) ==
    LET marks == {p \in PacmanApps \cup AURApps : Explicit(p) \notin host}
    IN ModuleRequestStep("apps.packages.explicit", "apps",
          When(marks # {}, {PacmanStep} \cup {AURStep(p) : p \in AURApps}),
          {Explicit(p) : p \in marks}, {Pkg(p) : p \in marks}, host)

AddAppsService(host, u) ==
    LET p == AppServices[u]
    IN ModuleRequestStep(ServiceStep(u), "apps",
          {IF p \in AURApps THEN AURStep(p) ELSE PacmanStep}, {Service(u)}, {Pkg(p)}, host)

\* A group exists once the package of its service is installed.
AddAppsGroup(host, g) ==
    ModuleRequestStep("apps.group." \o g \o ".add", "apps", {ServiceStep(AppGroups[g])},
                      {Group(g)}, {Pkg(AppServices[AppGroups[g]])}, host)

AddDockerDesktopDisable(host) ==
    ModuleRequestStep("apps.service.docker-desktop.disable", "apps",
        {AURStep("docker-desktop")}, {Disabled("docker-desktop")}, {Pkg("docker-desktop")}, host)

-----------------------------------------------------------------------------
\* The declared icon, else the favicon of the site; one application without
\* either fails the plan of the whole host.
ResolveWebAppIcon(evidence, a) ==
    IF evidence.icons[a].declared THEN "declared"
    ELSE IF evidence.icons[a].favicon THEN "favicon" ELSE "none"

Icon(a, source) == <<"icon", a, source>>
Entry(a) == "apps.webapp." \o a \o ".desktop"

BuildWebAppPlan(evidence, host) ==
    {ManagedFileStep("apps.webapp.launcher", "apps", {PacmanStep}, host)}
    \cup {ManagedFileStep(Entry(a), "apps", {PacmanStep}, host) : a \in WebApps}
    \cup {LET icon == ResolveWebAppIcon(evidence, a)
          IN [ModuleRequestStep("apps.webapp." \o a \o ".icon", "apps", {PacmanStep},
                                {Icon(a, icon)}, {}, host)
                EXCEPT !.drop = {Icon(a, other) : other \in {"declared", "favicon"} \ {icon}}] :
          a \in WebApps}

BuildAppsRequestPlan(policy, evidence, host) ==
    {AppsPackageStep(host), AppsExplicitStep(host), AddDockerDesktopDisable(host)}
    \cup (UNION {IF Pkg(p) \in host THEN {AppsSatisfiedAURStep(p)}
                 ELSE AddPinnedAURInstall(policy, host, p) : p \in AURApps})
    \cup {AddAppsService(host, u) : u \in DOMAIN AppServices}
    \cup {AddAppsGroup(host, g) : g \in DOMAIN AppGroups}
    \cup BuildWebAppPlan(evidence, host)

Apps(policy, evidence, host) ==
    IF ~ModuleEnabled(policy, "apps") THEN Valid({})
    ELSE IF \/ ~ResolveAppsPins(policy)
            \/ \E a \in WebApps : ResolveWebAppIcon(evidence, a) = "none" THEN Invalid
    ELSE Valid(BuildAppsRequestPlan(policy, evidence, host))
=============================================================================
