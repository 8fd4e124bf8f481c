------------------------------ MODULE MCConverge -----------------------------
(***************************************************************************)
(* Two hosts, two commits of each package source, and the worlds below.    *)
(* s1 to s4 are the steps of the planner's own scenarios.                  *)
(***************************************************************************)
EXTENDS Converge

MCStepIDs == <<
    "apps.aur.docker-desktop.checkout", "apps.aur.docker-desktop.fetch",
    "apps.aur.docker-desktop.install", "apps.aur.docker-desktop.patch.materialize",
    "apps.aur.docker-desktop.patch.verify", "apps.aur.nordvpn-bin.checkout",
    "apps.aur.nordvpn-bin.fetch", "apps.aur.nordvpn-bin.install",
    "apps.aur.nordvpn-bin.patch.materialize", "apps.aur.nordvpn-bin.patch.verify",
    "apps.group.docker.add", "apps.group.nordvpn.add", "apps.packages.explicit",
    "apps.packages.pacman.install", "apps.service.docker-desktop.disable",
    "apps.service.docker.enable", "apps.service.nordvpnd.enable",
    "apps.service.tailscaled.enable", "apps.webapp.launcher", "apps.webapp.spotify.desktop",
    "apps.webapp.spotify.icon", "bootstrap.boot.grub-edit", "bootstrap.boot.grub-generate",
    "bootstrap.boot.grub-publish", "bootstrap.boot.mkinitcpio", "bootstrap.boot.plymouth-edit",
    "bootstrap.chrome.checkout", "bootstrap.chrome.fetch", "bootstrap.chrome.install",
    "bootstrap.chrome.patch.materialize", "bootstrap.chrome.patch.verify",
    "bootstrap.kernel.lts", "bootstrap.packages.explicit", "bootstrap.packages.install",
    "bootstrap.packages.remove", "bootstrap.service.ufw", "bootstrap.zsh",
    "desktop.cosmic-prune", "desktop.file.hyprwhspr", "desktop.file.niri",
    "desktop.file.noctalia", "desktop.fixed-displays", "desktop.fixed-input-devices",
    "desktop.literal-home-paths", "desktop.packages.install", "desktop.polkit.model",
    "desktop.polkit.shell", "desktop.session.dmrc", "devtools.file.npmrc",
    "devtools.file.zshrc", "devtools.mise.install", "devtools.toolchain.install",
    "fingerprint.build.inputs.verify", "fingerprint.build.patch.write",
    "fingerprint.build.pkgbuild.write", "fingerprint.build.root",
    "fingerprint.package.artifact.verify", "fingerprint.package.build",
    "fingerprint.package.install", "fingerprint.pam.login", "fingerprint.pam.sudo",
    "policy.bootstrapBootMutation", "policy.bootstrapPackageRemoval",
    "policy.bootstrapSystemUpdate", "policy.cosmicPrune", "policy.fingerprintPam",
    "policy.fixedDisplays", "policy.fixedInputDevices", "policy.literalHomePaths", "s1", "s2",
    "s3", "s4", "vicinae.file.environment", "vicinae.package.checkout", "vicinae.package.fetch",
    "vicinae.package.install", "vicinae.package.patch.materialize",
    "vicinae.package.patch.verify", "vicinae.service.disable", "vicinae.service.enable",
    "vicinae.shortcuts.custom", "vicinae.shortcuts.system-actions">>
MCModuleNames == <<"apps", "bootstrap", "desktop", "devtools", "fingerprint", "verify", "vicinae">>

MCPatchOf == [c1 |-> "h1", c2 |-> "h2"]
MCManagedService == [ufw |-> "ufw"]
MCDependsOn == ("cachyos-zsh-config" :> {"zsh", "docker"}) @@ ("linux-cachyos-lts" :> {})
MCNormal == [alpha |-> "alpha", beta |-> "beta", gamma |-> "gamma"]
            @@ ("Alpha." :> "alpha") @@ (" " :> "")

T(kind, value) == [kind |-> kind, value |-> value]
Launcher(v) == <<T("other", ""), T("field", v), T("comment", "")>>
MCStockContent ==
    [v1 |-> <<Launcher("cosmic-launcher"), <<T("comment", ""), T("field", "old")>> >>,
     v2 |-> <<Launcher("vicinae toggle"), <<T("string", "Launcher")>> >>,
     v3 |-> <<Launcher("cosmic-launcher"), Launcher("cosmic-launcher")>>,
     v4 |-> <<Launcher("cosmic-launcher"), <<T("open", "")>> >>]

-----------------------------------------------------------------------------
Asset(kind, owner, capability, name) ==
    [kind |-> kind, owner |-> owner, capability |-> capability, name |-> name]
RoleAssets == {Asset("role", "workstation", "", f) : f \in {"niri", "noctalia", "hyprwhspr"}}
HostAssets(h) == {Asset("host", h, c, "values") : c \in {"fixedDisplays", "literalHomePaths"}}
MCAssets == RoleAssets \cup HostAssets("alpha") \cup HostAssets("beta")

Pin(c) == [sourceCommit |-> c, patchSHA256 |-> MCPatchOf[c]]
Sources == {"google-chrome", "docker-desktop", "nordvpn-bin", "vicinae-bin"}
Global == [kind |-> "global", modules |-> [m \in KnownModules |-> FALSE],
           aurLocal |-> [p \in Sources |-> Pin("c1")]]
Workstation == [kind |-> "role", modules |-> [verify |-> FALSE], templates |-> RoleAssets]

\* The host's document enables modules, grants risks and replaces one pin.
HostDoc(modules, risks) ==
    [kind |-> "host", modules |-> [m \in modules |-> TRUE], roles |-> <<"workstation">>,
     riskPolicy |-> risks,
     templates |-> RoleAssets \cup {a \in HostAssets("alpha") : a.capability \in risks},
     aurLocal |-> [p \in {"google-chrome"} |-> Pin("c2")]]
Repository(modules, risks) ==
    [global |-> Global, roles |-> [workstation |-> Workstation],
     hosts |-> [alpha |-> HostDoc(modules, risks),
                beta |-> [kind |-> "host", riskPolicy |-> RiskCapabilities]]]

Evidence == [caps |-> [c \in RiskCapabilities |-> "ready"], unowned |-> {}, faulty |-> {},
             icons |-> [a \in WebApps |-> [declared |-> TRUE, favicon |-> TRUE]],
             remove |-> FALSE]

World(modules, risks, facts) ==
    [repository |-> Repository(modules, risks), evidence |-> Evidence, facts |-> facts,
     explicit |-> " ", hostname |-> "Alpha.", drifts |-> {}, graphs |-> {}, requests |-> {}]

\* What can change between two runs of a world.
Change(w, gone, new) ==
    [gone |-> gone, new |-> new, evidence |-> w.evidence, repository |-> w.repository]

Item(name, facts) ==
    [name |-> name, facts |-> facts, silent |-> FALSE, desired |-> "wanted", after |-> "wanted",
     owned |-> TRUE, version |-> "wanted", enabled |-> TRUE, active |-> TRUE]
NoRequest == [kind \in Kinds |-> {}]
             @@ [failedUnits |-> FALSE, pacnew |-> FALSE, fingerprint |-> FALSE]
MCRequests ==
    {[NoRequest EXCEPT !.fingerprint = TRUE],
     [NoRequest EXCEPT !.packages = {Item("ufw", {Pkg("ufw")}),
                                     [Item("paru", {Pkg("paru")}) EXCEPT !.silent = TRUE]},
                       !.services = {Item("ufw", {Service("ufw")})}],
     [NoRequest EXCEPT !.files = {Item("zsh", {File("bootstrap.zsh")})},
                       !.boot = {Item("grub.cfg", {MenuPublished})}, !.failedUnits = TRUE],
     [NoRequest EXCEPT !.pam = {Item("sudo", {File(PAMID("sudo"))})}, !.fingerprint = TRUE],
     [NoRequest EXCEPT !.validators = {Item("toolchain", {Toolchain})},
                       !.pacman = {[Item("database", {Pkg("mise")}) EXCEPT !.silent = TRUE]}]}

-----------------------------------------------------------------------------
Fresh == {Pkg("cachyos-zsh-config"), Pkg("linux-cachyos-lts"), Generator}
BootstrapWorld(risks) ==
    LET w == World({"bootstrap"}, risks, Fresh)
    IN [w EXCEPT !.requests = MCRequests,
          !.drifts = {Change(w, {Pkg("ufw"), Explicit("ufw"), Service("ufw")}, {Pkg("cachyos-zsh-config")}),
                      Change(w, {Generator, SplashRemoved}, {}),
                      [Change(w, {HookRemoved}, {}) EXCEPT
                         !.repository = Repository({"bootstrap"}, {})]}]
\* One wanted package came with an unwanted one.
DependsWorld ==
    [BootstrapWorld(BootstrapCapabilities) EXCEPT !.facts = @ \cup {Pkg("zsh"), Pkg("ufw"), Explicit("ufw")}]

\* Bootstrap and devtools on one ~/.zshrc, with the lines of CachyOS or without.
ZshWorld ==
    LET w == World({"bootstrap", "devtools"}, {}, {Pkg("paru"), Pkg("ufw"), Pkg("zsh"), Pkg(Chrome)})
    IN [w EXCEPT !.drifts = {Change(w, {}, {ZshLines}), Change(w, {ZshLines, File(DevtoolsFileID(Zshrc))}, {})}]
Unready(w, c, state) == [w EXCEPT !.evidence.caps = [@ EXCEPT ![c] = state]]

FingerprintWorld(risks) ==
    LET w == World({"fingerprint"}, risks, {Pkg(Driver)})
    IN [w EXCEPT !.requests = MCRequests,
          !.drifts = {Change(w, {AtPin}, {}), Change(w, {File(PAMID("sudo"))}, {})}]

DesktopRisks == {"fixedDisplays", "literalHomePaths", "cosmicPrune"}
WorkstationWorld(risks) ==
    LET w == World({"devtools", "desktop"}, risks, {Legacy})
    IN [w EXCEPT !.requests = MCRequests,
          !.drifts = {Change(w, {File(Session), Toolchain}, {Legacy}), Change(w, {Pkg("mise")}, {})}]

AppsWorld ==
    LET w == World({"bootstrap", "apps"}, BootstrapCapabilities, {Pkg("cachyos-zsh-config"), Pkg("docker")})
    IN [w EXCEPT !.drifts =
          {[Change(w, {}, {}) EXCEPT !.evidence.icons = [a \in WebApps |->
                                        [declared |-> FALSE, favicon |-> TRUE]]],
           [Change(w, {Pkg("nordvpn-bin")}, {}) EXCEPT
              !.repository.global.aurLocal = [p \in Sources |-> Pin("c2")]]}]

VicinaeWorld ==
    LET w == World({"vicinae"}, {}, {Stock("v1"), Pkg("paru")})
    IN [w EXCEPT !.drifts =
          {Change(w, {Stock("v1")}, {Stock("v2")}), Change(w, {Stock("v1")}, {}),
           Change(w, {Stock("v1")}, {Stock("v3")}), Change(w, {Stock("v1")}, {Stock("v4")}),
           [Change(w, {Pkg("vicinae-bin"), Service("vicinae")}, {}) EXCEPT
              !.repository.global.aurLocal = [p \in Sources |-> Pin("c2")]],
           [Change(w, {Pkg("vicinae-bin")}, {}) EXCEPT
              !.repository.global.aurLocal["vicinae-bin"].patchSHA256 = "h2"],
           [Change(w, {}, {}) EXCEPT !.evidence.remove = TRUE]}]

\* Each of these but the second is refused before anything is planned; the
\* second has no module to plan.
RefusedWorlds ==
    LET w == World({"bootstrap", "desktop"}, DesktopRisks, Fresh)
    IN [stranger  |-> [w EXCEPT !.hostname = "gamma"],
        idle      |-> [w EXCEPT !.explicit = "beta"],
        rolerisk  |-> [w EXCEPT !.repository.roles.workstation = @ @@ [riskPolicy |-> RiskCapabilities]],
        halfpin   |-> [w EXCEPT !.repository.hosts.alpha.aurLocal =
                                   [p \in {Chrome} |-> [sourceCommit |-> "c2"]]],
        notowner  |-> [w EXCEPT !.repository.hosts.alpha.templates = HostAssets("beta")],
        norole    |-> [w EXCEPT !.repository.hosts.alpha.roles = <<>>],
        noservice |-> [w EXCEPT !.evidence.faulty = {"services"}]]

-----------------------------------------------------------------------------
G(name, deps, enabled, steps) == [name |-> name, enabled |-> enabled, deps |-> deps, steps |-> steps]
S(id, module, deps) == [Step(id, module, deps, "apply", {}, {}) EXCEPT !.inverse = TRUE]

\* Every dependency among three modules, one of them perhaps unknown, and
\* every dependency among the steps of two.
ModuleGraphs ==
    {[mods |-> {G("apps", a, TRUE, {S("s1", "apps", {})}), G("devtools", d, on, {S("s2", "devtools", {})}),
                G("verify", v, FALSE, {S("s3", "verify", {})})},
      sel |-> [only |-> o, with |-> w, without |-> x]] :
        a \in SUBSET {"devtools", "verify"}, d \in SUBSET {"apps", "desktop"},
        v \in SUBSET {"apps", "devtools"}, on \in BOOLEAN, o \in {{}, {"apps"}, {"apps", "devtools"}},
        w \in {{}, {"verify"}}, x \in {{}, {"devtools"}}}
StepGraphs ==
    {[mods |-> {G("apps", a, TRUE, {S("s1", "apps", p), S("s3", "apps", q)}),
                G("devtools", {}, TRUE, {S(id, "devtools", r)})},
      sel |-> [EverySelection EXCEPT !.only = o]] :
        a \in {{}, {"devtools"}}, p \in SUBSET {"s2", "s3"}, q \in SUBSET {"s1", "s4"},
        r \in SUBSET {"s1", "s3"}, id \in {"s2", "s3"}, o \in {{}, {"apps"}, {"fingerprint"}}}
GraphWorld == [World({}, {}, {}) EXCEPT !.graphs = ModuleGraphs \cup StepGraphs]

MCWorlds ==
    [plain         |-> BootstrapWorld(BootstrapCapabilities),
     depends       |-> DependsWorld,
     zshrc         |-> ZshWorld,
     denied        |-> BootstrapWorld({"bootstrapPackageRemoval"}),
     unready       |-> Unready(BootstrapWorld(BootstrapCapabilities), "bootstrapBootMutation", "unknown"),
     fingerprint   |-> FingerprintWorld({"fingerprintPam"}),
     nofingerprint |-> FingerprintWorld({}),
     workstation   |-> WorkstationWorld(DesktopRisks),
     prune         |-> WorkstationWorld({"cosmicPrune"}),
     blocked       |-> Unready(WorkstationWorld(DesktopRisks), "cosmicPrune", "blocked"),
     apps          |-> AppsWorld,
     vicinae       |-> VicinaeWorld,
     graphs        |-> GraphWorld] @@ RefusedWorlds
=============================================================================
