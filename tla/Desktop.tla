------------------------------- MODULE Desktop -------------------------------
(***************************************************************************)
(* The desktop module of a workstation: packages, the role's files, the    *)
(* session that selects them, and after it the steps a host has to grant:  *)
(* values of its own hardware and the removal of the legacy desktop.       *)
(***************************************************************************)
EXTENDS Platform

CONSTANT DesktopPackages

Packages == "desktop.packages.install"
Session  == "desktop.session.dmrc"
Legacy   == <<"desktop", "cosmic">>
HostValues(c) == <<"desktop", c>>

\* Each asset of the role and the operation that publishes it.
WorkstationFiles == [niri |-> "desktop.file.niri", noctalia |-> "desktop.file.noctalia",
                     hyprwhspr |-> "desktop.file.hyprwhspr"]
PolkitFiles == {"desktop.polkit.model", "desktop.polkit.shell"}

GatedStep == [fixedDisplays |-> "desktop.fixed-displays",
              fixedInputDevices |-> "desktop.fixed-input-devices",
              literalHomePaths |-> "desktop.literal-home-paths"]

\* The install step asks for every package with --needed, which marks only
\* those that were not there: Leaves in Converge takes that into account.
BuildDesktopRequestPlan(policy, host) ==
    LET files == {WorkstationFiles[a.name] : a \in OwnedRoleTemplates(policy, "workstation")}
                 \cup PolkitFiles
        wants == {Pkg(p) : p \in DesktopPackages}
    IN {[ModuleRequestStep(Packages, "desktop", {}, wants, {}, host)
           EXCEPT !.gives = wants \cup {Explicit(p) : p \in DesktopPackages}],
        ManagedFileStep(Session, "desktop", {Packages} \cup files, host)}
       \cup {ManagedFileStep(f, "desktop", {Packages}, host) : f \in files}

\* A host that grants something must own what it applies.
GatedSteps(policy, evidence) ==
    {Step(GatedStep[c], "desktop", {Session}, "apply", {HostValues(c)}, {}) :
       c \in {d \in DOMAIN GatedStep : Ready(policy, evidence, d)}}

CosmicPruneStep ==
    [Step("desktop.cosmic-prune", "desktop", {Session}, "remove", {}, {Legacy})
       EXCEPT !.need = {Pkg(p) : p \in DesktopPackages} \cup {File(Session)}]

DesktopCapabilities == DOMAIN GatedStep \cup {"cosmicPrune"}

Desktop(policy, evidence, host) ==
    IF ~ModuleEnabled(policy, "desktop") THEN Valid({})
    ELSE IF ~DeclaresRole(policy, "workstation")
         THEN IF \E c \in DesktopCapabilities : Allows(policy, c) THEN Invalid ELSE Valid({})
    ELSE IF \/ {a.name : a \in OwnedRoleTemplates(policy, "workstation")}
                 # DOMAIN WorkstationFiles
            \/ ~Readable(policy, evidence, DesktopCapabilities)
            \/ \E c \in DOMAIN GatedStep :
                  Ready(policy, evidence, c) /\ OwnedHostTemplates(policy, c) = {} THEN Invalid
    ELSE Valid(BuildDesktopRequestPlan(policy, host)
               \cup GatedSteps(policy, evidence)
               \cup When(Ready(policy, evidence, "cosmicPrune"), {CosmicPruneStep})
               \cup BlockedSteps(policy, evidence, "desktop", DesktopCapabilities))
=============================================================================
