------------------------------- MODULE Devtools ------------------------------
(***************************************************************************)
(* The devtools module: mise, the configuration files that depend on it    *)
(* and a marker block in each shell's own file, and the toolchain mise     *)
(* installs from them.                                                     *)
(***************************************************************************)
EXTENDS Platform

CONSTANTS ConfigFiles, ShellFiles       \* file names below the home directory

MiseStep == "devtools.mise.install"
Toolchain == <<"devtools", "toolchain">>
DevtoolsFileID(f) == "devtools.file." \o f

\* A shell file with two marker blocks, or half of one, refuses the plan; any
\* other gets the block at its end, taken from where it was.
UpsertDevtoolsMarker(evidence) == "markers" \notin evidence.faulty

BuildDevtoolsFiles == ConfigFiles \cup ShellFiles

\* The file is written whole, with the lines around the block as they were
\* when it was planned; those of ~/.zshrc are bootstrap's to rewrite.
Zshrc == "zshrc"
ZshLines == File("bootstrap.zsh")
DevtoolsFileStep(f, host) ==
    LET s == ManagedFileStep(DevtoolsFileID(f), "devtools", {MiseStep}, host)
    IN  IF f # Zshrc THEN s
        ELSE IF ZshLines \in host THEN [s EXCEPT !.want = @ \cup {ZshLines}, !.gives = @ \cup {ZshLines}]
        ELSE [s EXCEPT !.drop = {ZshLines}]

BuildDevtoolsRequestPlan(host) ==
    {[ModuleRequestStep(MiseStep, "devtools", {}, {Pkg("mise")}, {}, host)
        EXCEPT !.gives = {Pkg("mise"), Explicit("mise")}],
     ModuleRequestStep("devtools.toolchain.install", "devtools",
        {DevtoolsFileID(f) : f \in BuildDevtoolsFiles}, {Toolchain},
        {Pkg("mise")} \cup {File(DevtoolsFileID(f)) : f \in ConfigFiles}, host)}
    \cup {DevtoolsFileStep(f, host) : f \in BuildDevtoolsFiles}

Devtools(policy, evidence, host) ==
    IF ~ModuleEnabled(policy, "devtools") THEN Valid({})
    ELSE IF ~UpsertDevtoolsMarker(evidence) THEN Invalid
    ELSE Valid(BuildDevtoolsRequestPlan(host))
=============================================================================
