------------------------------- MODULE Vicinae -------------------------------
(***************************************************************************)
(* The Vicinae launcher: its package built from a pinned source, an        *)
(* environment file, the custom shortcuts, the COSMIC system actions with  *)
(* their launcher replaced, and its user service.  Removal stops the       *)
(* service before it takes the shortcuts away, and keeps the package.      *)
(***************************************************************************)
EXTENDS Platform

CONSTANT StockContent   \* version of the stock system_actions -> its contents

VicinaePackage == "vicinae-bin"
Install     == "vicinae.package" \o ".install"
Environment == "vicinae.file.environment"
Custom      == "vicinae.shortcuts.custom"
Actions     == "vicinae.shortcuts.system-actions"
Disable     == "vicinae.service.disable"

Stock(v)    == <<"stock", v>>
Override(v) == <<"override", v>>        \* the rewritten contents of version v
StockVersions(host) == {v \in DOMAIN StockContent : Stock(v) \in host}
Overrides == {Override(v) : v \in DOMAIN StockContent}

-----------------------------------------------------------------------------
\* Contents are lines of tokens [kind, value]: a quoted "string", an "open"
\* one, a "comment" up to the end of the line, "other" text, a Launcher
\* "field" with its value, or a "malformed" one.
ParseCosmicLauncherLine(line) ==
    LET Comments == {i \in DOMAIN line : line[i].kind = "comment"}
        code     == SubSeq(line, 1, IF Comments = {} THEN Len(line)
                                    ELSE (CHOOSE i \in Comments : \A j \in Comments : i <= j) - 1)
    IN [error |-> \E i \in DOMAIN code : code[i].kind \in {"open", "malformed"},
        values |-> SelectSeq(code, LAMBDA t : t.kind = "field")]

\* The one field must be the stock launcher's, or already be Vicinae's.
RewriteCosmicSystemActions(content) ==
    LET lines  == [i \in DOMAIN content |-> ParseCosmicLauncherLine(content[i])]
        fields == FlattenSeq([i \in DOMAIN lines |-> lines[i].values])
    IN /\ \A i \in DOMAIN lines : ~lines[i].error
       /\ Len(fields) = 1
       /\ fields[1].value \in {"cosmic-launcher", "vicinae toggle"}

-----------------------------------------------------------------------------
ResolveVicinaePin(policy) ==
    HasAURPin(policy, VicinaePackage) /\ ValidateAURLocalPin(AURPin(policy, VicinaePackage))

\* A managed file that exists has to have a known owner.
NormalizeVicinaeFileObservation(evidence, files) ==
    \A f \in files : f \notin evidence.unowned

VicinaePackageSteps(policy, host) ==
    LET pin     == AURPin(policy, VicinaePackage)
        atPin   == Tree(VicinaePackage, pin.sourceCommit) \in host
        patched == atPin /\ Patch(VicinaePackage, pin.patchSHA256) \in host
    IN IF Pkg(VicinaePackage) \in host
       THEN {[Step(Install, "vicinae", {}, "satisfied", {Pkg(VicinaePackage)}, {})
                EXCEPT !.inverse = TRUE]}
       ELSE SourceSteps("vicinae.package", "vicinae", VicinaePackage, pin, {},
                        ConvergedDisposition(atPin), ConvergedDisposition(patched))

VicinaeFileStep(id, want, others, host) ==
    [ModuleRequestStep(id, "vicinae", {Install}, want, {}, host) EXCEPT !.drop = others]

InstallSteps(policy, host) ==
    LET v     == CHOOSE w \in StockVersions(host) : TRUE
        files == {VicinaeFileStep(f, {File(f)}, {}, host) : f \in {Environment, Custom}}
                 \cup When(StockVersions(host) # {},
                           {VicinaeFileStep(Actions, {Override(v)}, Overrides \ {Override(v)}, host)})
    IN VicinaePackageSteps(policy, host) \cup files
       \cup {ModuleRequestStep("vicinae.service.enable", "vicinae", {Install} \cup IDs(files),
                               {Service("vicinae")}, {Pkg(VicinaePackage)}, host)}

\* Records of what is kept, then the service, then the files that are there.
Retained(id, deps) == Step(id, "vicinae", deps, "satisfied", {}, {})
RemovedFile(id, contents, host) ==
    LET there == contents \cap host # {}
    IN [Step(id, "vicinae", {Install} \cup When(there, {Disable}),
             IF there THEN "remove" ELSE "satisfied", {}, contents) EXCEPT !.inverse = there]

RemovalSteps(host) ==
    {Retained(Install, {}), Retained(Environment, {Install}),
     [Step(Disable, "vicinae", {Install, Environment},
           ConvergedDisposition(Service("vicinae") \notin host), {}, {Service("vicinae")})
        EXCEPT !.inverse = TRUE],
     RemovedFile(Custom, {File(Custom)}, host)}
    \cup When(StockVersions(host) # {} \/ Overrides \cap host # {},
              {RemovedFile(Actions, Overrides, host)})

Vicinae(policy, evidence, host) ==
    LET stock == StockVersions(host)
        files == {Environment, Custom} \cup When(stock # {} \/ evidence.remove, {Actions})
    IN IF ~ModuleEnabled(policy, "vicinae") THEN Valid({})
       ELSE IF \/ ~evidence.remove /\ ~ResolveVicinaePin(policy)
               \/ "vicinae service" \in evidence.faulty
               \/ ~NormalizeVicinaeFileObservation(evidence, files)
               \/ \E v \in stock : ~RewriteCosmicSystemActions(StockContent[v]) THEN Invalid
       ELSE Valid(IF evidence.remove THEN RemovalSteps(host) ELSE InstallSteps(policy, host))
=============================================================================
