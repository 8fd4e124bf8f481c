---------------------------- MODULE ConvergeProofs ----------------------------
(***************************************************************************)
(* Proofs about Converge: every plan is sound, no run exercises a          *)
(* capability the host does not grant, the check fails closed, runs are    *)
(* not stopped by their own plan, and applies converge.                    *)
(***************************************************************************)
EXTENDS Converge, PlannerProofs

-------------------------------------------------------------------------------
(* Facts *)

BootFacts == {HookRemoved, ImageBuilt, SplashRemoved, MenuStaged, MenuPublished}

\* What adding or removing a fact is an exercise of is granted.
Permitted(f, granted) ==
    /\ f \in BootFacts => "bootstrapBootMutation" \in granted
    /\ f \in {File(PAMID(n)) : n \in PAMFiles} \cup {Pkg(Driver), AtPin}
          => "fingerprintPam" \in granted
    /\ \A c \in DOMAIN GatedStep : f = HostValues(c) => c \in granted
    /\ f = Legacy => "cosmicPrune" \in granted
Addable(f, granted) ==
    /\ Permitted(f, granted)
    /\ \A p \in Wanted : f = Pkg(p) => "bootstrapSystemUpdate" \in granted
Removable(f, granted) ==
    /\ Permitted(f, granted)
    /\ f[1] = "package" => "bootstrapPackageRemoval" \in granted

\* Facts of different kinds differ, and so do those of different subjects.
LEMMA FactsDiffer ==
    /\ \A x, y : Pkg(x) = Pkg(y) => x = y
    /\ \A x, y : File(x) = File(y) => x = y
    /\ \A x : /\ Pkg(x)[1] = "package" /\ File(x)[1] = "file" /\ Explicit(x)[1] = "explicit"
              /\ Service(x)[1] = "service" /\ HostValues(x)[1] = "desktop" /\ Built(x)[1] = "built"
              /\ Group(x)[1] = "group" /\ Disabled(x)[1] = "disabled"
              /\ Stock(x)[1] = "stock" /\ Override(x)[1] = "override"
    /\ \A x, y : /\ Fetched(x, y)[1] = "fetched" /\ Tree(x, y)[1] = "tree"
                 /\ Patch(x, y)[1] = "patch" /\ Icon(x, y)[1] = "icon"
    /\ AtPin[1] = "driver" /\ Legacy[1] = "desktop" /\ Legacy[2] = "cosmic"
    /\ Toolchain[1] = "devtools" /\ Generator[1] = "tool"
    /\ \A f \in BootFacts : f[1] = "boot"
    /\ \A c : HostValues(c)[2] = c
<1>1. \A x, y : Pkg(x) = Pkg(y) => x = y
  BY DEF Pkg
<1>2. \A x, y : File(x) = File(y) => x = y
  BY DEF File
<1>3. \A x : /\ Pkg(x)[1] = "package" /\ File(x)[1] = "file" /\ Explicit(x)[1] = "explicit"
             /\ Service(x)[1] = "service" /\ HostValues(x)[1] = "desktop" /\ Built(x)[1] = "built"
             /\ Group(x)[1] = "group" /\ Disabled(x)[1] = "disabled"
             /\ Stock(x)[1] = "stock" /\ Override(x)[1] = "override"
  BY DEF Pkg, File, Explicit, Service, HostValues, Built, Group, Disabled, Stock, Override
<1>4. \A x, y : /\ Fetched(x, y)[1] = "fetched" /\ Tree(x, y)[1] = "tree"
                /\ Patch(x, y)[1] = "patch" /\ Icon(x, y)[1] = "icon"
  BY DEF Fetched, Tree, Patch, Icon
<1>5. AtPin[1] = "driver" /\ Legacy[1] = "desktop" /\ Legacy[2] = "cosmic"
      /\ Toolchain[1] = "devtools" /\ Generator[1] = "tool"
  BY DEF AtPin, Legacy, Toolchain, Generator
<1>6. \A f \in BootFacts : f[1] = "boot"
  <2>1. /\ HookRemoved[1] = "boot" /\ ImageBuilt[1] = "boot" /\ SplashRemoved[1] = "boot"
        /\ MenuStaged[1] = "boot" /\ MenuPublished[1] = "boot"
    BY DEF HookRemoved, ImageBuilt, SplashRemoved, MenuStaged, MenuPublished
  <2> QED BY <2>1 DEF BootFacts
<1>7. \A c : HostValues(c)[2] = c
  BY DEF HostValues
<1> QED BY <1>1, <1>2, <1>3, <1>4, <1>5, <1>6, <1>7

\* What nothing has to be granted for.
LEMMA HarmlessFacts ==
    ASSUME NEW granted
    PROVE  /\ \A f : f[1] \notin {"boot", "package", "file", "driver", "desktop"}
                       => Addable(f, granted) /\ Removable(f, granted)
           /\ \A p : p \notin Wanted \cup {Driver} => Addable(Pkg(p), granted)
           /\ \A id : (\A n \in PAMFiles : id # PAMID(n)) =>
                Addable(File(id), granted) /\ Removable(File(id), granted)
<1>1. ASSUME NEW f, f[1] \notin {"boot", "package", "file", "driver", "desktop"}
      PROVE  Addable(f, granted) /\ Removable(f, granted)
  BY <1>1, FactsDiffer DEF Addable, Removable, Permitted
<1>2. ASSUME NEW p, p \notin Wanted \cup {Driver} PROVE Addable(Pkg(p), granted)
  <2>1. \A q \in Wanted : Pkg(p) # Pkg(q)
    BY <1>2, FactsDiffer
  <2>2. Pkg(p)[1] = "package" /\ Pkg(p) # Pkg(Driver)
    BY <1>2, FactsDiffer
  <2>3. Permitted(Pkg(p), granted)
    BY <2>2, FactsDiffer DEF Permitted
  <2> QED BY <2>1, <2>3 DEF Addable
<1>3. ASSUME NEW id, \A n \in PAMFiles : id # PAMID(n)
      PROVE  Addable(File(id), granted) /\ Removable(File(id), granted)
  <2>1. File(id)[1] = "file" /\ \A n \in PAMFiles : File(id) # File(PAMID(n))
    BY <1>3, FactsDiffer
  <2>2. Permitted(File(id), granted)
    BY <2>1, FactsDiffer DEF Permitted
  <2>3. \A p : File(id) # Pkg(p)
    BY <2>1, FactsDiffer
  <2> QED BY <2>1, <2>2, <2>3 DEF Addable, Removable
<1> QED BY <1>1, <1>2, <1>3

-------------------------------------------------------------------------------
(* Steps *)

\* A step of the module that changes what is granted, and nothing else.
Fits(s, module, granted) ==
    /\ {"id", "module", "deps", "disp", "want", "drop", "gives", "need", "loses", "inverse"} = DOMAIN s
    /\ s.id \in FactoryIDs /\ s.module = module
    /\ \A f \in s.gives : Addable(f, granted)
    /\ \A f \in s.drop : Removable(f, granted)
    /\ \A p \in s.loses : Removable(Pkg(p), granted)
Fit(steps, module, granted) ==
    IsFiniteSet(steps) /\ \A s \in steps : Fits(s, module, granted)

\* Sets of four are finite.
LEMMA FiniteFour == \A a, b, c, d : IsFiniteSet({a, b, c, d})
<1> SUFFICES ASSUME NEW a, NEW b, NEW c, NEW d PROVE IsFiniteSet({a, b, c, d})
  OBVIOUS
<1>1. IsFiniteSet({a} \cup {b}) /\ IsFiniteSet({c} \cup {d})
  BY FS_Singleton, FS_Union
<1>2. IsFiniteSet(({a} \cup {b}) \cup ({c} \cup {d}))
  BY <1>1, FS_Union
<1>3. {a, b, c, d} = ({a} \cup {b}) \cup ({c} \cup {d})
  OBVIOUS
<1> QED BY <1>2, <1>3

\* The lists are finite, and what the other modules install is neither
\* bootstrap's nor the driver.
LEMMA Lists ==
    /\ \A p \in PacmanApps \cup AURApps \cup DesktopPackages \cup {Chrome, VicinaePackage, "mise"} :
          p \notin Wanted \cup {Driver}
    /\ Driver \notin Wanted \cup Unwanted
    /\ IsFiniteSet(DOMAIN ManagedService) /\ IsFiniteSet(PAMFiles) /\ IsFiniteSet(AURApps)
    /\ IsFiniteSet(WebApps) /\ IsFiniteSet(BuildDevtoolsFiles)
<1>1. IsFiniteSet(BuildDevtoolsFiles)
  BY ConvergeAssumption, FS_Union DEF BuildDevtoolsFiles
<1> QED BY <1>1, ConvergeAssumption

LEMMA FitTogether ==
    ASSUME NEW module, NEW granted
    PROVE  /\ Fit({}, module, granted)
           /\ \A s : Fits(s, module, granted) => Fit({s}, module, granted)
           /\ \A S, T : Fit(S, module, granted) /\ Fit(T, module, granted)
                          => Fit(S \cup T, module, granted)
           /\ \A S, T : Fit(S, module, granted) /\ T \subseteq S => Fit(T, module, granted)
<1>1. Fit({}, module, granted)
  BY FS_EmptySet DEF Fit
<1>2. \A s : Fits(s, module, granted) => Fit({s}, module, granted)
  BY FS_Singleton DEF Fit
<1>3. \A S, T : Fit(S, module, granted) /\ Fit(T, module, granted) => Fit(S \cup T, module, granted)
  BY FS_Union DEF Fit
<1>4. \A S, T : Fit(S, module, granted) /\ T \subseteq S => Fit(T, module, granted)
  BY FS_Subset DEF Fit
<1> QED BY <1>1, <1>2, <1>3, <1>4

\* Steps made from the members of a finite set.
LEMMA FitEach ==
    ASSUME NEW module, NEW granted, NEW S, IsFiniteSet(S), NEW f,
           \A x \in S : Fits(f[x], module, granted)
    PROVE  Fit({f[x] : x \in S}, module, granted)
<1> DEFINE g == [x \in S |-> f[x]]
           T == {f[x] : x \in S}
<1>1. g \in Surjection(S, T)
  BY DEF Surjection
<1>2. IsFiniteSet(T)
  BY <1>1, FS_Surjection
<1> QED BY <1>2 DEF Fit

\* Steps that come in groups, one for each member of a finite set.
LEMMA FitGroups ==
    ASSUME NEW module, NEW granted, NEW groups, IsFiniteSet(groups),
           \A steps \in groups : Fit(steps, module, granted)
    PROVE  Fit(UNION groups, module, granted)
BY FS_UNION DEF Fit

\* The IDs that are made from a name.
LEMMA IDsOfEach ==
    /\ FileIDs \subseteq FactoryIDs
    /\ \A f \in PAMFiles : PAMID(f) \in FactoryIDs
    /\ \A c \in RiskCapabilities : "policy." \o c \in FactoryIDs
    /\ \A u \in DOMAIN ManagedService : "bootstrap.service." \o u \in FactoryIDs
    /\ \A c \in DOMAIN GatedStep : GatedStep[c] \in FactoryIDs
    /\ \A u \in DOMAIN AppServices : ServiceStep(u) \in FactoryIDs
    /\ \A g \in DOMAIN AppGroups : "apps.group." \o g \o ".add" \in FactoryIDs
    /\ \A a \in WebApps : "apps.webapp." \o a \o ".icon" \in FactoryIDs
    /\ Range(BuildOperations) \cup FixedIDs \cup SourceIDs \subseteq FactoryIDs
    /\ \A prefix \in SourcePrefixes : \A op \in SourceOperations : prefix \o op \in FactoryIDs
<1>1. FileIDs \subseteq FactoryIDs
  BY DEF FactoryIDs
<1>2. \A f \in PAMFiles : PAMID(f) \in FactoryIDs
  BY DEF FactoryIDs
<1>3. \A c \in RiskCapabilities : "policy." \o c \in FactoryIDs
  BY DEF FactoryIDs
<1>4. \A u \in DOMAIN ManagedService : "bootstrap.service." \o u \in FactoryIDs
  BY DEF FactoryIDs
<1>5. \A c \in DOMAIN GatedStep : GatedStep[c] \in FactoryIDs
  BY DEF FactoryIDs
<1>6. \A u \in DOMAIN AppServices : ServiceStep(u) \in FactoryIDs
  BY DEF FactoryIDs
<1>7. \A g \in DOMAIN AppGroups : "apps.group." \o g \o ".add" \in FactoryIDs
  BY DEF FactoryIDs
<1>8. \A a \in WebApps : "apps.webapp." \o a \o ".icon" \in FactoryIDs
  BY DEF FactoryIDs
<1>9. Range(BuildOperations) \cup FixedIDs \cup SourceIDs \subseteq FactoryIDs
  BY DEF FactoryIDs
<1>10. \A prefix \in SourcePrefixes : \A op \in SourceOperations : prefix \o op \in FactoryIDs
  <2> DEFINE Of(prefix) == {prefix \o op : op \in SourceOperations}
  <2>1. \A prefix \in SourcePrefixes : Of(prefix) \subseteq SourceIDs
    <3>1. SourceIDs = UNION {Of(prefix) : prefix \in SourcePrefixes}
      BY DEF SourceIDs
    <3> HIDE DEF Of
    <3> QED BY <3>1
  <2>2. \A prefix, op : op \in SourceOperations => prefix \o op \in Of(prefix)
    OBVIOUS
  <2> QED BY <1>9, <2>1, <2>2
<1> QED BY <1>1, <1>2, <1>3, <1>4, <1>5, <1>6, <1>7, <1>8, <1>9, <1>10

\* A step made of an ID of the factories and of authorized facts fits.
LEMMA StepFits ==
    ASSUME NEW granted, NEW module, NEW id \in FactoryIDs, NEW deps, NEW disp, NEW want, NEW drop,
           \A f \in want : Addable(f, granted), \A f \in drop : Removable(f, granted)
    PROVE  /\ Fits(Step(id, module, deps, disp, want, drop), module, granted)
           /\ Step(id, module, deps, disp, want, drop).id = id
BY DEF Fits, Step

\* What a factory changes of a step it has made.
LEMMA ChangedStepFits ==
    ASSUME NEW granted, NEW module, NEW s, Fits(s, module, granted)
    PROVE  /\ \A x : /\ Fits([s EXCEPT !.deps = x], module, granted)
                     /\ Fits([s EXCEPT !.disp = x], module, granted)
                     /\ Fits([s EXCEPT !.need = x], module, granted)
                     /\ Fits([s EXCEPT !.inverse = x], module, granted)
           /\ \A x : (\A f \in x : Addable(f, granted))
                       => Fits([s EXCEPT !.gives = x], module, granted)
           /\ \A x : (\A f \in x : Removable(f, granted))
                       => Fits([s EXCEPT !.drop = x], module, granted)
           /\ \A x : (\A p \in x : Removable(Pkg(p), granted))
                       => Fits([s EXCEPT !.loses = x], module, granted)
<1>1. \A x : /\ Fits([s EXCEPT !.deps = x], module, granted)
            /\ Fits([s EXCEPT !.disp = x], module, granted)
            /\ Fits([s EXCEPT !.need = x], module, granted)
            /\ Fits([s EXCEPT !.inverse = x], module, granted)
  BY DEF Fits
<1>2. \A x : (\A f \in x : Addable(f, granted)) => Fits([s EXCEPT !.gives = x], module, granted)
  BY DEF Fits
<1>3. \A x : (\A f \in x : Removable(f, granted)) => Fits([s EXCEPT !.drop = x], module, granted)
  BY DEF Fits
<1>4. \A x : (\A p \in x : Removable(Pkg(p), granted)) => Fits([s EXCEPT !.loses = x], module, granted)
  BY DEF Fits
<1> QED BY <1>1, <1>2, <1>3, <1>4

\* So does a step that a request stands for.
LEMMA RequestFits ==
    ASSUME NEW granted, NEW module, NEW id \in FactoryIDs, NEW deps, NEW want, NEW need, NEW facts,
           \A f \in want : Addable(f, granted)
    PROVE  Fits(ModuleRequestStep(id, module, deps, want, need, facts), module, granted)
BY DEF Fits, ModuleRequestStep, Step

\* So does the step of a managed file: no grant covers one outside PAM.
LEMMA ManagedFileFits ==
    ASSUME NEW granted, NEW module, NEW id \in FileIDs, NEW deps, NEW facts
    PROVE  Fits(ManagedFileStep(id, module, deps, facts), module, granted)
<1>1. id \in FactoryIDs /\ \A n \in PAMFiles : id # PAMID(n)
  BY ConvergeAssumption DEF FactoryIDs
<1>2. \A f \in {File(id)} : Addable(f, granted)
  BY <1>1, HarmlessFacts
<1> QED BY <1>1, <1>2, RequestFits DEF ManagedFileStep

\* The operations on a source tree come to nothing but an installed package.
LEMMA SourceStepsFit ==
    ASSUME NEW granted, NEW module, NEW prefix, NEW p, NEW pin, NEW after, NEW tree, NEW patch,
           p \notin Wanted \cup {Driver}, prefix \in SourcePrefixes
    PROVE  Fit(SourceSteps(prefix, module, p, pin, after, tree, patch), module, granted)
<1> DEFINE New(op, deps, disp, want, drop, need, gives) ==
             [Step(prefix \o op, module, deps, disp, want, drop)
                EXCEPT !.need = need, !.gives = gives, !.inverse = TRUE]
           Source(f) == f[1] \in {"fetched", "tree", "patch", "explicit"} \/ f = Pkg(p)
<1>1. \A f : Source(f) => Addable(f, granted) /\ (f # Pkg(p) => Removable(f, granted))
  BY HarmlessFacts
<1>2. \A x, y : Source(Fetched(x, y)) /\ Source(Tree(x, y)) /\ Source(Patch(x, y)) /\ Source(Explicit(x))
  BY FactsDiffer
<1>3. Source(Pkg(p))
  OBVIOUS
<1>4. \A x, y : Fetched(x, y) # Pkg(p) /\ Tree(x, y) # Pkg(p) /\ Patch(x, y) # Pkg(p)
  BY FactsDiffer
<1> HIDE DEF Source
<1>5. ASSUME NEW op \in SourceOperations, NEW deps, NEW disp, NEW want, NEW drop, NEW need, NEW gives,
             \A f \in gives : Source(f), \A f \in drop : Source(f) /\ f # Pkg(p)
      PROVE  Fits(New(op, deps, disp, want, drop, need, gives), module, granted)
  <2>1. prefix \o op \in FactoryIDs
    BY IDsOfEach
  <2>2. (\A f \in gives : Addable(f, granted)) /\ (\A f \in drop : Removable(f, granted))
    BY <1>1, <1>5
  <2> HIDE <1>1
  <2> QED BY <2>1, <2>2 DEF Fits, Step
<1> DEFINE c == pin.sourceCommit
           h == pin.patchSHA256
           fetch    == New(".fetch", after, "apply", {Fetched(p, c)}, {}, {}, {Fetched(p, c)})
           checkout == New(".checkout", {prefix \o ".fetch"}, tree, {Tree(p, c)},
                           {Tree(p, d) : d \in Commits \ {c}}, {Fetched(p, c)}, {Tree(p, c)})
           write    == New(".patch.materialize", {prefix \o ".checkout"}, patch, {Patch(p, h)},
                           {Patch(p, g) : g \in Patches \ {h}}, {Fetched(p, c)}, {Patch(p, PatchOf[c])})
           verify   == New(".patch.verify", {prefix \o ".patch.materialize"}, patch, {Patch(p, h)},
                           {}, {Patch(p, PatchOf[c])}, {})
           install  == New(".install", {prefix \o ".patch.verify"}, "apply", {Pkg(p)},
                           {}, {Pkg("paru"), Tree(p, c), Patch(p, h)}, {Pkg(p), Explicit(p)})
<1>6. SourceSteps(prefix, module, p, pin, after, tree, patch)
        = {fetch, checkout, write, verify, install}
  BY DEF SourceSteps
<1> HIDE DEF New
<1> USE DEF SourceOperations
<1>7. Fits(fetch, module, granted)
  BY <1>2, <1>5
<1>8. Fits(checkout, module, granted)
  BY <1>2, <1>4, <1>5
<1>9. Fits(write, module, granted)
  BY <1>2, <1>4, <1>5
<1>10. Fits(verify, module, granted)
  BY <1>5
<1>11. Fits(install, module, granted)
  BY <1>2, <1>3, <1>5
<1> HIDE DEF fetch, checkout, write, verify, install
<1>12. IsFiniteSet({fetch, checkout, write, verify, install})
  <2>1. IsFiniteSet({fetch, checkout, write, verify} \cup {install})
    BY FiniteFour, FS_Singleton, FS_Union
  <2>2. {fetch, checkout, write, verify, install} = {fetch, checkout, write, verify} \cup {install}
    OBVIOUS
  <2> QED BY <2>1, <2>2
<1> QED BY <1>6, <1>7, <1>8, <1>9, <1>10, <1>11, <1>12 DEF Fit

-------------------------------------------------------------------------------
(* The factories *)

\* What a factory may take for granted.
Grants(policy, observed) == {c \in RiskCapabilities : Ready(policy, observed, c)}

\* The record of a blocked capability changes nothing.
LEMMA BlockedStepsFit ==
    ASSUME NEW policy, NEW observed, NEW module, NEW granted,
           NEW capabilities \in SUBSET RiskCapabilities
    PROVE  Fit(BlockedSteps(policy, observed, module, capabilities), module, granted)
<1> DEFINE blocked == {d \in capabilities :
                         CapabilityEvidence(policy, observed, d) \in {"blocked", "unknown"}}
           f == [c \in blocked |-> BlockedPolicyStep(module, c)]
<1>1. IsFiniteSet(RiskCapabilities)
  <2>1. IsFiniteSet({"fingerprintPam", "fixedDisplays", "fixedInputDevices", "literalHomePaths"})
    BY FiniteFour
  <2>2. IsFiniteSet({"bootstrapSystemUpdate", "bootstrapPackageRemoval",
                     "bootstrapBootMutation", "cosmicPrune"})
    BY FiniteFour
  <2>3. IsFiniteSet({"fingerprintPam", "fixedDisplays", "fixedInputDevices", "literalHomePaths"}
                    \cup {"bootstrapSystemUpdate", "bootstrapPackageRemoval",
                          "bootstrapBootMutation", "cosmicPrune"})
    BY <2>1, <2>2, FS_Union
  <2> QED BY <2>3 DEF RiskCapabilities
<1>2. IsFiniteSet(blocked)
  BY <1>1, FS_Subset
<1>3. ASSUME NEW c \in blocked PROVE Fits(f[c], module, granted)
  <2>1. "policy." \o c \in FactoryIDs
    <3>1. c \in RiskCapabilities
      OBVIOUS
    <3> QED BY <3>1, IDsOfEach
  <2> QED BY <2>1, StepFits DEF BlockedPolicyStep
<1>4. BlockedSteps(policy, observed, module, capabilities) = {f[c] : c \in blocked}
  BY DEF BlockedSteps
<1> HIDE DEF f, blocked
<1> QED BY <1>2, <1>3, <1>4, FitEach

LEMMA BootstrapRequestFits ==
    ASSUME NEW granted, NEW id \in FactoryIDs, NEW want, NEW drop, NEW need,
           \A f \in want : Addable(f, granted), \A f \in drop : Removable(f, granted)
    PROVE  Fits(BootstrapRequest(id, want, drop, need), "bootstrap", granted)
BY DEF Fits, BootstrapRequest, Step

LEMMA BootstrapIDs ==
    {"bootstrap.packages.install", "bootstrap.packages.remove", "bootstrap.packages.explicit",
     "bootstrap.boot.plymouth-edit", "bootstrap.boot.mkinitcpio", "bootstrap.boot.grub-edit",
     "bootstrap.boot.grub-generate", "bootstrap.boot.grub-publish", "bootstrap.kernel.lts"}
      \subseteq FactoryIDs
BY IDsOfEach DEF FixedIDs

\* Packages are installed and removed only where that is authorized.
LEMMA PackageRequestsFit ==
    ASSUME NEW facts, NEW authorization, NEW granted, authorization \subseteq granted
    PROVE  Fit(PackageRequests(facts, authorization), "bootstrap", granted)
<1> DEFINE missing  == Wanted \ InstalledIndex(facts, Wanted)
           removed  == RemovalDelta(facts)
           explicit == ExplicitDelta(facts, When("bootstrapSystemUpdate" \in authorization, missing))
           install  == [BootstrapRequest("bootstrap.packages.install", {Pkg(p) : p \in missing}, {}, {})
                          EXCEPT !.gives = {Pkg(p) : p \in missing} \cup {Explicit(p) : p \in missing}]
           plain    == BootstrapRequest("bootstrap.packages.remove", {}, {Pkg(p) : p \in removed},
                                        {Pkg(p) : p \in removed})
           along    == Unneeded(facts, removed)
           remove   == [plain EXCEPT !.loses = along]
           mark     == BootstrapRequest("bootstrap.packages.explicit", {Explicit(p) : p \in explicit}, {},
                                        {Pkg(p) : p \in explicit})
<1>1. PackageRequests(facts, authorization)
        = When("bootstrapSystemUpdate" \in authorization /\ missing # {}, {install})
          \cup When("bootstrapPackageRemoval" \in authorization /\ removed # {}, {remove})
          \cup When(explicit # {}, {mark})
  BY DEF PackageRequests
<1>2. ASSUME "bootstrapSystemUpdate" \in authorization PROVE Fits(install, "bootstrap", granted)
  <2>1. \A f \in {Pkg(p) : p \in missing} \cup {Explicit(p) : p \in missing} : Addable(f, granted)
    <3>1. \A p \in Wanted : Addable(Pkg(p), granted)
      BY <1>2, FactsDiffer, Lists DEF Addable, Permitted
    <3> HIDE DEF removed, explicit
    <3> QED BY <3>1, HarmlessFacts, FactsDiffer
  <2> HIDE DEF missing
  <2>2. Fits(BootstrapRequest("bootstrap.packages.install", {Pkg(p) : p \in missing}, {}, {}),
             "bootstrap", granted)
    BY <2>1, BootstrapRequestFits, BootstrapIDs
  <2> QED BY <2>1, <2>2, ChangedStepFits
<1>3. ASSUME "bootstrapPackageRemoval" \in authorization PROVE Fits(remove, "bootstrap", granted)
  <2>1. removed \subseteq Unwanted /\ Driver \notin removed
    BY Lists DEF RemovalDelta, InstalledIndex
  <2>2. Driver \notin along
    BY <2>1, ConvergeAssumption DEF Unneeded, InstalledIndex
  <2> HIDE DEF missing, removed, explicit, along
  <2>3. \A p : p # Driver => Removable(Pkg(p), granted)
    BY <1>3, FactsDiffer DEF Removable, Permitted
  <2>4. Fits(plain, "bootstrap", granted)
    BY <2>1, <2>3, BootstrapRequestFits, BootstrapIDs
  <2> QED BY <2>2, <2>3, <2>4, ChangedStepFits
<1>4. Fits(mark, "bootstrap", granted)
  <2> HIDE DEF missing, removed, explicit
  <2>1. \A f \in {Explicit(p) : p \in explicit} : Addable(f, granted)
    BY HarmlessFacts, FactsDiffer
  <2> QED BY <2>1, BootstrapRequestFits, BootstrapIDs
<1> HIDE DEF install, remove, mark, missing, removed, explicit, plain, along
<1>5. /\ Fit(When("bootstrapSystemUpdate" \in authorization /\ missing # {}, {install}),
             "bootstrap", granted)
      /\ Fit(When("bootstrapPackageRemoval" \in authorization /\ removed # {}, {remove}),
             "bootstrap", granted)
      /\ Fit(When(explicit # {}, {mark}), "bootstrap", granted)
  BY <1>2, <1>3, <1>4, FitTogether DEF When
<1> QED BY <1>1, <1>5, FitTogether

\* The boot steps change what the grant for the boot configuration covers.
LEMMA BootRequestsFit ==
    ASSUME NEW facts, NEW granted, "bootstrapBootMutation" \in granted
    PROVE  Fit(BootRequests(facts), "bootstrap", granted)
<1> DEFINE Request(id, want, need) == BootstrapRequest(id, want, {}, need)
           hook    == Request("bootstrap.boot.plymouth-edit", {HookRemoved}, {})
           image   == Request("bootstrap.boot.mkinitcpio", {ImageBuilt}, {HookRemoved})
           splash  == Request("bootstrap.boot.grub-edit", {SplashRemoved}, {})
           menu    == Request("bootstrap.boot.grub-generate", {MenuStaged}, {SplashRemoved, Generator})
           publish == GRUBPublishStep(facts)
<1>1. \A f \in BootFacts : Addable(f, granted) /\ Removable(f, granted)
  BY FactsDiffer DEF Addable, Removable, Permitted
<1>2. {HookRemoved, ImageBuilt, SplashRemoved, MenuStaged, MenuPublished} \subseteq BootFacts
  BY DEF BootFacts
<1>3. Fits(hook, "bootstrap", granted) /\ Fits(image, "bootstrap", granted)
  BY <1>1, <1>2, BootstrapRequestFits, BootstrapIDs
<1>4. Fits(splash, "bootstrap", granted) /\ Fits(menu, "bootstrap", granted)
  BY <1>1, <1>2, BootstrapRequestFits, BootstrapIDs
<1>5. Fits(publish, "bootstrap", granted)
  <2>1. Fits(BootstrapRequest("bootstrap.boot.grub-publish", {MenuPublished}, {MenuStaged}, {MenuStaged}),
             "bootstrap", granted)
    BY <1>1, <1>2, BootstrapRequestFits, BootstrapIDs
  <2> QED BY <2>1, ChangedStepFits DEF GRUBPublishStep
<1>6. BootRequests(facts) = When(HookRemoved \notin facts, {hook, image})
                            \cup When(SplashRemoved \notin facts, {splash, publish})
                            \cup When(SplashRemoved \notin facts /\ Generator \in facts, {menu})
  BY DEF BootRequests
<1> HIDE DEF hook, image, splash, menu, publish
<1>7. Fit({hook, image, splash, publish} \cup {menu}, "bootstrap", granted)
  BY <1>3, <1>4, <1>5, FiniteFour, FS_Singleton, FS_Union DEF Fit
<1>8. BootRequests(facts) \subseteq {hook, image, splash, publish} \cup {menu}
  BY <1>6 DEF When
<1> QED BY <1>7, <1>8, FitTogether

\* Services need no grant.
LEMMA ServiceStepsFit ==
    ASSUME NEW facts, NEW granted
    PROVE  Fit(ServiceSteps(facts), "bootstrap", granted)
<1> DEFINE S == ServiceRequests(facts)
           f == [u \in S |-> BootstrapRequest("bootstrap.service." \o u, {Service(u)}, {},
                                              {Pkg(ManagedService[u])})]
<1>1. S \subseteq DOMAIN ManagedService /\ IsFiniteSet(S)
  BY Lists, FS_Subset DEF ServiceRequests
<1>2. ASSUME NEW u \in S PROVE Fits(f[u], "bootstrap", granted)
  <2>1. \A g \in {Service(u)} : Addable(g, granted)
    BY HarmlessFacts, FactsDiffer
  <2>2. "bootstrap.service." \o u \in FactoryIDs
    BY <1>1, IDsOfEach
  <2> QED BY <2>1, <2>2, BootstrapRequestFits
<1>3. ServiceSteps(facts) = {f[u] : u \in S}
  BY DEF ServiceSteps
<1> HIDE DEF S, f
<1> QED BY <1>1, <1>2, <1>3, FitEach

\* The steps of bootstrap fit what is granted.
LEMMA BootstrapFits ==
    ASSUME NEW policy, NEW observed, NEW facts, Bootstrap(policy, observed, facts).valid
    PROVE  Fit(Bootstrap(policy, observed, facts).steps, "bootstrap", Grants(policy, observed))
<1> DEFINE granted == Grants(policy, observed)
           authorization == {c \in BootstrapCapabilities : Ready(policy, observed, c)}
           base == PackageRequests(facts, authorization)
                   \cup When("bootstrapBootMutation" \in authorization, BootRequests(facts))
                   \cup ServiceSteps(facts) \cup ChromeRequests(policy, facts)
                   \cup {LTSStep(facts), ZshStep(facts)}
           deps == BootstrapDependencies(IDs(base))
           f == [s \in base |-> [s EXCEPT !.deps = @ \cup deps[s.id]]]
           blocked == BlockedSteps(policy, observed, "bootstrap", BootstrapCapabilities)
<1>1. authorization \subseteq granted /\ BootstrapCapabilities \in SUBSET RiskCapabilities
  BY DEF Grants, BootstrapCapabilities, RiskCapabilities
<1>2. Bootstrap(policy, observed, facts).steps \in {{}, {f[s] : s \in base} \cup blocked}
  <2>1. BuildBootstrapModule(policy, facts, authorization) = {f[s] : s \in base}
    BY DEF BuildBootstrapModule
  <2> QED BY <2>1 DEF Bootstrap, Valid, Invalid
<1> HIDE DEF authorization, granted
<1>3. Fit(PackageRequests(facts, authorization), "bootstrap", granted)
  BY <1>1, PackageRequestsFit
<1>4. Fit(When("bootstrapBootMutation" \in authorization, BootRequests(facts)), "bootstrap", granted)
  BY <1>1, BootRequestsFit, FitTogether DEF When
<1>5. Fit(ServiceSteps(facts), "bootstrap", granted)
  BY ServiceStepsFit
<1>6. Fit(ChromeRequests(policy, facts), "bootstrap", granted)
  <2>1. Chrome \notin Wanted \cup {Driver}
    BY Lists
  <2>2. "bootstrap.chrome" \in SourcePrefixes
    BY DEF SourcePrefixes
  <2>3. Fit(SourceSteps("bootstrap.chrome", "bootstrap", Chrome, AURPin(policy, Chrome), {},
                        "apply", "apply"), "bootstrap", granted)
    BY <2>1, <2>2, SourceStepsFit
  <2> QED BY <2>3, FitTogether DEF ChromeRequests, When
<1>7. Fit({LTSStep(facts)}, "bootstrap", granted) /\ Fit({ZshStep(facts)}, "bootstrap", granted)
  <2>1. Fits(LTSStep(facts), "bootstrap", granted)
    BY StepFits, BootstrapIDs DEF LTSStep
  <2>2. "bootstrap.zsh" \in FileIDs
    BY DEF FileIDs
  <2>3. Fits(ManagedFileStep("bootstrap.zsh", "bootstrap", {}, facts), "bootstrap", granted)
    BY <2>2, ManagedFileFits
  <2>4. Fits(ZshStep(facts), "bootstrap", granted)
    BY <2>3, ChangedStepFits DEF ZshStep
  <2> QED BY <2>1, <2>4, FitTogether
<1>8. Fit(base, "bootstrap", granted)
  <2> DEFINE packages == PackageRequests(facts, authorization)
             boot     == When("bootstrapBootMutation" \in authorization, BootRequests(facts))
             services == ServiceSteps(facts)
             chrome   == ChromeRequests(policy, facts)
  <2>1. base = ((((packages \cup boot) \cup services) \cup chrome) \cup {LTSStep(facts)})
               \cup {ZshStep(facts)}
    OBVIOUS
  <2> HIDE DEF base, packages, boot, services, chrome
  <2>2. Fit(packages \cup boot, "bootstrap", granted)
    BY <1>3, <1>4, FitTogether DEF packages, boot
  <2>3. Fit((packages \cup boot) \cup services, "bootstrap", granted)
    BY <1>5, <2>2, FitTogether DEF services
  <2>4. Fit(((packages \cup boot) \cup services) \cup chrome, "bootstrap", granted)
    BY <1>6, <2>3, FitTogether DEF chrome
  <2>5. Fit((((packages \cup boot) \cup services) \cup chrome) \cup {LTSStep(facts)},
            "bootstrap", granted)
    BY <1>7, <2>4, FitTogether
  <2> QED BY <1>7, <2>1, <2>5, FitTogether
<1> HIDE DEF base, deps
<1>9. Fit({f[s] : s \in base}, "bootstrap", granted)
  <2>1. \A s \in base : Fits(f[s], "bootstrap", granted)
    BY <1>8, ChangedStepFits DEF Fit
  <2> HIDE DEF f
  <2> QED BY <1>8, <2>1, FitEach DEF Fit
<1>10. Fit(blocked, "bootstrap", granted)
  BY <1>1, BlockedStepsFit
<1> HIDE DEF f, blocked
<1> QED BY <1>2, <1>9, <1>10, FitTogether DEF granted

\* The build and installation of the driver fit the grant for PAM.
LEMMA BuildRequestsFit ==
    ASSUME NEW facts, NEW granted, "fingerprintPam" \in granted
    PROVE  Fit(BuildRequests(facts), "fingerprint", granted)
<1> DEFINE Need(i) == IF i = 1 THEN {} ELSE {Built(BuildOperations[i - 1])}
           Dep(i)  == IF i = 1 THEN {} ELSE {BuildOperations[i - 1]}
           last    == Last(BuildOperations)
           f == [i \in DOMAIN BuildOperations |->
                   [Step(BuildOperations[i], "fingerprint", Dep(i), "apply",
                         {Built(BuildOperations[i])}, {}) EXCEPT !.need = Need(i)]]
           install == [Step(InstallOperation, "fingerprint", {last}, "apply", {Pkg(Driver), AtPin}, {})
                         EXCEPT !.need = {Built(last)}, !.inverse = TRUE]
<1>1. DOMAIN BuildOperations = 1..6
  BY DEF BuildOperations
<1>2. ASSUME NEW i \in DOMAIN BuildOperations PROVE Fits(f[i], "fingerprint", granted)
  <2>1. BuildOperations[i] \in FactoryIDs
    BY IDsOfEach DEF Range
  <2>2. \A g \in {Built(BuildOperations[i])} : Addable(g, granted)
    BY HarmlessFacts, FactsDiffer
  <2>3. Fits(Step(BuildOperations[i], "fingerprint", Dep(i), "apply",
                  {Built(BuildOperations[i])}, {}), "fingerprint", granted)
    <3> HIDE DEF Dep
    <3> QED BY <2>1, <2>2, StepFits
  <2> HIDE DEF Dep, Need
  <2> QED BY <2>3, ChangedStepFits
<1>3. Fits(install, "fingerprint", granted)
  <2>1. \A g \in {Pkg(Driver), AtPin} : Addable(g, granted)
    BY FactsDiffer, Lists DEF Addable, Permitted
  <2>2. InstallOperation \in FactoryIDs
    BY IDsOfEach DEF FixedIDs
  <2> HIDE DEF last
  <2>3. Fits(Step(InstallOperation, "fingerprint", {last}, "apply", {Pkg(Driver), AtPin}, {}),
             "fingerprint", granted)
    BY <2>1, <2>2, StepFits
  <2> QED BY <2>3, ChangedStepFits
<1>4. BuildRequests(facts) = {f[i] : i \in DOMAIN BuildOperations} \cup {install}
  BY DEF BuildRequests
<1> HIDE DEF f, install
<1>5. Fit({f[i] : i \in DOMAIN BuildOperations}, "fingerprint", granted)
  <2>1. IsFiniteSet(DOMAIN BuildOperations)
    <3>1. IsFiniteSet({1, 2, 3, 4} \cup {5, 6, 6, 6})
      BY FiniteFour, FS_Union
    <3>2. 1..6 = {1, 2, 3, 4} \cup {5, 6, 6, 6}
      OBVIOUS
    <3> QED BY <1>1, <3>1, <3>2
  <2> QED BY <1>2, <2>1, FitEach
<1> QED BY <1>3, <1>4, <1>5, FitTogether

\* So do the files of PAM.
LEMMA PAMFileStepsFit ==
    ASSUME NEW facts, NEW granted, "fingerprintPam" \in granted
    PROVE  Fit(PAMFileSteps(facts), "fingerprint", granted)
<1> DEFINE f == [n \in PAMFiles |->
                   [ManagedFileStep(PAMID(n), "fingerprint", {InstallOperation}, facts)
                      EXCEPT !.need = {Pkg(Driver), AtPin}]]
<1>1. ASSUME NEW n \in PAMFiles PROVE Fits(f[n], "fingerprint", granted)
  <2>1. \A g \in {File(PAMID(n))} : Addable(g, granted)
    BY FactsDiffer DEF Addable, Permitted
  <2>2. PAMID(n) \in FactoryIDs
    BY IDsOfEach
  <2>3. Fits(ManagedFileStep(PAMID(n), "fingerprint", {InstallOperation}, facts),
             "fingerprint", granted)
    BY <2>1, <2>2, RequestFits DEF ManagedFileStep
  <2> QED BY <2>3, ChangedStepFits
<1>2. PAMFileSteps(facts) = {f[n] : n \in PAMFiles}
  BY DEF PAMFileSteps
<1> HIDE DEF f
<1>3. IsFiniteSet(PAMFiles)
  BY Lists
<1>4. Fit({f[n] : n \in PAMFiles}, "fingerprint", granted)
  BY <1>1, <1>3, FitEach
<1> QED BY <1>2, <1>4

\* The steps of fingerprint fit what is granted.
LEMMA FingerprintFits ==
    ASSUME NEW policy, NEW observed, NEW facts, Fingerprint(policy, observed, facts).valid
    PROVE  Fit(Fingerprint(policy, observed, facts).steps, "fingerprint", Grants(policy, observed))
<1> DEFINE granted == Grants(policy, observed)
           result == Fingerprint(policy, observed, facts)
           blocked == BlockedSteps(policy, observed, "fingerprint", {"fingerprintPam"})
<1>1. CASE Ready(policy, observed, "fingerprintPam")
  <2>1. result.steps \in {{}, BuildFingerprintPlan(facts)}
    BY <1>1 DEF Fingerprint, Valid, Invalid
  <2>2. "fingerprintPam" \in granted
    BY <1>1 DEF Grants, RiskCapabilities
  <2> HIDE DEF granted, result
  <2>3. Fits(FingerprintPackageStep, "fingerprint", granted)
    <3>1. \A g \in {Pkg(Driver), AtPin} : Addable(g, granted)
      BY <2>2, FactsDiffer, Lists DEF Addable, Permitted
    <3>2. InstallOperation \in FactoryIDs
      BY IDsOfEach DEF FixedIDs
    <3> QED BY <3>1, <3>2, StepFits DEF FingerprintPackageStep
  <2>4. Fit(BuildFingerprintPlan(facts), "fingerprint", granted)
    BY <2>2, <2>3, BuildRequestsFit, PAMFileStepsFit, FitTogether DEF BuildFingerprintPlan
  <2> QED BY <2>1, <2>4, FitTogether DEF granted, result
<1>2. CASE ~Ready(policy, observed, "fingerprintPam")
  <2>1. result.steps \in {{}, blocked}
    BY <1>2 DEF Fingerprint, Valid, Invalid
  <2>2. {"fingerprintPam"} \in SUBSET RiskCapabilities
    BY DEF RiskCapabilities
  <2>3. Fit(blocked, "fingerprint", granted)
    <3> HIDE DEF granted
    <3> QED BY <2>2, BlockedStepsFit
  <2> HIDE DEF granted, result, blocked
  <2> QED BY <2>1, <2>3, FitTogether DEF granted, result
<1> QED BY <1>1, <1>2

\* The steps of devtools fit whatever is granted.
LEMMA DevtoolsFits ==
    ASSUME NEW policy, NEW observed, NEW facts, NEW granted, Devtools(policy, observed, facts).valid
    PROVE  Fit(Devtools(policy, observed, facts).steps, "devtools", granted)
<1> DEFINE mise == [ModuleRequestStep(MiseStep, "devtools", {}, {Pkg("mise")}, {}, facts)
                      EXCEPT !.gives = {Pkg("mise"), Explicit("mise")}]
           deps == {DevtoolsFileID(n) : n \in BuildDevtoolsFiles}
           need == {Pkg("mise")} \cup {File(DevtoolsFileID(n)) : n \in ConfigFiles}
           tools == ModuleRequestStep("devtools.toolchain.install", "devtools", deps, {Toolchain},
                                      need, facts)
           f == [n \in BuildDevtoolsFiles |-> DevtoolsFileStep(n, facts)]
<1>1. Fits(mise, "devtools", granted)
  <2>1. \A g \in {Pkg("mise"), Explicit("mise")} : Addable(g, granted)
    <3>1. "mise" \notin Wanted \cup {Driver}
      BY Lists
    <3> QED BY <3>1, HarmlessFacts, FactsDiffer
  <2>2. MiseStep \in FactoryIDs
    BY IDsOfEach DEF FixedIDs
  <2>3. Fits(ModuleRequestStep(MiseStep, "devtools", {}, {Pkg("mise")}, {}, facts), "devtools", granted)
    BY <2>1, <2>2, RequestFits
  <2> QED BY <2>1, <2>3, ChangedStepFits
<1>2. Fits(tools, "devtools", granted)
  <2>1. \A g \in {Toolchain} : Addable(g, granted)
    BY HarmlessFacts, FactsDiffer
  <2>2. "devtools.toolchain.install" \in FactoryIDs
    BY IDsOfEach DEF FixedIDs
  <2> HIDE DEF deps, need
  <2> QED BY <2>1, <2>2, RequestFits
<1>3. \A n \in BuildDevtoolsFiles : Fits(f[n], "devtools", granted)
  <2> SUFFICES ASSUME NEW n \in BuildDevtoolsFiles PROVE Fits(f[n], "devtools", granted)
    OBVIOUS
  <2> DEFINE s == ManagedFileStep(DevtoolsFileID(n), "devtools", {MiseStep}, facts)
             t == [s EXCEPT !.want = @ \cup {ZshLines}]
  <2>1. DevtoolsFileID(n) \in FileIDs /\ "bootstrap.zsh" \in FileIDs
    BY DEF FileIDs
  <2>2. \A m \in PAMFiles : "bootstrap.zsh" # PAMID(m)
    BY <2>1, ConvergeAssumption
  <2>3. Addable(ZshLines, granted) /\ Removable(ZshLines, granted)
    BY <2>2, HarmlessFacts DEF ZshLines
  <2>4. Fits(s, "devtools", granted)
    BY <2>1, ManagedFileFits
  <2>5. f[n] = DevtoolsFileStep(n, facts)
    OBVIOUS
  <2> HIDE DEF s, f
  <2>6. Fits(t, "devtools", granted) /\ t.gives = s.gives
    BY <2>4 DEF Fits
  <2>7. \A g \in t.gives \cup {ZshLines} : Addable(g, granted)
    BY <2>3, <2>6 DEF Fits
  <2>8. Fits([t EXCEPT !.gives = @ \cup {ZshLines}], "devtools", granted)
    BY <2>6, <2>7, ChangedStepFits
  <2>9. Fits([s EXCEPT !.drop = {ZshLines}], "devtools", granted)
    BY <2>3, <2>4, ChangedStepFits
  <2>10. [t EXCEPT !.gives = @ \cup {ZshLines}]
           = [s EXCEPT !.want = @ \cup {ZshLines}, !.gives = @ \cup {ZshLines}]
    BY <2>4 DEF Fits
  <2>11. DevtoolsFileStep(n, facts) \in {s, [t EXCEPT !.gives = @ \cup {ZshLines}],
                                          [s EXCEPT !.drop = {ZshLines}]}
    BY <2>10 DEF DevtoolsFileStep, s
  <2> QED BY <2>4, <2>5, <2>8, <2>9, <2>11
<1>4. IsFiniteSet(BuildDevtoolsFiles)
  BY Lists
<1>5. BuildDevtoolsRequestPlan(facts) = ({mise} \cup {tools}) \cup {f[n] : n \in BuildDevtoolsFiles}
  BY DEF BuildDevtoolsRequestPlan
<1>6. Devtools(policy, observed, facts).steps \in {{}, BuildDevtoolsRequestPlan(facts)}
  BY DEF Devtools, Valid, Invalid
<1> HIDE DEF mise, tools, f
<1>7. Fit({mise} \cup {tools}, "devtools", granted)
  BY <1>1, <1>2, FitTogether
<1>8. Fit({f[n] : n \in BuildDevtoolsFiles}, "devtools", granted)
  BY <1>3, <1>4, FitEach
<1>9. Fit(({mise} \cup {tools}) \cup {f[n] : n \in BuildDevtoolsFiles}, "devtools", granted)
  BY <1>7, <1>8, FitTogether
<1> QED BY <1>5, <1>6, <1>9, FitTogether

LEMMA AppsRequestsFit ==
    ASSUME NEW facts, NEW granted
    PROVE  /\ Fits(AppsPackageStep(facts), "apps", granted)
           /\ Fits(AppsExplicitStep(facts), "apps", granted)
           /\ Fits(AddDockerDesktopDisable(facts), "apps", granted)
           /\ \A u \in DOMAIN AppServices : Fits(AddAppsService(facts, u), "apps", granted)
           /\ \A g \in DOMAIN AppGroups : Fits(AddAppsGroup(facts, g), "apps", granted)
<1>1. {PacmanStep, "apps.packages.explicit", "apps.service.docker-desktop.disable"} \subseteq FactoryIDs
  BY IDsOfEach DEF FixedIDs
<1>2. \A x : /\ Addable(Explicit(x), granted) /\ Addable(Service(x), granted)
             /\ Addable(Group(x), granted) /\ Addable(Disabled(x), granted)
  BY HarmlessFacts, FactsDiffer
<1>3. Fits(AppsPackageStep(facts), "apps", granted)
  <2> DEFINE missing == MissingPackages(facts, PacmanApps)
             want == {Pkg(p) : p \in missing}
             gives == want \cup {Explicit(p) : p \in missing}
             s == ModuleRequestStep(PacmanStep, "apps", {}, want, {}, facts)
  <2>1. \A p \in missing : Addable(Pkg(p), granted)
    BY Lists, HarmlessFacts DEF MissingPackages
  <2> HIDE DEF missing
  <2>2. (\A f \in want : Addable(f, granted)) /\ \A f \in gives : Addable(f, granted)
    BY <1>2, <2>1
  <2>3. AppsPackageStep(facts) = [s EXCEPT !.gives = gives]
    BY DEF AppsPackageStep, missing
  <2> HIDE DEF want, gives
  <2>4. Fits(s, "apps", granted)
    BY <1>1, <2>2, RequestFits
  <2> HIDE DEF s
  <2> QED BY <2>2, <2>3, <2>4, ChangedStepFits
<1>4. Fits(AppsExplicitStep(facts), "apps", granted)
  <2> DEFINE marks == {p \in PacmanApps \cup AURApps : Explicit(p) \notin facts}
             want == {Explicit(p) : p \in marks}
             deps == When(marks # {}, {PacmanStep} \cup {AURStep(p) : p \in AURApps})
             need == {Pkg(p) : p \in marks}
  <2>1. \A f \in want : Addable(f, granted)
    BY <1>2
  <2>2. AppsExplicitStep(facts)
          = ModuleRequestStep("apps.packages.explicit", "apps", deps, want, need, facts)
    BY DEF AppsExplicitStep
  <2> HIDE DEF marks, want, deps, need
  <2> QED BY <1>1, <2>1, <2>2, RequestFits
<1>5. Fits(AddDockerDesktopDisable(facts), "apps", granted)
  <2>1. \A f \in {Disabled("docker-desktop")} : Addable(f, granted)
    BY <1>2
  <2> QED BY <1>1, <2>1, RequestFits DEF AddDockerDesktopDisable
<1>6. ASSUME NEW u \in DOMAIN AppServices PROVE Fits(AddAppsService(facts, u), "apps", granted)
  <2>1. (\A f \in {Service(u)} : Addable(f, granted)) /\ ServiceStep(u) \in FactoryIDs
    BY <1>2, IDsOfEach
  <2> QED BY <2>1, RequestFits DEF AddAppsService
<1>7. ASSUME NEW g \in DOMAIN AppGroups PROVE Fits(AddAppsGroup(facts, g), "apps", granted)
  <2>1. (\A f \in {Group(g)} : Addable(f, granted))
        /\ "apps.group." \o g \o ".add" \in FactoryIDs
    BY <1>2, IDsOfEach
  <2> QED BY <2>1, RequestFits DEF AddAppsGroup
<1> QED BY <1>3, <1>4, <1>5, <1>6, <1>7

\* Packages of the AUR fit: none of them is bootstrap's or the driver.
LEMMA AURStepsFit ==
    ASSUME NEW policy, NEW facts, NEW granted
    PROVE  Fit(UNION {IF Pkg(p) \in facts THEN {AppsSatisfiedAURStep(p)}
                      ELSE AddPinnedAURInstall(policy, facts, p) : p \in AURApps}, "apps", granted)
<1> DEFINE f == [p \in AURApps |-> IF Pkg(p) \in facts THEN {AppsSatisfiedAURStep(p)}
                                   ELSE AddPinnedAURInstall(policy, facts, p)]
<1>1. ASSUME NEW p \in AURApps PROVE Fit(f[p], "apps", granted)
  <2>1. p \notin Wanted \cup {Driver} /\ "apps.aur." \o p \in SourcePrefixes
    BY Lists DEF SourcePrefixes
  <2>2. Fit(AddPinnedAURInstall(policy, facts, p), "apps", granted)
    BY <2>1, SourceStepsFit DEF AddPinnedAURInstall
  <2>3. Fits(AppsSatisfiedAURStep(p), "apps", granted)
    <3>1. AURStep(p) \in FactoryIDs
      BY <2>1, IDsOfEach DEF AURStep, SourceOperations
    <3>2. \A g \in {Pkg(p)} : Addable(g, granted)
      BY <2>1, HarmlessFacts
    <3>3. Fits(Step(AURStep(p), "apps", {}, "satisfied", {Pkg(p)}, {}), "apps", granted)
      BY <3>1, <3>2, StepFits
    <3> QED BY <3>3, ChangedStepFits DEF AppsSatisfiedAURStep
  <2> QED BY <2>2, <2>3, FitTogether
<1> DEFINE groups == {f[p] : p \in AURApps}
<1>2. UNION {IF Pkg(p) \in facts THEN {AppsSatisfiedAURStep(p)}
             ELSE AddPinnedAURInstall(policy, facts, p) : p \in AURApps} = UNION groups
  OBVIOUS
<1> HIDE DEF f
<1>3. IsFiniteSet(groups)
  <2> DEFINE h == [p \in AURApps |-> f[p]]
  <2>1. h \in Surjection(AURApps, groups)
    BY DEF Surjection
  <2>2. IsFiniteSet(AURApps)
    BY Lists
  <2> QED BY <2>1, <2>2, FS_Surjection
<1>4. \A steps \in groups : Fit(steps, "apps", granted)
  BY <1>1
<1> HIDE DEF groups
<1>5. Fit(UNION groups, "apps", granted)
  BY <1>3, <1>4, FitGroups
<1> QED BY <1>2, <1>5

\* The web applications fit.
LEMMA WebAppPlanFits ==
    ASSUME NEW observed, NEW facts, NEW granted
    PROVE  Fit(BuildWebAppPlan(observed, facts), "apps", granted)
<1> DEFINE launcher == ManagedFileStep("apps.webapp.launcher", "apps", {PacmanStep}, facts)
           entry == [a \in WebApps |-> ManagedFileStep(Entry(a), "apps", {PacmanStep}, facts)]
           IconStep(a, icon) ==
             [ModuleRequestStep("apps.webapp." \o a \o ".icon", "apps", {PacmanStep},
                                {Icon(a, icon)}, {}, facts)
                EXCEPT !.drop = {Icon(a, other) : other \in {"declared", "favicon"} \ {icon}}]
           icons == [a \in WebApps |-> IconStep(a, ResolveWebAppIcon(observed, a))]
<1>1. BuildWebAppPlan(observed, facts)
        = ({launcher} \cup {entry[a] : a \in WebApps}) \cup {icons[a] : a \in WebApps}
  BY DEF BuildWebAppPlan
<1>2. Fits(launcher, "apps", granted) /\ \A a \in WebApps : Fits(entry[a], "apps", granted)
  <2>1. "apps.webapp.launcher" \in FileIDs /\ \A a \in WebApps : Entry(a) \in FileIDs
    BY DEF FileIDs
  <2> QED BY <2>1, ManagedFileFits
<1>3. ASSUME NEW a \in WebApps PROVE Fits(icons[a], "apps", granted)
  <2> DEFINE icon == ResolveWebAppIcon(observed, a)
             s == ModuleRequestStep("apps.webapp." \o a \o ".icon", "apps", {PacmanStep},
                                    {Icon(a, icon)}, {}, facts)
             others == {Icon(a, other) : other \in {"declared", "favicon"} \ {icon}}
  <2>1. icons[a] = [s EXCEPT !.drop = others]
    OBVIOUS
  <2> HIDE DEF icon
  <2>2. \A x : Addable(Icon(a, x), granted) /\ Removable(Icon(a, x), granted)
    BY HarmlessFacts, FactsDiffer
  <2>3. (\A g \in {Icon(a, icon)} : Addable(g, granted)) /\ \A g \in others : Removable(g, granted)
    BY <2>2
  <2>4. Fits(s, "apps", granted)
    BY <2>3, IDsOfEach, RequestFits
  <2> HIDE DEF s, others, icons
  <2> QED BY <2>1, <2>3, <2>4, ChangedStepFits
<1>4. IsFiniteSet(WebApps)
  BY Lists
<1> HIDE DEF launcher, entry, icons
<1>5. Fit({entry[a] : a \in WebApps}, "apps", granted) /\ Fit({icons[a] : a \in WebApps}, "apps", granted)
  BY <1>2, <1>3, <1>4, FitEach
<1>6. Fit({launcher} \cup {entry[a] : a \in WebApps}, "apps", granted)
  BY <1>2, <1>5, FitTogether
<1>7. Fit(({launcher} \cup {entry[a] : a \in WebApps}) \cup {icons[a] : a \in WebApps},
          "apps", granted)
  BY <1>5, <1>6, FitTogether
<1> QED BY <1>1, <1>7

\* The steps of apps fit whatever is granted.
LEMMA AppsFit ==
    ASSUME NEW policy, NEW observed, NEW facts, NEW granted, Apps(policy, observed, facts).valid
    PROVE  Fit(Apps(policy, observed, facts).steps, "apps", granted)
<1> DEFINE lists == {AppsPackageStep(facts), AppsExplicitStep(facts),
                     AddDockerDesktopDisable(facts)}
           aur == UNION {IF Pkg(p) \in facts THEN {AppsSatisfiedAURStep(p)}
                         ELSE AddPinnedAURInstall(policy, facts, p) : p \in AURApps}
           services == [u \in DOMAIN AppServices |-> AddAppsService(facts, u)]
           groups   == [g \in DOMAIN AppGroups |-> AddAppsGroup(facts, g)]
           started  == {AddAppsService(facts, u) : u \in DOMAIN AppServices}
           joined   == {AddAppsGroup(facts, g) : g \in DOMAIN AppGroups}
           web == BuildWebAppPlan(observed, facts)
<1>1. Apps(policy, observed, facts).steps \in {{}, BuildAppsRequestPlan(policy, observed, facts)}
  BY DEF Apps, Valid, Invalid
<1>2. BuildAppsRequestPlan(policy, observed, facts) = (((lists \cup aur) \cup started) \cup joined) \cup web
  BY DEF BuildAppsRequestPlan
<1>3. Fit(lists, "apps", granted)
  <2>1. Fit({AppsPackageStep(facts)}, "apps", granted) /\ Fit({AppsExplicitStep(facts)}, "apps", granted)
        /\ Fit({AddDockerDesktopDisable(facts)}, "apps", granted)
    BY AppsRequestsFit, FitTogether
  <2>2. Fit({AppsPackageStep(facts)} \cup {AppsExplicitStep(facts)}, "apps", granted)
    BY <2>1, FitTogether
  <2>3. Fit(({AppsPackageStep(facts)} \cup {AppsExplicitStep(facts)})
             \cup {AddDockerDesktopDisable(facts)}, "apps", granted)
    BY <2>1, <2>2, FitTogether
  <2>4. lists = ({AppsPackageStep(facts)} \cup {AppsExplicitStep(facts)})
                 \cup {AddDockerDesktopDisable(facts)}
    OBVIOUS
  <2> QED BY <2>3, <2>4
<1>4. Fit(aur, "apps", granted)
  BY AURStepsFit
<1>5. Fit(started, "apps", granted)
  <2>1. IsFiniteSet(DOMAIN AppServices)
    <3>1. DOMAIN AppServices = {"docker", "tailscaled", "nordvpnd", "nordvpnd"}
      BY DEF AppServices
    <3>2. IsFiniteSet({"docker", "tailscaled", "nordvpnd", "nordvpnd"})
      BY FiniteFour
    <3> QED BY <3>1, <3>2
  <2>2. \A u \in DOMAIN AppServices : Fits(services[u], "apps", granted)
    BY AppsRequestsFit
  <2>3. started = {services[u] : u \in DOMAIN AppServices}
    OBVIOUS
  <2> HIDE DEF services, started
  <2> QED BY <2>1, <2>2, <2>3, FitEach
<1>6. Fit(joined, "apps", granted)
  <2>1. IsFiniteSet(DOMAIN AppGroups)
    <3>1. DOMAIN AppGroups = {"docker", "nordvpn", "nordvpn", "nordvpn"}
      BY DEF AppGroups
    <3>2. IsFiniteSet({"docker", "nordvpn", "nordvpn", "nordvpn"})
      BY FiniteFour
    <3> QED BY <3>1, <3>2
  <2>2. \A g \in DOMAIN AppGroups : Fits(groups[g], "apps", granted)
    BY AppsRequestsFit
  <2>3. joined = {groups[g] : g \in DOMAIN AppGroups}
    OBVIOUS
  <2> HIDE DEF groups, joined
  <2> QED BY <2>1, <2>2, <2>3, FitEach
<1>7. Fit(web, "apps", granted)
  BY WebAppPlanFits
<1> HIDE DEF lists, aur, started, joined, web
<1>8. Fit((lists \cup aur) \cup started, "apps", granted)
  BY <1>3, <1>4, <1>5, FitTogether
<1>9. Fit(((lists \cup aur) \cup started) \cup joined, "apps", granted)
  BY <1>6, <1>8, FitTogether
<1>10. Fit((((lists \cup aur) \cup started) \cup joined) \cup web, "apps", granted)
  BY <1>7, <1>9, FitTogether
<1> QED BY <1>1, <1>2, <1>10, FitTogether

\* The IDs of Vicinae's steps are known.
LEMMA VicinaeIDs ==
    /\ {Environment, Custom} \subseteq FileIDs
    /\ {Install, Environment, Custom, Actions, Disable, "vicinae.service.enable"} \subseteq FactoryIDs
<1>1. {Environment, Custom} \subseteq FileIDs
  BY DEF FileIDs
<1>2. {Install, Actions, Disable, "vicinae.service.enable"} \subseteq FactoryIDs
  BY IDsOfEach DEF FixedIDs
<1> QED BY <1>1, <1>2, IDsOfEach

\* What the steps of Vicinae add and remove.
LEMMA VicinaeFacts ==
    ASSUME NEW granted
    PROVE  /\ Addable(Pkg(VicinaePackage), granted)
           /\ \A x : /\ Addable(Service(x), granted) /\ Removable(Service(x), granted)
                     /\ Addable(Override(x), granted) /\ Removable(Override(x), granted)
           /\ \A f \in {File(Environment), File(Custom)} : Addable(f, granted) /\ Removable(f, granted)
           /\ \A f \in Overrides : Removable(f, granted)
<1>1. Addable(Pkg(VicinaePackage), granted)
  BY Lists, HarmlessFacts
<1>2. \A x : /\ Addable(Service(x), granted) /\ Removable(Service(x), granted)
             /\ Addable(Override(x), granted) /\ Removable(Override(x), granted)
  BY HarmlessFacts, FactsDiffer
<1>3. \A f \in {File(Environment), File(Custom)} : Addable(f, granted) /\ Removable(f, granted)
  <2>1. \A n \in PAMFiles : Environment # PAMID(n) /\ Custom # PAMID(n)
    BY VicinaeIDs, ConvergeAssumption
  <2> QED BY <2>1, HarmlessFacts
<1>4. \A f \in Overrides : Removable(f, granted)
  BY <1>2 DEF Overrides
<1> QED BY <1>1, <1>2, <1>3, <1>4

\* The steps of Vicinae's package fit.
LEMMA VicinaePackageStepsFit ==
    ASSUME NEW policy, NEW facts, NEW granted
    PROVE  Fit(VicinaePackageSteps(policy, facts), "vicinae", granted)
<1> DEFINE pin     == AURPin(policy, VicinaePackage)
           atPin   == Tree(VicinaePackage, pin.sourceCommit) \in facts
           patched == atPin /\ Patch(VicinaePackage, pin.patchSHA256) \in facts
           there   == [Step(Install, "vicinae", {}, "satisfied", {Pkg(VicinaePackage)}, {})
                         EXCEPT !.inverse = TRUE]
           source  == SourceSteps("vicinae.package", "vicinae", VicinaePackage, pin, {},
                                  ConvergedDisposition(atPin), ConvergedDisposition(patched))
<1>1. VicinaePackageSteps(policy, facts) \in {{there}, source}
  BY DEF VicinaePackageSteps
<1>2. Fits(there, "vicinae", granted)
  <2>1. \A f \in {Pkg(VicinaePackage)} : Addable(f, granted)
    BY VicinaeFacts
  <2>2. Fits(Step(Install, "vicinae", {}, "satisfied", {Pkg(VicinaePackage)}, {}), "vicinae", granted)
    BY <2>1, VicinaeIDs, StepFits
  <2> QED BY <2>2, ChangedStepFits
<1>3. Fit(source, "vicinae", granted)
  <2>1. VicinaePackage \notin Wanted \cup {Driver} /\ "vicinae.package" \in SourcePrefixes
    BY Lists DEF SourcePrefixes
  <2> HIDE DEF pin, atPin, patched
  <2> QED BY <2>1, SourceStepsFit
<1> HIDE DEF there, source
<1> QED BY <1>1, <1>2, <1>3, FitTogether

\* So do those that install Vicinae,
LEMMA InstallStepsFit ==
    ASSUME NEW policy, NEW facts, NEW granted
    PROVE  Fit(InstallSteps(policy, facts), "vicinae", granted)
<1> DEFINE v == CHOOSE w \in StockVersions(facts) : TRUE
           environment == VicinaeFileStep(Environment, {File(Environment)}, {}, facts)
           custom      == VicinaeFileStep(Custom, {File(Custom)}, {}, facts)
           actions     == VicinaeFileStep(Actions, {Override(v)}, Overrides \ {Override(v)}, facts)
           files == {VicinaeFileStep(f, {File(f)}, {}, facts) : f \in {Environment, Custom}}
                     \cup When(StockVersions(facts) # {}, {actions})
           service == ModuleRequestStep("vicinae.service.enable", "vicinae", {Install} \cup IDs(files),
                                        {Service("vicinae")}, {Pkg(VicinaePackage)}, facts)
<1>1. InstallSteps(policy, facts) = (VicinaePackageSteps(policy, facts) \cup files) \cup {service}
  BY DEF InstallSteps
<1>2. ASSUME NEW id \in FactoryIDs, NEW want, NEW others,
             \A f \in want : Addable(f, granted), \A f \in others : Removable(f, granted)
      PROVE  Fits(VicinaeFileStep(id, want, others, facts), "vicinae", granted)
  <2>1. Fits(ModuleRequestStep(id, "vicinae", {Install}, want, {}, facts), "vicinae", granted)
    BY <1>2, RequestFits
  <2> QED BY <1>2, <2>1, ChangedStepFits DEF VicinaeFileStep
<1>3. Fits(environment, "vicinae", granted) /\ Fits(custom, "vicinae", granted)
  <2>1. (\A f \in {File(Environment)} : Addable(f, granted)) /\ \A f \in {File(Custom)} : Addable(f, granted)
    BY VicinaeFacts
  <2> QED BY <1>2, <2>1, VicinaeIDs
<1>4. Fits(actions, "vicinae", granted)
  <2>1. /\ \A f \in {Override(v)} : Addable(f, granted)
        /\ \A f \in Overrides \ {Override(v)} : Removable(f, granted)
    <3> HIDE DEF v
    <3> QED BY VicinaeFacts
  <2> HIDE DEF v
  <2> QED BY <1>2, <2>1, VicinaeIDs
<1>5. Fits(service, "vicinae", granted)
  <2>1. \A f \in {Service("vicinae")} : Addable(f, granted)
    BY VicinaeFacts
  <2> HIDE DEF files
  <2> QED BY <2>1, VicinaeIDs, RequestFits
<1>6. files \subseteq ({environment} \cup {custom}) \cup {actions}
  BY DEF When
<1> HIDE DEF environment, custom, actions, files, service
<1>7. Fit({environment} \cup {custom}, "vicinae", granted)
  BY <1>3, FitTogether
<1>8. Fit(({environment} \cup {custom}) \cup {actions}, "vicinae", granted)
  BY <1>4, <1>7, FitTogether
<1>9. Fit(files, "vicinae", granted)
  BY <1>6, <1>8, FitTogether
<1>10. Fit(VicinaePackageSteps(policy, facts) \cup files, "vicinae", granted)
  BY <1>9, VicinaePackageStepsFit, FitTogether
<1>11. Fit((VicinaePackageSteps(policy, facts) \cup files) \cup {service}, "vicinae", granted)
  BY <1>5, <1>10, FitTogether
<1> QED BY <1>1, <1>11

\* and those that remove it.
LEMMA RemovalStepsFit ==
    ASSUME NEW facts, NEW granted
    PROVE  Fit(RemovalSteps(facts), "vicinae", granted)
<1> DEFINE disable == [Step(Disable, "vicinae", {Install, Environment},
                            ConvergedDisposition(Service("vicinae") \notin facts), {}, {Service("vicinae")})
                         EXCEPT !.inverse = TRUE]
           install     == Retained(Install, {})
           environment == Retained(Environment, {Install})
           custom      == RemovedFile(Custom, {File(Custom)}, facts)
           actions     == RemovedFile(Actions, Overrides, facts)
<1>1. RemovalSteps(facts) \subseteq {install, environment, disable, custom} \cup {actions}
  BY DEF RemovalSteps, When
<1>2. Fits(install, "vicinae", granted) /\ Fits(environment, "vicinae", granted)
  BY StepFits, VicinaeIDs DEF Retained
<1>3. Fits(disable, "vicinae", granted)
  <2>1. \A f \in {Service("vicinae")} : Removable(f, granted)
    BY VicinaeFacts
  <2>2. Fits(Step(Disable, "vicinae", {Install, Environment},
                  ConvergedDisposition(Service("vicinae") \notin facts), {}, {Service("vicinae")}),
             "vicinae", granted)
    BY <2>1, VicinaeIDs, StepFits
  <2> QED BY <2>2, ChangedStepFits
<1>4. ASSUME NEW id \in FactoryIDs, NEW contents, \A f \in contents : Removable(f, granted)
      PROVE  Fits(RemovedFile(id, contents, facts), "vicinae", granted)
  <2> DEFINE there == contents \cap facts # {}
             s == Step(id, "vicinae", {Install} \cup When(there, {Disable}),
                       IF there THEN "remove" ELSE "satisfied", {}, contents)
  <2>1. Fits(s, "vicinae", granted)
    BY <1>4, StepFits
  <2>2. RemovedFile(id, contents, facts) = [s EXCEPT !.inverse = there]
    BY DEF RemovedFile
  <2> HIDE DEF s, there
  <2>3. Fits([s EXCEPT !.inverse = there], "vicinae", granted)
    BY <2>1, ChangedStepFits
  <2> QED BY <2>2, <2>3
<1>5. Fits(custom, "vicinae", granted) /\ Fits(actions, "vicinae", granted)
  <2>1. \A f \in {File(Custom)} : Removable(f, granted)
    BY VicinaeFacts
  <2> QED BY <1>4, <2>1, VicinaeFacts, VicinaeIDs
<1> HIDE DEF disable, install, environment, custom, actions
<1>6. Fit({install, environment, disable, custom} \cup {actions}, "vicinae", granted)
  BY <1>2, <1>3, <1>5, FiniteFour, FS_Singleton, FS_Union DEF Fit
<1> QED BY <1>1, <1>6, FitTogether

\* The steps of vicinae fit whatever is granted.
LEMMA VicinaeFits ==
    ASSUME NEW policy, NEW observed, NEW facts, NEW granted, Vicinae(policy, observed, facts).valid
    PROVE  Fit(Vicinae(policy, observed, facts).steps, "vicinae", granted)
<1>1. Vicinae(policy, observed, facts).steps \in {{}, RemovalSteps(facts), InstallSteps(policy, facts)}
  BY DEF Vicinae, Valid, Invalid
<1> QED BY <1>1, FitTogether, RemovalStepsFit, InstallStepsFit

\* The steps of desktop fit: the values of a machine and the legacy desktop
\* are gated.
LEMMA DesktopFits ==
    ASSUME NEW policy, NEW observed, NEW facts, Desktop(policy, observed, facts).valid
    PROVE  Fit(Desktop(policy, observed, facts).steps, "desktop", Grants(policy, observed))
<1> DEFINE granted == Grants(policy, observed)
           base   == BuildDesktopRequestPlan(policy, facts)
           gated  == GatedSteps(policy, observed)
           prune  == When(Ready(policy, observed, "cosmicPrune"), {CosmicPruneStep})
           blocked == BlockedSteps(policy, observed, "desktop", DesktopCapabilities)
<1>1. DesktopCapabilities \in SUBSET RiskCapabilities /\ DOMAIN GatedStep \subseteq RiskCapabilities
      /\ IsFiniteSet(DOMAIN GatedStep)
  <2>1. DOMAIN GatedStep = {"fixedDisplays", "fixedInputDevices", "literalHomePaths", "literalHomePaths"}
    BY DEF GatedStep
  <2>2. IsFiniteSet({"fixedDisplays", "fixedInputDevices", "literalHomePaths", "literalHomePaths"})
    BY FiniteFour
  <2> QED BY <2>1, <2>2 DEF DesktopCapabilities, RiskCapabilities
<1>2. \/ Desktop(policy, observed, facts).steps = {}
      \/ /\ Desktop(policy, observed, facts).steps = ((base \cup gated) \cup prune) \cup blocked
         /\ {a.name : a \in OwnedRoleTemplates(policy, "workstation")} = DOMAIN WorkstationFiles
  BY DEF Desktop, Valid, Invalid
<1>3. ASSUME {a.name : a \in OwnedRoleTemplates(policy, "workstation")} = DOMAIN WorkstationFiles
      PROVE  Fit(base, "desktop", granted)
  <2> DEFINE templates == {WorkstationFiles[a.name] : a \in OwnedRoleTemplates(policy, "workstation")}
             files == templates \cup PolkitFiles
             wants == {Pkg(p) : p \in DesktopPackages}
             gives == wants \cup {Explicit(p) : p \in DesktopPackages}
             s == ModuleRequestStep(Packages, "desktop", {}, wants, {}, facts)
             packages == [s EXCEPT !.gives = gives]
             session == ManagedFileStep(Session, "desktop", {Packages} \cup files, facts)
             f == [id \in files |-> ManagedFileStep(id, "desktop", {Packages}, facts)]
  <2>1. base = ({packages} \cup {session}) \cup {f[id] : id \in files}
    BY DEF BuildDesktopRequestPlan
  <2>2. templates \subseteq {WorkstationFiles[n] : n \in DOMAIN WorkstationFiles}
    BY <1>3
  <2>3. IsFiniteSet(files) /\ files \subseteq FileIDs
    <3>1. templates \subseteq {"desktop.file.niri", "desktop.file.noctalia", "desktop.file.hyprwhspr"}
      BY <2>2 DEF WorkstationFiles
    <3>2. files \subseteq {"desktop.file.niri", "desktop.file.noctalia", "desktop.file.hyprwhspr",
                          "desktop.polkit.model"} \cup {"desktop.polkit.shell"}
      BY <3>1 DEF PolkitFiles
    <3>3. files \subseteq FileIDs
      BY <2>2 DEF FileIDs
    <3>4. IsFiniteSet({"desktop.file.niri", "desktop.file.noctalia", "desktop.file.hyprwhspr",
                       "desktop.polkit.model"} \cup {"desktop.polkit.shell"})
      BY FiniteFour, FS_Singleton, FS_Union
    <3> HIDE DEF files
    <3> QED BY <3>2, <3>3, <3>4, FS_Subset
  <2> HIDE DEF files
  <2>4. Session \in FileIDs /\ Packages \in FactoryIDs
    BY IDsOfEach DEF FileIDs, FixedIDs
  <2>5. \A g \in gives : Addable(g, granted)
    <3>1. \A p \in DesktopPackages : Addable(Pkg(p), granted) /\ Addable(Explicit(p), granted)
      <4> HIDE DEF granted
      <4> QED BY Lists, HarmlessFacts, FactsDiffer
    <3> QED BY <3>1
  <2> HIDE DEF granted, base
  <2>6. Fits(packages, "desktop", granted)
    <3>1. \A g \in wants : Addable(g, granted)
      BY <2>5
    <3> HIDE DEF wants, gives
    <3>2. Fits(s, "desktop", granted)
      BY <2>4, <3>1, RequestFits
    <3> HIDE DEF s
    <3> QED BY <2>5, <3>2, ChangedStepFits
  <2>7. Fits(session, "desktop", granted)
    BY <2>4, ManagedFileFits
  <2>8. \A id \in files : Fits(f[id], "desktop", granted)
    BY <2>3, ManagedFileFits
  <2> HIDE DEF packages, session, f
  <2>9. Fit({packages} \cup {session}, "desktop", granted)
    BY <2>6, <2>7, FitTogether
  <2>10. Fit({f[id] : id \in files}, "desktop", granted)
    BY <2>3, <2>8, FitEach
  <2>11. Fit(({packages} \cup {session}) \cup {f[id] : id \in files}, "desktop", granted)
    BY <2>9, <2>10, FitTogether
  <2> QED BY <2>1, <2>11
<1>4. Fit(gated, "desktop", granted)
  <2> DEFINE ready == {d \in DOMAIN GatedStep : Ready(policy, observed, d)}
             f == [c \in ready |-> Step(GatedStep[c], "desktop", {Session}, "apply", {HostValues(c)}, {})]
  <2>1. ASSUME NEW c \in ready PROVE Fits(f[c], "desktop", granted)
    <3>1. c \in granted /\ c \in DOMAIN GatedStep
      BY <1>1 DEF Grants
    <3>2. Addable(HostValues(c), granted)
      <4>1. \A d \in DOMAIN GatedStep : HostValues(c) = HostValues(d) => d \in granted
        BY <3>1, FactsDiffer
      <4>2. HostValues(c) # Legacy
        <5>1. c # "cosmic"
          BY <3>1 DEF GatedStep
        <5> QED BY <5>1, FactsDiffer
      <4> HIDE DEF granted
      <4> QED BY <4>1, <4>2, FactsDiffer DEF Addable, Permitted
    <3> HIDE DEF granted
    <3>3. \A g \in {HostValues(c)} : Addable(g, granted)
      BY <3>2
    <3> QED BY <3>1, <3>3, IDsOfEach, StepFits
  <2>2. IsFiniteSet(ready)
    BY <1>1, FS_Subset
  <2>3. gated = {f[c] : c \in ready}
    BY DEF GatedSteps
  <2> HIDE DEF f, ready, granted
  <2> QED BY <2>1, <2>2, <2>3, FitEach
<1>5. Fit(prune, "desktop", granted)
  <2>1. ASSUME Ready(policy, observed, "cosmicPrune") PROVE Fits(CosmicPruneStep, "desktop", granted)
    <3>1. "cosmicPrune" \in granted
      BY <2>1 DEF Grants, RiskCapabilities
    <3> HIDE DEF granted
    <3>2. Removable(Legacy, granted)
      <4>1. \A d \in DOMAIN GatedStep : HostValues(d) # Legacy
        <5>1. "cosmic" \notin DOMAIN GatedStep
          BY DEF GatedStep
        <5> QED BY <5>1, FactsDiffer
      <4> QED BY <3>1, <4>1, FactsDiffer DEF Removable, Permitted
    <3>3. "desktop.cosmic-prune" \in FactoryIDs
      BY IDsOfEach DEF FixedIDs
    <3>4. \A g \in {Legacy} : Removable(g, granted)
      BY <3>2
    <3>5. Fits(Step("desktop.cosmic-prune", "desktop", {Session}, "remove", {}, {Legacy}), "desktop", granted)
      BY <3>3, <3>4, StepFits
    <3> QED BY <3>5, ChangedStepFits DEF CosmicPruneStep
  <2> HIDE DEF granted
  <2> QED BY <2>1, FitTogether DEF When
<1>6. Fit(blocked, "desktop", granted)
  <2> HIDE DEF granted
  <2> QED BY <1>1, BlockedStepsFit
<1> HIDE DEF granted, base, gated, prune, blocked
<1>7. CASE Desktop(policy, observed, facts).steps = {}
  BY <1>7, FitTogether DEF granted
<1>8. CASE /\ Desktop(policy, observed, facts).steps = ((base \cup gated) \cup prune) \cup blocked
           /\ {a.name : a \in OwnedRoleTemplates(policy, "workstation")} = DOMAIN WorkstationFiles
  <2>1. Fit(base \cup gated, "desktop", granted)
    BY <1>3, <1>4, <1>8, FitTogether
  <2>2. Fit((base \cup gated) \cup prune, "desktop", granted)
    BY <1>5, <2>1, FitTogether
  <2>3. Fit(((base \cup gated) \cup prune) \cup blocked, "desktop", granted)
    BY <1>6, <2>2, FitTogether
  <2> QED BY <1>8, <2>3 DEF granted
<1> QED BY <1>2, <1>7, <1>8

-------------------------------------------------------------------------------
(* What is built and planned *)

\* The modules of a host can be planned, and their steps exercise nothing but
\* what its policy and the evidence grant.
LEMMA ModulesFit ==
    ASSUME NEW policy, BuildModules(policy).valid
    PROVE  /\ WellFormed(BuildModules(policy).steps)
           /\ \A s \in AllSteps(BuildModules(policy).steps) :
                 \E name \in KnownModules : Fits(s, name, Grants(policy, evidence))
<1> DEFINE names == {"bootstrap", "fingerprint", "devtools", "apps", "vicinae", "desktop"}
           built == [bootstrap   |-> Bootstrap(policy, evidence, host),
                     fingerprint |-> Fingerprint(policy, evidence, host),
                     devtools    |-> Devtools(policy, evidence, host),
                     apps        |-> Apps(policy, evidence, host),
                     vicinae     |-> Vicinae(policy, evidence, host),
                     desktop     |-> Desktop(policy, evidence, host)]
           f == [n \in names |-> [name |-> n, enabled |-> ModuleEnabled(policy, n), deps |-> {},
                                  steps |-> built[n].steps]]
           granted == Grants(policy, evidence)
           mods == BuildModules(policy).steps
<1>1. DOMAIN built = names
  OBVIOUS
<1>2. mods = {f[n] : n \in names} /\ \A n \in names : built[n].valid
  <2> HIDE DEF names
  <2>1. BuildModules(policy) # Invalid
    BY DEF Invalid
  <2>2. \A n \in DOMAIN built : built[n].valid
    BY <2>1 DEF BuildModules
  <2>3. BuildModules(policy) = Valid({[name |-> n, enabled |-> ModuleEnabled(policy, n), deps |-> {},
                                       steps |-> built[n].steps] : n \in DOMAIN built})
    BY <2>1 DEF BuildModules
  <2> HIDE DEF built
  <2> QED BY <1>1, <2>2, <2>3 DEF Valid
<1>3. ASSUME NEW n \in names PROVE Fit(built[n].steps, n, granted)
  <2> USE <1>2
  <2>1. CASE n = "bootstrap"
    BY <2>1, BootstrapFits
  <2>2. CASE n = "fingerprint"
    BY <2>2, FingerprintFits
  <2>3. CASE n = "devtools"
    BY <2>3, DevtoolsFits
  <2>4. CASE n = "apps"
    BY <2>4, AppsFit
  <2>5. CASE n = "vicinae"
    BY <2>5, VicinaeFits
  <2>6. CASE n = "desktop"
    BY <2>6, DesktopFits
  <2> QED BY <2>1, <2>2, <2>3, <2>4, <2>5, <2>6
<1>4. \A n \in names : f[n].name = n /\ f[n].steps = built[n].steps
  BY DEF f
<1>5. IsFiniteSet(names)
  <2>1. IsFiniteSet({"bootstrap", "fingerprint", "devtools", "apps"}
                    \cup {"vicinae", "desktop", "desktop", "desktop"})
    BY FiniteFour, FS_Union
  <2> QED BY <2>1
<1>6. names \subseteq KnownModules
  BY DEF KnownModules
<1> HIDE DEF names, built, f, granted, mods
<1>7. IsFiniteSet(mods)
  <2> DEFINE g == [n \in names |-> f[n]]
  <2>1. g \in Surjection(names, mods)
    BY <1>2 DEF Surjection
  <2> QED BY <1>5, <2>1, FS_Surjection
<1>8. WellFormed(mods)
  <2>1. ASSUME NEW m \in mods PROVE /\ m.name \in Range(ModuleNames) /\ IsFiniteSet(m.steps)
                                   /\ \A s \in m.steps :
                                        /\ s.id \in Range(StepIDs) /\ s.module = m.name
                                        /\ {"id", "module", "deps"} \subseteq DOMAIN s
    <3>1. PICK n \in names : m = f[n]
      BY <1>2
    <3>2. m.name = n /\ Fit(m.steps, n, granted)
      BY <1>3, <1>4, <3>1
    <3>3. IsFiniteSet(m.steps) /\ \A s \in m.steps : Fits(s, n, granted)
      BY <3>2 DEF Fit
    <3>4. m.name \in Range(ModuleNames) /\ FactoryIDs \subseteq Range(StepIDs)
      BY <1>6, <3>2, ConvergeAssumption
    <3>5. ASSUME NEW s \in m.steps
          PROVE  /\ s.id \in Range(StepIDs) /\ s.module = m.name
                 /\ {"id", "module", "deps"} \subseteq DOMAIN s
      BY <3>2, <3>3, <3>4 DEF Fits
    <3> QED BY <3>3, <3>4, <3>5
  <2> QED BY <1>7, <2>1 DEF WellFormed
<1>9. ASSUME NEW s \in AllSteps(mods) PROVE \E name \in KnownModules : Fits(s, name, granted)
  <2>1. PICK n \in names : s \in f[n].steps
    BY <1>2 DEF AllSteps
  <2> QED BY <1>3, <1>4, <1>6, <2>1 DEF Fit
<1> QED BY <1>8, <1>9 DEF mods, granted

\* The merged policy grants no more than the host's own document does.
LEMMA PolicyIsTheHosts ==
    HostPolicy.ok => Grants(HostPolicy, evidence) \subseteq Granted
<1> SUFFICES ASSUME HostPolicy.ok PROVE Grants(HostPolicy, evidence) \subseteq Granted
  OBVIOUS
<1>1. \A name : Resolve(repository, name).ok =>
        /\ Resolve(repository, name).name = name
        /\ Resolve(repository, name).risks
             = IF "riskPolicy" \in DOMAIN repository.hosts[name]
               THEN repository.hosts[name].riskPolicy ELSE {}
  BY DEF Resolve
<1>2. PICK name : HostPolicy = Resolve(repository, name)
  BY DEF HostPolicy
<1>3. /\ HostPolicy.name = name
      /\ HostPolicy.risks = IF "riskPolicy" \in DOMAIN repository.hosts[name]
                            THEN repository.hosts[name].riskPolicy ELSE {}
  BY <1>1, <1>2
<1>4. ASSUME NEW c \in Grants(HostPolicy, evidence) PROVE c \in Granted
  <2>1. c \in HostPolicy.risks /\ c \in DOMAIN evidence.caps /\ evidence.caps[c] = "ready"
    BY <1>4 DEF Grants, Ready, CapabilityEvidence, Allows
  <2> HIDE DEF HostPolicy
  <2> QED BY <1>3, <2>1 DEF Granted
<1> QED BY <1>4

\* The effect of a step that fits.
LEMMA EffectIsGranted ==
    ASSUME NEW s, NEW name, NEW granted, Fits(s, name, granted),
           NEW lost \in Losses(s), NEW after, after \in {host, Effect(s, host) \ lost}
    PROVE  Exercised((host \ after) \cup (after \ host)) \subseteq granted
<1> DEFINE changed == (host \ after) \cup (after \ host)
<1>1. (\A f \in changed \ host : f \in s.gives) /\ \A f \in changed \cap host : f \in s.drop \cup lost
  BY DEF Effect, Leaves
<1>2. \A f \in lost : Removable(f, granted)
  <2>1. PICK packages \in SUBSET s.loses : lost = LostWith(packages)
    BY DEF Losses
  <2>2. \A p \in packages : Removable(Pkg(p), granted)
    BY <2>1 DEF Fits
  <2>3. \A u : Removable(Service(u), granted)
    BY HarmlessFacts, FactsDiffer
  <2> QED BY <2>1, <2>2, <2>3 DEF LostWith
<1> HIDE DEF changed
<1>3. /\ \A f \in changed : Permitted(f, granted)
      /\ \A f \in changed \ host : Addable(f, granted)
      /\ \A f \in changed \cap host : Removable(f, granted)
  BY <1>1, <1>2 DEF Fits, Addable, Removable
<1>4. changed \cap BootFacts # {} => "bootstrapBootMutation" \in granted
  BY <1>3 DEF Permitted
<1>5. (\E p \in Wanted : Pkg(p) \in changed \ host) => "bootstrapSystemUpdate" \in granted
  BY <1>3 DEF Addable
<1>6. (\E f \in changed \cap host : f[1] = "package") => "bootstrapPackageRemoval" \in granted
  BY <1>3 DEF Removable
<1>7. changed \cap ({File(PAMID(f)) : f \in PAMFiles} \cup {Pkg(Driver), AtPin}) # {}
        => "fingerprintPam" \in granted
  BY <1>3 DEF Permitted
<1>8. \A c \in DOMAIN GatedStep : HostValues(c) \in changed => c \in granted
  BY <1>3 DEF Permitted
<1>9. Legacy \in changed => "cosmicPrune" \in granted
  BY <1>3 DEF Permitted
<1>10. Exercised(changed) \subseteq granted
  BY <1>4, <1>5, <1>6, <1>7, <1>8, <1>9 DEF Exercised, When, BootFacts
<1> QED BY <1>10 DEF changed

-------------------------------------------------------------------------------
(* The invariant *)

Authorized(s) == \E name \in KnownModules : Fits(s, name, Granted)

\* What fits few grants fits more.
LEMMA MoreFits ==
    ASSUME NEW s, NEW module, NEW few, NEW many, few \subseteq many, Fits(s, module, few)
    PROVE  Fits(s, module, many)
<1>1. \A f : Permitted(f, few) => Permitted(f, many)
  BY DEF Permitted
<1>2. \A f : (Addable(f, few) => Addable(f, many)) /\ (Removable(f, few) => Removable(f, many))
  BY <1>1 DEF Addable, Removable
<1> QED BY <1>2 DEF Fits

PlannedInv ==
    run.phase = "planned" =>
        /\ WellFormed(run.mods) /\ run.plan = BuildPlan(run.mods, run.sel)
        /\ scenario.graphs = {} => \A s \in AllSteps(run.mods) : Authorized(s)

RunningInv ==
    run.phase = "running" =>
        /\ DOMAIN run = {"phase", "steps", "pos", "changed", "lost"}
        /\ run.pos \in Nat \ {0} /\ run.steps \in Seq(Range(run.steps))
        /\ \A s \in Range(run.steps) : Authorized(s)

\* A check is of the host as it is: what changes the host takes it back.
ReportInv == run.phase # "idle" => report = NoReport

IInv ==
    /\ world \in DOMAIN Worlds /\ drifts \in Nat
    /\ PlannedInv /\ RunningInv /\ ReportInv

\* Grants depend on the repository and the evidence only.
LEMMA GrantedStays ==
    ASSUME UNCHANGED <<world, repository, evidence>>
    PROVE  /\ Granted' = Granted /\ scenario' = scenario
           /\ \A s : Authorized(s)' <=> Authorized(s)
<1>1. Granted' = Granted /\ scenario' = scenario
  BY DEF Granted, HostPolicy, scenario
<1> QED BY <1>1 DEF Authorized

\* A run goes on to its next step.
LEMMA RunGoesOn ==
    ASSUME IInv, UNCHANGED <<world, repository, evidence, drifts, report>>,
           run.phase = "running", DOMAIN run' = DOMAIN run, run'.phase = "running",
           run'.pos = run.pos + 1, run'.steps = run.steps
    PROVE  IInv'
<1>1. RunningInv'
  BY GrantedStays DEF IInv, RunningInv
<1> QED BY <1>1 DEF IInv, PlannedInv, ReportInv

\* A step of a plan is taken, and nothing else is changed.
LEMMA NextStepInv ==
    ASSUME IInv, run.phase = "running", run.pos <= Len(run.steps),
           UNCHANGED <<world, repository, evidence, drifts, report>>,
           \/ run' = [run EXCEPT !.pos = @ + 1]
           \/ \E id, lost : run' = [run EXCEPT !.pos = @ + 1, !.changed = @ \cup {id},
                                               !.lost = @ \cup lost]
    PROVE  IInv'
<1>1. DOMAIN run' = DOMAIN run /\ run'.phase = "running" /\ run'.pos = run.pos + 1 /\ run'.steps = run.steps
  <2>1. CASE run' = [run EXCEPT !.pos = @ + 1]
    BY <2>1 DEF IInv, RunningInv
  <2>2. ASSUME NEW id, NEW lost,
               run' = [run EXCEPT !.pos = @ + 1, !.changed = @ \cup {id}, !.lost = @ \cup lost]
        PROVE  DOMAIN run' = DOMAIN run /\ run'.phase = "running" /\ run'.pos = run.pos + 1
               /\ run'.steps = run.steps
    BY <2>2 DEF IInv, RunningInv
  <2> QED BY <2>1, <2>2
<1> QED BY <1>1, RunGoesOn

\* A run is over.
LEMMA IdleInv ==
    ASSUME IInv, run' = Idle, UNCHANGED world, drifts' \in Nat
    PROVE  IInv'
BY DEF IInv, Idle, PlannedInv, RunningInv, ReportInv

LEMMA InitInv == Init => IInv
BY DEF Init, Idle, IInv, PlannedInv, RunningInv, ReportInv

LEMMA StartInv == IInv /\ Start => IInv'
<1> SUFFICES ASSUME IInv, Start PROVE IInv'
  OBVIOUS
<1>1. CASE run.plan.ok /\ scenario.graphs = {}
  <2> DEFINE order == run.plan.steps
             steps == SelectedSteps(run.mods, run.sel)
  <2>1. WellFormed(run.mods) /\ run.plan = BuildPlan(run.mods, run.sel)
        /\ \A s \in AllSteps(run.mods) : Authorized(s)
    BY <1>1 DEF IInv, PlannedInv, Start
  <2>2. Ordered(Before(run.mods, steps), order) /\ Range(order) = steps
    BY <1>1, <2>1, PlansAreOrdered
  <2>3. steps \subseteq AllSteps(run.mods)
    BY DEF SelectedSteps, AllSteps
  <2>4. order \in Seq(Range(order))
    BY <2>2 DEF Ordered, Before
  <2>5. run' = [phase |-> "running", steps |-> order, pos |-> 1, changed |-> {}, lost |-> {}]
        /\ UNCHANGED <<world, repository, evidence, drifts, report>> /\ report = NoReport
    BY <1>1 DEF Start, IInv, ReportInv
  <2> HIDE DEF order, steps
  <2>6. \A s \in Range(order) : Authorized(s)'
    BY <2>1, <2>2, <2>3, <2>5, GrantedStays
  <2>7. RunningInv'
    BY <2>4, <2>5, <2>6 DEF RunningInv
  <2> QED BY <2>5, <2>7 DEF IInv, PlannedInv, ReportInv
<1>2. CASE ~(run.plan.ok /\ scenario.graphs = {})
  <2>1. run' = Idle /\ UNCHANGED <<world, drifts>>
    BY <1>2 DEF Start
  <2> QED BY <2>1, IdleInv DEF IInv
<1> QED BY <1>1, <1>2

LEMMA PlanHostInv == IInv /\ PlanHost => IInv'
<1> SUFFICES ASSUME IInv, PlanHost PROVE IInv'
  OBVIOUS
<1> DEFINE built == IF HostPolicy.ok THEN BuildModules(HostPolicy) ELSE Invalid
<1>1. report' = NoReport /\ UNCHANGED <<world, repository, evidence, drifts>>
      /\ run' = IF built.valid THEN Planned(built.steps, EverySelection) ELSE Idle
  BY DEF PlanHost
<1>2. CASE ~built.valid
  <2>1. run' = Idle /\ drifts' \in Nat
    BY <1>1, <1>2 DEF IInv
  <2> QED BY <1>1, <2>1, IdleInv
<1>3. CASE built.valid
  <2>1. HostPolicy.ok /\ built = BuildModules(HostPolicy)
    BY <1>3 DEF Invalid
  <2> HIDE DEF built
  <2>2. WellFormed(built.steps)
        /\ \A s \in AllSteps(built.steps) : \E name \in KnownModules : Fits(s, name, Grants(HostPolicy, evidence))
    BY <1>3, <2>1, ModulesFit
  <2>3. \A s \in AllSteps(built.steps) : Authorized(s)
    BY <2>1, <2>2, PolicyIsTheHosts, MoreFits DEF Authorized
  <2>4. run'.phase = "planned" /\ run'.mods = built.steps /\ run'.plan = BuildPlan(run'.mods, run'.sel)
    BY <1>1, <1>3 DEF Planned
  <2>5. PlannedInv'
    BY <1>1, <2>2, <2>3, <2>4, GrantedStays DEF PlannedInv
  <2> QED BY <1>1, <2>4, <2>5 DEF IInv, RunningInv, ReportInv
<1> QED BY <1>2, <1>3

LEMMA PlanGraphInv == IInv /\ PlanGraph => IInv'
<1> SUFFICES ASSUME IInv, PlanGraph PROVE IInv'
  OBVIOUS
<1>1. PICK g \in scenario.graphs : run' = Planned(g.mods, g.sel)
  BY DEF PlanGraph
<1>2. report' = NoReport /\ UNCHANGED <<world, repository, evidence, drifts>>
  BY DEF PlanGraph
<1>3. WellFormed(g.mods) /\ scenario'.graphs # {}
  BY <1>1, <1>2, ConvergeAssumption DEF IInv, scenario
<1>4. run'.phase = "planned" /\ run'.mods = g.mods /\ run'.plan = BuildPlan(run'.mods, run'.sel)
  BY <1>1 DEF Planned
<1> QED BY <1>2, <1>3, <1>4 DEF IInv, PlannedInv, RunningInv, ReportInv

\* IInv is inductive.
LEMMA NextInv == IInv /\ [Next]_vars => IInv'
<1> SUFFICES ASSUME IInv, [Next]_vars PROVE IInv'
  OBVIOUS
<1>1. CASE PlanHost
  BY <1>1, PlanHostInv
<1>2. CASE PlanGraph
  BY <1>2, PlanGraphInv
<1>3. CASE Start
  BY <1>3, StartInv
<1>4. CASE Skip
  BY <1>4, NextStepInv DEF Skip, Running
<1>5. CASE Mutate
  <2> DEFINE Taken(lost) == [run EXCEPT !.pos = @ + 1, !.changed = @ \cup {Current.id},
                                        !.lost = @ \cup lost]
  <2>1. CASE run' = Idle
    BY <1>5, <2>1, IdleInv DEF Mutate, IInv
  <2>2. CASE \E lost : run' = Taken(lost)
    BY <1>5, <2>2, NextStepInv DEF Mutate, ToExecute, Running
  <2>3. run' = Idle \/ \E lost : run' = Taken(lost)
    BY <1>5 DEF Mutate
  <2> QED BY <2>1, <2>2, <2>3
<1>6. CASE CommandFails
  BY <1>6, IdleInv DEF CommandFails, IInv
<1>7. CASE Fault
  BY <1>7, IdleInv DEF Fault, IInv
<1>8. CASE Complete
  BY <1>8, IdleInv DEF Complete, IInv
<1>9. CASE Drift
  <2>1. drifts' \in Nat
    BY <1>9 DEF Drift, IInv
  <2> QED BY <1>9, <2>1, IdleInv DEF Drift
<1>10. CASE Check
  BY <1>10 DEF Check, IInv, PlannedInv, RunningInv, ReportInv
<1>11. CASE UNCHANGED vars
  <2>1. UNCHANGED <<world, repository, evidence, run, drifts, report>>
    BY <1>11 DEF vars
  <2>2. PlannedInv' /\ RunningInv'
    BY <2>1, GrantedStays DEF IInv, PlannedInv, RunningInv
  <2> QED BY <2>1, <2>2 DEF IInv, ReportInv
<1> QED BY <1>1, <1>2, <1>3, <1>4, <1>5, <1>6, <1>7, <1>8, <1>9, <1>10, <1>11 DEF Next

LEMMA Invariance == Spec => []IInv
BY InitInv, NextInv, PTL DEF Spec

-------------------------------------------------------------------------------
(* The check *)

\* A set whose elements have different names, as the inventory of a kind is.
Inventory(items) ==
    IsFiniteSet(items) /\ \A item, other \in items : item.name = other.name => item = other

Enumerates(seq, S) ==
    /\ DOMAIN seq = 1..Cardinality(S) /\ Cardinality(S) \in Nat
    /\ Range(seq) = S /\ \A i \in DOMAIN seq : seq[i] \in S
    /\ \A i, j \in DOMAIN seq : seq[i] = seq[j] => i = j

\* A finite set has a sequence that enumerates it.
LEMMA SetsEnumerate ==
    ASSUME NEW S, IsFiniteSet(S)
    PROVE  Enumerates(SetToSeq(S), S)
<1> DEFINE n == Cardinality(S)
           Is(f) == f \in [1..n -> S] /\ IsInjective(f)
<1>1. n \in Nat /\ \E f \in Bijection(1..n, S) : TRUE
  BY FS_CardinalityType DEF ExistsBijection
<1>2. \E f : Is(f)
  BY <1>1 DEF Bijection, Injection, IsInjective
<1> DEFINE seq == SetToSeq(S)
<1>3. Is(seq)
  BY <1>2 DEF SetToSeq
<1> HIDE DEF seq
<1>4. seq \in Injection(1..n, S)
  BY <1>3 DEF Injection, IsInjective
<1>5. seq \in Surjection(1..n, S)
  <2>1. Cardinality(1..n) = n
    BY <1>1, FS_Interval
  <2> QED BY <1>4, <2>1, FS_Injection
<1>6. Range(seq) = S
  BY <1>5 DEF Surjection, Range
<1>7. Enumerates(seq, S)
  BY <1>1, <1>3, <1>6 DEF Enumerates, IsInjective
<1> QED BY <1>7 DEF seq

\* How the observations of a kind tell of an item: not at all when it was left
\* out or read twice.
Tells(observations, item, lapsed, lapse) ==
    IF item.name # lapsed THEN Index(observations, item.name) = {Truthful(item)}
    ELSE IF lapse = "unknown" THEN Index(observations, item.name) = {Unknown(item)}
    ELSE Index(observations, item.name) = {}

\* The observations of an inventory tell the truth of each item but the one
\* that lapsed.
LEMMA ObservationsTell ==
    ASSUME NEW items, Inventory(items), NEW lapsed, NEW lapse \in {"missing", "twice", "unknown"},
           NEW item \in items
    PROVE  Tells(Observations(items, lapsed, lapse), item, lapsed, lapse)
<1> DEFINE S1 == {i \in items : ~(i.name = lapsed /\ lapse = "missing")}
           S2 == {i \in items : i.name = lapsed /\ lapse = "twice"}
           seen == SetToSeq(S1)
           again == SetToSeq(S2)
           f == [i \in DOMAIN seen |-> IF seen[i].name = lapsed /\ lapse = "unknown"
                                       THEN Unknown(seen[i]) ELSE Truthful(seen[i])]
           g == [i \in DOMAIN again |-> Passing(again[i])]
           o == Observations(items, lapsed, lapse)
<1>1. o = f \o g
  BY DEF Observations
<1>2. Enumerates(seen, S1) /\ Enumerates(again, S2)
  <2>1. IsFiniteSet(S1) /\ IsFiniteSet(S2)
    BY FS_Subset DEF Inventory
  <2> QED BY <2>1, SetsEnumerate
<1>3. \A i : Truthful(i).name = i.name /\ Unknown(i).name = i.name /\ Passing(i).name = i.name
  BY DEF Truthful, Unknown, Passing, ObservationOf
<1> HIDE DEF seen, again
<1> DEFINE m == Cardinality(S1)
           k == Cardinality(S2)
<1>4. m \in Nat /\ k \in Nat /\ DOMAIN seen = 1..m /\ DOMAIN again = 1..k
  BY <1>2 DEF Enumerates
<1> HIDE DEF m, k
<1>5. Len(f) = m /\ Len(g) = k
  BY <1>4
<1>6. DOMAIN o = 1..(m + k)
  BY <1>1, <1>4, <1>5
<1>7. ASSUME NEW i \in 1..m
      PROVE  /\ o[i] = IF seen[i].name = lapsed /\ lapse = "unknown"
                       THEN Unknown(seen[i]) ELSE Truthful(seen[i])
             /\ o[i].name = seen[i].name
  <2>1. o[i] = f[i]
    BY <1>1, <1>4, <1>5
  <2> QED BY <1>3, <1>4, <2>1
<1>8. ASSUME NEW i \in (m + 1)..(m + k)
      PROVE  o[i].name = lapsed /\ lapse = "twice" /\ i - m \in 1..k
  <2>1. o[i] = g[i - m] /\ i - m \in 1..k
    BY <1>1, <1>4, <1>5
  <2>2. again[i - m] \in S2
    BY <1>2, <1>4, <2>1 DEF Enumerates
  <2> QED BY <1>3, <1>4, <2>1, <2>2
<1> HIDE DEF o, f, g
<1>9. CASE item.name = lapsed /\ lapse = "missing"
  <2>1. \A i \in DOMAIN o : o[i].name # lapsed
    <3>1. \A i \in 1..m : seen[i] \in S1
      BY <1>2, <1>4 DEF Enumerates
    <3> QED BY <1>4, <1>6, <1>7, <1>8, <1>9, <3>1
  <2>2. Observed(o, lapsed) = {}
    BY <2>1 DEF Observed
  <2>3. Index(o, lapsed) = {}
    BY <2>2 DEF Index
  <2> QED BY <1>9, <2>3 DEF Tells, o
<1>10. CASE ~(item.name = lapsed /\ lapse = "missing")
  <2>1. PICK a \in 1..m : seen[a] = item
    BY <1>2, <1>4, <1>10 DEF Enumerates, Range
  <2>2. \A i \in 1..m : o[i].name = item.name <=> i = a
    <3>1. \A i \in 1..m : seen[i] \in items
      BY <1>2, <1>4 DEF Enumerates
    <3>2. \A i \in 1..m : seen[i] = item => i = a
      BY <1>2, <1>4, <2>1 DEF Enumerates
    <3> QED BY <1>7, <2>1, <3>1, <3>2 DEF Inventory
  <2>3. CASE item.name = lapsed /\ lapse = "twice"
    <3>1. 1 \in 1..k
      <4>1. item \in Range(again)
        BY <1>2, <2>3 DEF Enumerates
      <4> QED BY <1>4, <4>1 DEF Range
    <3>2. again[1] \in S2
      BY <1>2, <1>4, <3>1 DEF Enumerates
    <3>3. m + 1 \in (m + 1)..(m + k)
      BY <1>4, <3>1
    <3>4. a \in Observed(o, item.name) /\ m + 1 \in Observed(o, item.name) /\ a # m + 1
      BY <1>4, <1>6, <1>8, <2>1, <2>2, <2>3, <3>3 DEF Observed
    <3>5. Cardinality(Observed(o, item.name)) # 1
      <4>1. IsFiniteSet(Observed(o, item.name))
        <5>1. IsFiniteSet(1..(m + k))
          BY <1>4, FS_Interval
        <5> QED BY <1>6, <5>1, FS_Subset DEF Observed
      <4> QED BY <3>4, <4>1, FS_Singleton
    <3> QED BY <2>3, <3>5 DEF Index, Tells, o
  <2>4. CASE ~(item.name = lapsed /\ lapse = "twice")
    <3>1. \A i \in DOMAIN o : o[i].name = item.name <=> i = a
      BY <1>4, <1>6, <1>8, <2>2, <2>4
    <3>2. Observed(o, item.name) = {a}
      BY <1>4, <1>6, <2>1, <3>1 DEF Observed
    <3>3. Index(o, item.name) = {o[a]}
      <4>1. Cardinality({a}) = 1
        BY FS_Singleton
      <4>2. {o[i] : i \in {a}} = {o[a]}
        OBVIOUS
      <4> QED BY <3>2, <4>1, <4>2 DEF Index
    <3> QED BY <1>7, <1>10, <2>1, <2>4, <3>3 DEF Tells, o
  <2> QED BY <2>3, <2>4
<1> QED BY <1>9, <1>10

-------------------------------------------------------------------------------
LEMMA NoneIsNothing ==
    /\ None # "wanted" /\ None # "other" /\ None # "passed" /\ None # "failed"
    /\ None # "unknown" /\ None # "observed" /\ None # "missing"
BY DEF None

\* Whoever is found in order was observed once, and its class is that of what
\* was seen of it.
Answers(observations, items, item, lapsed, class) ==
    /\ class = "none" /\ ByName(items, item.name) = item
    /\ \/ item.name # lapsed /\ Seen(observations, item.name) = Truthful(item)
       \/ Seen(observations, item.name) = Unknown(item)

\* An item in order was answered.
LEMMA InOrderAnswers ==
    ASSUME NEW items, Inventory(items), NEW lapsed, NEW lapse \in {"missing", "twice", "unknown"},
           NEW item \in items, NEW kind, NEW class,
           Evaluate(kind, Observations(items, lapsed, lapse), item.name, class).class = "none"
    PROVE  Answers(Observations(items, lapsed, lapse), items, item, lapsed, class)
<1> DEFINE o == Observations(items, lapsed, lapse)
<1>1. Tells(o, item, lapsed, lapse)
  BY ObservationsTell
<1>2. Index(o, item.name) # {} /\ class = "none"
  BY DEF Evaluate, Finding
<1>3. ByName(items, item.name) = item
  BY DEF ByName, Inventory
<1> HIDE DEF o
<1>4. \A v : Index(o, item.name) = {v} => Seen(o, item.name) = v
  BY DEF Seen
<1>5. Answers(o, items, item, lapsed, class)
  BY <1>1, <1>2, <1>3, <1>4 DEF Tells, Answers
<1> QED BY <1>5 DEF o

\* A finding of a kind is in order only for an item that holds and was not lost.
InOrder(findings) == \A f \in findings : f.class = "none"
AllHold(items, lapsed) == \A item \in items : Holds(item) /\ item.name # lapsed

LEMMA Checked ==
    ASSUME NEW items, NEW item \in items, NEW observations
    PROVE  item.name \in NamesIn(items) /\ CheckedNames(items, observations) = NamesIn(items)
BY DEF NamesIn, CheckedNames

\* An inventory in order holds, kind by kind: managed files,
LEMMA FilesHold ==
    ASSUME NEW items, Inventory(items), NEW lapsed, NEW lapse \in {"missing", "twice", "unknown"},
           \A item \in items : Asks("files", item),
           InOrder(EvaluateManagedFiles(items, Observations(items, lapsed, lapse)))
    PROVE  AllHold(items, lapsed)
<1> DEFINE o == Observations(items, lapsed, lapse)
<1> SUFFICES ASSUME NEW item \in items PROVE Holds(item) /\ item.name # lapsed
  BY DEF AllHold
<1> DEFINE class == ClassifyManagedFile(ByName(items, item.name), Seen(o, item.name))
<1>1. Evaluate("managed-file", o, item.name, class).class = "none"
  BY Checked DEF InOrder, EvaluateManagedFiles
<1>2. Answers(o, items, item, lapsed, class)
  <2> HIDE DEF class
  <2> QED BY <1>1, InOrderAnswers
<1> HIDE DEF o
<1>3. CASE Seen(o, item.name) = Unknown(item)
  <2>1. FileState(Unknown(item)) = "unknown"
    BY NoneIsNothing DEF FileState, Unknown, Truthful, ObservationOf
  <2> QED BY <1>2, <1>3, <2>1 DEF Answers, ClassifyManagedFile
<1>4. CASE item.name # lapsed /\ Seen(o, item.name) = Truthful(item)
  <2>1. Truthful(item).live = Version(item)
        /\ Truthful(item).state = IF Holds(item) THEN "observed" ELSE "missing"
    BY DEF Truthful, ObservationOf
  <2>2. FileState(Truthful(item)) = "observed" => Holds(item)
    BY <2>1, NoneIsNothing DEF FileState
  <2>3. FileState(Truthful(item)) = "observed"
    BY <1>2, <1>4 DEF Answers, ClassifyManagedFile
  <2> QED BY <1>4, <2>2, <2>3
<1> QED BY <1>2, <1>3, <1>4 DEF Answers

\* validators,
LEMMA ValidatorsHold ==
    ASSUME NEW items, Inventory(items), NEW lapsed, NEW lapse \in {"missing", "twice", "unknown"},
           InOrder(EvaluateValidators(items, Observations(items, lapsed, lapse)))
    PROVE  AllHold(items, lapsed)
<1> DEFINE o == Observations(items, lapsed, lapse)
<1> SUFFICES ASSUME NEW item \in items PROVE Holds(item) /\ item.name # lapsed
  BY DEF AllHold
<1> DEFINE status == Seen(o, item.name).status
           class == CASE status = "passed" -> "none" [] status = "failed" -> "desired-state"
                      [] OTHER -> "unknown"
<1>1. Evaluate("validator", o, item.name, class).class = "none"
  BY Checked DEF InOrder, EvaluateValidators
<1>2. Answers(o, items, item, lapsed, class)
  <2> HIDE DEF class
  <2> QED BY <1>1, InOrderAnswers
<1> HIDE DEF o
<1>3. status = "passed"
  BY <1>2 DEF Answers
<1>4. item.name # lapsed /\ Seen(o, item.name) = Truthful(item)
  BY <1>2, <1>3 DEF Answers, Unknown, Truthful, ObservationOf
<1>5. status = IF item.silent THEN None ELSE IF Holds(item) THEN "passed" ELSE "failed"
  BY <1>4 DEF Truthful, ObservationOf
<1> QED BY <1>3, <1>4, <1>5, NoneIsNothing

\* packages,
LEMMA PackagesHold ==
    ASSUME NEW items, Inventory(items), NEW lapsed, NEW lapse \in {"missing", "twice", "unknown"},
           \A item \in items : Asks("packages", item),
           InOrder(EvaluatePackages(items, Observations(items, lapsed, lapse)))
    PROVE  AllHold(items, lapsed)
<1> DEFINE o == Observations(items, lapsed, lapse)
<1> SUFFICES ASSUME NEW item \in items PROVE Holds(item) /\ item.name # lapsed
  BY DEF AllHold
<1> DEFINE v == Seen(o, item.name)
           class == IF v.status = "unknown" THEN "unknown"
                    ELSE IF \/ v.status = "failed" \/ ~v.present
                            \/ items # {} /\ ByName(items, item.name).version \notin {None, v.version}
                    THEN "desired-state" ELSE "none"
<1>1. Evaluate("package", o, item.name, class).class = "none"
  BY Checked DEF InOrder, EvaluatePackages
<1>2. Answers(o, items, item, lapsed, class)
  <2> HIDE DEF class
  <2> QED BY <1>1, InOrderAnswers
<1> HIDE DEF o
<1>3. v.status # "unknown" /\ v.present /\ item.version \in {None, v.version}
  BY <1>2 DEF Answers
<1>4. item.name # lapsed /\ v = Truthful(item)
  BY <1>2, <1>3 DEF Answers, Unknown, Truthful, ObservationOf
<1>5. Pkg(item.name) \in host /\ item.version \in {None, Version(item)}
  <2>1. Truthful(item).present = (Pkg(item.name) \in host) /\ Truthful(item).version = Version(item)
    BY DEF Truthful, ObservationOf
  <2> QED BY <1>3, <1>4, <2>1
<1>6. CASE item.version = "wanted"
  BY <1>4, <1>5, <1>6, NoneIsNothing DEF Version
<1>7. CASE item.facts \subseteq {Pkg(item.name)}
  BY <1>4, <1>5, <1>7 DEF Holds
<1> QED BY <1>6, <1>7 DEF Asks

\* services,
LEMMA ServicesHold ==
    ASSUME NEW items, Inventory(items), NEW lapsed, NEW lapse \in {"missing", "twice", "unknown"},
           \A item \in items : Asks("services", item),
           InOrder(EvaluateServices(items, Observations(items, lapsed, lapse)))
    PROVE  AllHold(items, lapsed)
<1> DEFINE o == Observations(items, lapsed, lapse)
<1> SUFFICES ASSUME NEW item \in items PROVE Holds(item) /\ item.name # lapsed
  BY DEF AllHold
<1> DEFINE v == Seen(o, item.name)
           class == IF v.status = "unknown" THEN "unknown"
                    ELSE IF \/ v.status = "failed" \/ ~v.installed
                            \/ items # {} /\ ByName(items, item.name).enabled /\ ~v.enabled
                            \/ items # {} /\ ByName(items, item.name).active /\ ~v.active
                    THEN "desired-state" ELSE "none"
<1>1. Evaluate("service", o, item.name, class).class = "none"
  BY Checked DEF InOrder, EvaluateServices
<1>2. Answers(o, items, item, lapsed, class)
  <2> HIDE DEF class
  <2> QED BY <1>1, InOrderAnswers
<1> HIDE DEF o
<1>3. v.status # "unknown" /\ (item.enabled => v.enabled) /\ (item.active => v.active)
  BY <1>2 DEF Answers
<1>4. item.name # lapsed /\ v = Truthful(item)
  BY <1>2, <1>3 DEF Answers, Unknown, Truthful, ObservationOf
<1>5. (item.enabled \/ item.active) => Holds(item)
  BY <1>3, <1>4 DEF Truthful, ObservationOf
<1>6. item.facts = {} => Holds(item)
  BY DEF Holds
<1> QED BY <1>4, <1>5, <1>6 DEF Asks

\* configurations,
LEMMA ConfigurationsHold ==
    ASSUME NEW items, Inventory(items), NEW lapsed, NEW lapse \in {"missing", "twice", "unknown"},
           NEW kind, \A item \in items : item.desired \in {None, "wanted"},
           InOrder(EvaluateConfigurations(kind, items, Observations(items, lapsed, lapse)))
    PROVE  AllHold(items, lapsed)
<1> DEFINE o == Observations(items, lapsed, lapse)
<1> SUFFICES ASSUME NEW item \in items PROVE Holds(item) /\ item.name # lapsed
  BY DEF AllHold
<1> DEFINE v == Seen(o, item.name)
           class == IF v.status = "unknown" THEN "unknown"
                    ELSE IF v.status = "failed" THEN "desired-state"
                    ELSE IF items = {} THEN IF v.status = "passed" THEN "none" ELSE "unknown"
                    ELSE IF None \in {ByName(items, item.name).desired, v.live} THEN "unknown"
                    ELSE IF v.live # ByName(items, item.name).desired THEN "desired-state" ELSE "none"
<1>1. Evaluate(kind, o, item.name, class).class = "none"
  BY Checked DEF InOrder, EvaluateConfigurations
<1>2. Answers(o, items, item, lapsed, class)
  <2> HIDE DEF class
  <2> QED BY <1>1, InOrderAnswers
<1> HIDE DEF o
<1>3. v.status # "unknown" /\ item.desired # None /\ v.live = item.desired
  BY <1>2 DEF Answers
<1>4. item.name # lapsed /\ v = Truthful(item)
  BY <1>2, <1>3 DEF Answers, Unknown, Truthful, ObservationOf
<1>5. Version(item) = "wanted"
  BY <1>3, <1>4 DEF Truthful, ObservationOf
<1> QED BY <1>4, <1>5 DEF Version

\* and pacman's.
LEMMA PacmanHolds ==
    ASSUME NEW items, Inventory(items), NEW lapsed, NEW lapse \in {"missing", "twice", "unknown"},
           InOrder(EvaluatePacmanIntegrity(items, Observations(items, lapsed, lapse)))
    PROVE  AllHold(items, lapsed)
<1> DEFINE o == Observations(items, lapsed, lapse)
<1> SUFFICES ASSUME NEW item \in items PROVE Holds(item) /\ item.name # lapsed
  BY DEF AllHold
<1> DEFINE v == Seen(o, item.name)
           class == IF v.status = "unknown" THEN "unknown"
                    ELSE IF v.status = "failed" \/ (v.status = None /\ ~v.clean)
                    THEN "desired-state" ELSE "none"
<1>1. Evaluate("pacman-integrity", o, item.name, class).class = "none"
  BY Checked DEF InOrder, EvaluatePacmanIntegrity
<1>2. Answers(o, items, item, lapsed, class)
  <2> HIDE DEF class
  <2> QED BY <1>1, InOrderAnswers
<1> HIDE DEF o
<1>3. v.status # "unknown" /\ v.status # "failed" /\ (v.status = None => v.clean)
  BY <1>2 DEF Answers
<1>4. item.name # lapsed /\ v = Truthful(item)
  BY <1>2, <1>3 DEF Answers, Unknown, Truthful, ObservationOf
<1>5. /\ v.clean = Holds(item)
      /\ v.status = IF item.silent THEN None ELSE IF Holds(item) THEN "passed" ELSE "failed"
  BY <1>4 DEF Truthful, ObservationOf
<1> QED BY <1>3, <1>4, <1>5

-------------------------------------------------------------------------------
SnapshotOf(snapshot, request, lapsed, lapse) ==
    \A kind \in Kinds : snapshot[kind] = Observations(request[kind], lapsed, lapse)

LEMMA SnapshotObserves ==
    ASSUME NEW request, NEW lapsed, NEW lapse
    PROVE  SnapshotOf(Snapshot(request, lapsed, lapse), request, lapsed, lapse)
BY DEF Snapshot, SnapshotOf

\* The inventories a check is made with.
Sensible(request) ==
    \A kind \in Kinds : Inventory(request[kind]) /\ \A item \in request[kind] : Asks(kind, item)

\* A check that exits zero found every item of its inventory to hold.
LEMMA EvaluatedHolds ==
    ASSUME NEW request, Sensible(request), NEW lapsed,
           NEW lapse \in {"missing", "twice", "unknown"},
           EvaluateCheck(request, Snapshot(request, lapsed, lapse)).exit = 0
    PROVE  AllHold(Items(request), lapsed)
<1> DEFINE o(kind) == Observations(request[kind], lapsed, lapse)
           snapshot == Snapshot(request, lapsed, lapse)
<1>1. \A kind \in Kinds : snapshot[kind] = o(kind)
  BY SnapshotObserves DEF SnapshotOf
<1> HIDE DEF snapshot
<1>2. /\ InOrder(EvaluateManagedFiles(request.files, snapshot.files))
      /\ InOrder(EvaluateValidators(request.validators, snapshot.validators))
      /\ InOrder(EvaluatePackages(request.packages, snapshot.packages))
      /\ InOrder(EvaluateServices(request.services, snapshot.services))
      /\ InOrder(EvaluateConfigurations("boot", request.boot, snapshot.boot))
      /\ InOrder(EvaluateConfigurations("pam", request.pam, snapshot.pam))
      /\ InOrder(EvaluatePacmanIntegrity(request.pacman, snapshot.pacman))
  BY DEF EvaluateCheck, Report, InOrder, snapshot
<1>3. /\ InOrder(EvaluateManagedFiles(request.files, o("files")))
      /\ InOrder(EvaluateValidators(request.validators, o("validators")))
      /\ InOrder(EvaluatePackages(request.packages, o("packages")))
      /\ InOrder(EvaluateServices(request.services, o("services")))
      /\ InOrder(EvaluateConfigurations("boot", request.boot, o("boot")))
      /\ InOrder(EvaluateConfigurations("pam", request.pam, o("pam")))
      /\ InOrder(EvaluatePacmanIntegrity(request.pacman, o("pacman")))
  BY <1>1, <1>2 DEF Kinds
<1>4. \A kind \in Kinds : Inventory(request[kind]) /\ \A item \in request[kind] : Asks(kind, item)
  BY DEF Sensible
<1>5. AllHold(request.files, lapsed)
  BY <1>3, <1>4, FilesHold DEF Kinds
<1>6. AllHold(request.validators, lapsed)
  BY <1>3, <1>4, ValidatorsHold DEF Kinds
<1>7. AllHold(request.packages, lapsed)
  BY <1>3, <1>4, PackagesHold DEF Kinds
<1>8. AllHold(request.services, lapsed)
  BY <1>3, <1>4, ServicesHold DEF Kinds
<1>9. AllHold(request.boot, lapsed)
  <2>1. Inventory(request.boot) /\ \A item \in request.boot : item.desired \in {None, "wanted"}
    BY <1>4 DEF Kinds, Asks
  <2> QED BY <1>3, <2>1, ConfigurationsHold
<1>10. AllHold(request.pam, lapsed)
  <2>1. Inventory(request.pam) /\ \A item \in request.pam : item.desired \in {None, "wanted"}
    BY <1>4 DEF Kinds, Asks
  <2> QED BY <1>3, <2>1, ConfigurationsHold
<1>11. AllHold(request.pacman, lapsed)
  BY <1>3, <1>4, PacmanHolds DEF Kinds
<1> QED BY <1>5, <1>6, <1>7, <1>8, <1>9, <1>10, <1>11 DEF AllHold, Items, Kinds

\* A check whose observer failed exits zero only of an empty inventory.
LEMMA FailsClosed ==
    ASSUME NEW request, FailClosedReport(request).exit = 0
    PROVE  Items(request) = {} /\ ~request.failedUnits /\ ~request.pacnew
<1>1. \A findings, warnings : Report(findings, warnings).exit = 0 => InOrder(findings)
  BY DEF Report, InOrder
<1> DEFINE Unknown1(kind, items) == {Finding(kind, n, "unknown") : n \in NamesIn(items)}
           findings == Unknown1("managed-file", request.files)
                    \cup Unknown1("validator", request.validators)
                    \cup Unknown1("package", request.packages)
                    \cup Unknown1("service", request.services)
                    \cup Unknown1("boot", request.boot) \cup Unknown1("pam", request.pam)
                    \cup Unknown1("pacman-integrity", request.pacman)
                    \cup OnlyIf(request.failedUnits, {Finding("failed-unit", "failed-units", "unknown")})
                    \cup OnlyIf(request.pacnew, {Finding("pacnew", "pacnew", "unknown")})
           warnings == OnlyIf(request.fingerprint, {"fingerprint-enrollment"})
           all == findings \cup OnlyIf(findings = {} /\ warnings = {},
                                       {Finding("observation", "check-observer", "unknown")})
<1>2. FailClosedReport(request) = Report(all, warnings)
  BY DEF FailClosedReport
<1>3. InOrder(findings)
  <2> HIDE DEF findings, warnings
  <2>1. InOrder(all)
    BY <1>1, <1>2
  <2> QED BY <2>1 DEF InOrder
<1>4. \A kind, items : InOrder(Unknown1(kind, items)) => items = {}
  <2> SUFFICES ASSUME NEW kind, NEW items, InOrder(Unknown1(kind, items)), NEW item \in items
               PROVE  FALSE
    OBVIOUS
  <2>1. Finding(kind, item.name, "unknown") \in Unknown1(kind, items)
    BY DEF NamesIn
  <2> QED BY <2>1 DEF InOrder, Finding
<1>5. \A condition, kind, name :
         InOrder(OnlyIf(condition, {Finding(kind, name, "unknown")})) => ~condition
  BY DEF InOrder, OnlyIf, Finding
<1> HIDE DEF Unknown1
<1>6. /\ InOrder(Unknown1("managed-file", request.files))
      /\ InOrder(Unknown1("validator", request.validators))
      /\ InOrder(Unknown1("package", request.packages))
      /\ InOrder(Unknown1("service", request.services))
      /\ InOrder(Unknown1("boot", request.boot)) /\ InOrder(Unknown1("pam", request.pam))
      /\ InOrder(Unknown1("pacman-integrity", request.pacman))
      /\ InOrder(OnlyIf(request.failedUnits, {Finding("failed-unit", "failed-units", "unknown")}))
      /\ InOrder(OnlyIf(request.pacnew, {Finding("pacnew", "pacnew", "unknown")}))
  BY <1>3 DEF InOrder
<1>7. \A kind \in Kinds : request[kind] = {}
  BY <1>4, <1>6 DEF Kinds
<1> QED BY <1>5, <1>6, <1>7 DEF Items

\* A check leaves a report that says no more than that,
LEMMA CheckFindsAll ==
    ASSUME NEW request \in scenario.requests, world \in DOMAIN Worlds, NEW failed \in BOOLEAN,
           NEW lapse \in {"missing", "twice", "unknown"}, NEW lapsed,
           report' = [exit |-> CheckReport(request, failed, Snapshot(request, lapsed, lapse)).exit,
                      failed |-> failed, lapsed |-> lapsed, request |-> request],
           host' = host, report'.exit = 0
    PROVE  CheckFailsClosed'
<1>1. Sensible(request)
  BY ConvergeAssumption DEF Sensible, Inventory, scenario
<1>2. /\ report'.failed = failed /\ report'.lapsed = lapsed /\ report'.request = request
      /\ CheckReport(request, failed, Snapshot(request, lapsed, lapse)).exit = 0
  OBVIOUS
<1>3. CASE failed
  <2>1. Items(request) = {} /\ ~request.failedUnits /\ ~request.pacnew
    BY <1>2, <1>3, FailsClosed DEF CheckReport
  <2> QED BY <1>2, <1>3, <2>1 DEF CheckFailsClosed, NamesIn
<1>4. CASE ~failed
  <2>1. AllHold(Items(request), lapsed)
    BY <1>1, <1>2, <1>4, EvaluatedHolds DEF CheckReport
  <2> QED BY <1>2, <1>4, <2>1 DEF CheckFailsClosed, NamesIn, AllHold, Holds
<1> QED BY <1>3, <1>4

\* and it stays true for as long as the report is of this host.
LEMMA CheckStays ==
    ASSUME IInv, CheckFailsClosed, Next \/ UNCHANGED vars
    PROVE  CheckFailsClosed'
<1>1. CASE report' = NoReport
  BY <1>1 DEF CheckFailsClosed, NoReport
<1>2. CASE report' = report /\ host' = host
  BY <1>2 DEF CheckFailsClosed, Holds
<1>3. CASE Check
  <2>1. PICK request \in scenario.requests, failed \in BOOLEAN,
             lapse \in {"missing", "twice", "unknown"} :
           \E lapsed \in NamesIn(Items(request)) \cup {None} :
              report' = [exit |-> CheckReport(request, failed, Snapshot(request, lapsed, lapse)).exit,
                         failed |-> failed, lapsed |-> lapsed, request |-> request]
    BY <1>3 DEF Check
  <2>2. world \in DOMAIN Worlds /\ host' = host
    BY <1>3 DEF Check, IInv
  <2>3. CASE report'.exit = 0
    BY <2>1, <2>2, <2>3, CheckFindsAll
  <2>4. CASE report'.exit # 0
    BY <2>4 DEF CheckFailsClosed
  <2> QED BY <2>3, <2>4
<1>4. CASE PlanHost \/ PlanGraph \/ Drift
  BY <1>1, <1>4 DEF PlanHost, PlanGraph, Drift
<1>5. CASE Start \/ Skip \/ Mutate \/ CommandFails \/ Fault \/ Complete
  <2>1. run.phase # "idle" /\ report' = report
    BY <1>5 DEF Start, Skip, Mutate, CommandFails, Fault, Complete, ToExecute, Running
  <2> QED BY <1>1, <2>1 DEF IInv, ReportInv
<1> QED BY <1>2, <1>3, <1>4, <1>5 DEF Next, vars

-------------------------------------------------------------------------------
(* The theorems *)

\* Whatever the host, its catalog and the evidence, a plan holds each step it
\* should once and in order, and can be removed in order; graphs of modules
\* are planned exactly when they can be.
THEOREM PlansStaySound == Spec => []PlanIsSound
<1>1. IInv => PlanIsSound
  <2> SUFFICES ASSUME IInv, run.phase = "planned"
               PROVE  /\ run.plan.ok => Sound(run.mods, run.sel, run.plan.steps)
                      /\ scenario.graphs # {} => (run.plan.ok <=> Plannable(run.mods, run.sel))
    BY DEF PlanIsSound
  <2>1. WellFormed(run.mods) /\ run.plan = BuildPlan(run.mods, run.sel)
    BY DEF IInv, PlannedInv
  <2>2. run.plan.ok => Sound(run.mods, run.sel, run.plan.steps)
    BY <2>1, PlansAreSound
  <2>3. run.plan.ok <=> Plannable(run.mods, run.sel)
    BY <2>1, PlansWhatIsPlannable
  <2> QED BY <2>2, <2>3
<1> QED BY <1>1, Invariance, PTL

\* No run, complete or cut short, changes what its host's own document and
\* the evidence do not both allow.
THEOREM ChangesAreAuthorized == Spec => OnlyAuthorized
<1>1. ASSUME IInv, Next, host' # host, drifts' = drifts
      PROVE  Exercised((host \ host') \cup (host' \ host)) \subseteq Granted
  <2>1. ~Drift
    BY <1>1 DEF Drift, IInv
  <2>2. Mutate \/ Fault
    BY <1>1, <2>1 DEF Next, PlanHost, PlanGraph, Start, Skip, CommandFails, Complete, Check
  <2>3. Running /\ \E lost \in Losses(Current) : host' \in {host, Effect(Current, host) \ lost}
    BY <1>1, <2>2 DEF Mutate, Fault, ToExecute, When
  <2>4. PICK name : Fits(Current, name, Granted)
    <3>1. Current \in Range(run.steps)
      BY <1>1, <2>3 DEF Running, Current, Range, IInv, RunningInv
    <3> QED BY <1>1, <2>3, <3>1 DEF IInv, RunningInv, Running, Authorized
  <2> QED BY <2>3, <2>4, EffectIsGranted
<1> QED BY <1>1, Invariance, PTL DEF Spec, OnlyAuthorized

\* A check that exits zero was answered, saw each item of the inventory once,
\* and every item holds, whatever the inventory and however the observer fails.
THEOREM ChecksFailClosed == Spec => []CheckFailsClosed
<1>1. Init => CheckFailsClosed
  BY DEF Init, CheckFailsClosed, NoReport
<1>2. IInv /\ CheckFailsClosed /\ [Next]_vars => CheckFailsClosed'
  BY CheckStays
<1> QED BY <1>1, <1>2, Invariance, PTL DEF Spec

-------------------------------------------------------------------------------
(* What plans are for and against *)

\* What a plan was made from.
Inputs(policy, observed, facts) == [policy |-> policy, observed |-> observed, facts |-> facts]

\* What is against the plans made from o: the legacy desktop, another commit,
\* patch, icon or override than theirs and, when Vicinae is removed, what it
\* would leave.
Against(o, f) ==
    \/ f = Legacy
    \/ f[1] = "tree" /\ f[3] # AURPin(o.policy, f[2]).sourceCommit
    \/ f[1] = "patch" /\ f[3] # AURPin(o.policy, f[2]).patchSHA256
    \/ f[1] = "icon" /\ f[3] # ResolveWebAppIcon(o.observed, f[2])
    \/ o.observed.remove /\ (f = Service("vicinae") \/ f = File(Custom) \/ f[1] = "override")
    \/ /\ ~o.observed.remove /\ f[1] = "override"
       /\ f # Override(CHOOSE v \in StockVersions(o.facts) : TRUE)

\* What bootstrap removes.
Gone(f) == \E p \in Unwanted : f = Pkg(p)

\* What a step may want, leave and ask for.
Clear(o, f) == ~Against(o, f) /\ ~Gone(f) /\ f # MenuStaged /\ f # ZshLines

\* The lines of ~/.zshrc are no other file of a module, and no plan is against
\* them.
LEMMA ZshIsApart ==
    /\ ZshLines[1] = "file" /\ ~Gone(ZshLines) /\ ZshLines # MenuStaged
    /\ \A o : ~Against(o, ZshLines)
    /\ \A id : File(id) = ZshLines <=> id = "bootstrap.zsh"
    /\ \A n \in BuildDevtoolsFiles : DevtoolsFileID(n) \notin {Custom, "bootstrap.zsh"}
    /\ \A n \in PAMFiles : PAMID(n) \notin {Custom, "bootstrap.zsh"}
    /\ \A a \in WebApps : Entry(a) \notin {Custom, "bootstrap.zsh"}
    /\ \A n \in DOMAIN WorkstationFiles : WorkstationFiles[n] # "bootstrap.zsh"
    /\ \A f \in PolkitFiles : f # "bootstrap.zsh"
    /\ "bootstrap.zsh" \notin {Session, Environment, Custom, "apps.webapp.launcher"}
<1>1. ZshLines[1] = "file" /\ \A id : File(id) = ZshLines <=> id = "bootstrap.zsh"
  BY FactsDiffer DEF ZshLines
<1>2. ~Gone(ZshLines) /\ ZshLines # MenuStaged
  BY <1>1, FactsDiffer DEF Gone, BootFacts
<1>3. /\ \A n \in BuildDevtoolsFiles : DevtoolsFileID(n) \notin {Custom, "bootstrap.zsh"}
      /\ \A a \in WebApps : Entry(a) \notin {Custom, "bootstrap.zsh"}
  BY ConvergeAssumption
<1>4. \A n \in PAMFiles : PAMID(n) \notin {Custom, "bootstrap.zsh"}
  <2>1. {Custom, "bootstrap.zsh"} \subseteq FileIDs
    BY DEF FileIDs
  <2> QED BY <2>1, ConvergeAssumption
<1>5. "bootstrap.zsh" \notin {Session, Environment, Custom, "apps.webapp.launcher"}
  BY DEF Session, Environment, Custom
<1>6. \A o : ~Against(o, ZshLines)
  <2>1. ZshLines # Legacy /\ ZshLines # Service("vicinae") /\ ZshLines # File(Custom)
    BY <1>1, <1>5, FactsDiffer
  <2> QED BY <1>1, <2>1 DEF Against
<1>7. \A n \in DOMAIN WorkstationFiles : WorkstationFiles[n] # "bootstrap.zsh"
  BY DEF WorkstationFiles
<1>8. \A f \in PolkitFiles : f # "bootstrap.zsh"
  BY DEF PolkitFiles
<1> QED BY <1>1, <1>2, <1>3, <1>4, <1>5, <1>6, <1>7, <1>8

\* Facts of most kinds are clear, and so are the packages nobody removes.
LEMMA WhatIsClear ==
    ASSUME NEW o
    PROVE  /\ \A f : f[1] \notin {"desktop", "tree", "patch", "icon", "service", "file", "override",
                                  "package", "boot"} => Clear(o, f)
           /\ \A f \in BootFacts : ~Against(o, f) /\ ~Gone(f)
           /\ \A f \in BootFacts \ {MenuStaged} : Clear(o, f)
           /\ \A p : ~Against(o, Pkg(p)) /\ (p \notin Unwanted => Clear(o, Pkg(p)))
           /\ \A c \in DOMAIN GatedStep : Clear(o, HostValues(c))
           /\ \A p, c : /\ c = AURPin(o.policy, p).sourceCommit => Clear(o, Tree(p, c))
                        /\ c # AURPin(o.policy, p).sourceCommit => Against(o, Tree(p, c))
           /\ \A p, h : /\ h = AURPin(o.policy, p).patchSHA256 => Clear(o, Patch(p, h))
                        /\ h # AURPin(o.policy, p).patchSHA256 => Against(o, Patch(p, h))
           /\ \A a, i : /\ i = ResolveWebAppIcon(o.observed, a) => Clear(o, Icon(a, i))
                        /\ i # ResolveWebAppIcon(o.observed, a) => Against(o, Icon(a, i))
           /\ \A u : u # "vicinae" \/ ~o.observed.remove => Clear(o, Service(u))
           /\ \A id : id # "bootstrap.zsh" /\ (id # Custom \/ ~o.observed.remove)
                        => Clear(o, File(id))
<1>1. MenuStaged[1] = "boot" /\ (\A f : Gone(f) => f[1] = "package") /\ ZshLines[1] = "file"
      /\ \A id : id # "bootstrap.zsh" => File(id) # ZshLines
  BY FactsDiffer, ZshIsApart DEF Gone, BootFacts
<1>2. \A f : f[1] \notin {"desktop", "tree", "patch", "icon", "service", "file", "override"}
               => ~Against(o, f)
  BY FactsDiffer DEF Against
<1>3. \A f : f[1] \notin {"desktop", "tree", "patch", "icon", "service", "file", "override",
                          "package", "boot"} => Clear(o, f)
  BY <1>1, <1>2 DEF Clear
<1>4. \A f \in BootFacts : ~Against(o, f) /\ ~Gone(f)
  BY <1>1, <1>2, FactsDiffer
<1>5. \A p : ~Against(o, Pkg(p)) /\ (p \notin Unwanted => Clear(o, Pkg(p)))
  <2>1. \A p : Pkg(p)[1] = "package" /\ (p \notin Unwanted => ~Gone(Pkg(p)))
    BY FactsDiffer DEF Gone
  <2> QED BY <1>1, <1>2, <2>1 DEF Clear
<1>6. \A c \in DOMAIN GatedStep : Clear(o, HostValues(c))
  <2>1. "cosmic" \notin DOMAIN GatedStep
    BY DEF GatedStep
  <2>2. \A c \in DOMAIN GatedStep : HostValues(c) # Legacy /\ HostValues(c)[1] = "desktop"
    BY <2>1, FactsDiffer
  <2>3. \A c : Against(o, HostValues(c)) => HostValues(c) = Legacy
    BY FactsDiffer DEF Against
  <2> QED BY <1>1, <2>2, <2>3 DEF Clear
<1>7. /\ \A p, c : ~Gone(Tree(p, c)) /\ Tree(p, c) \notin {MenuStaged, ZshLines}
      /\ \A p, c : ~Gone(Patch(p, c)) /\ Patch(p, c) \notin {MenuStaged, ZshLines}
      /\ \A p, c : ~Gone(Icon(p, c)) /\ Icon(p, c) \notin {MenuStaged, ZshLines}
      /\ \A u : ~Gone(Service(u)) /\ Service(u) \notin {MenuStaged, ZshLines}
      /\ \A id : ~Gone(File(id)) /\ File(id) # MenuStaged
  BY <1>1, FactsDiffer
<1>8. /\ \A p, c : Against(o, Tree(p, c)) <=> c # AURPin(o.policy, p).sourceCommit
      /\ \A p, h : Against(o, Patch(p, h)) <=> h # AURPin(o.policy, p).patchSHA256
      /\ \A a, i : Against(o, Icon(a, i)) <=> i # ResolveWebAppIcon(o.observed, a)
  <2>1. /\ \A p, c : Tree(p, c)[2] = p /\ Tree(p, c)[3] = c
        /\ \A p, c : Patch(p, c)[2] = p /\ Patch(p, c)[3] = c
        /\ \A p, c : Icon(p, c)[2] = p /\ Icon(p, c)[3] = c
    BY DEF Tree, Patch, Icon
  <2>2. /\ \A p, c : Tree(p, c)[1] = "tree" /\ Tree(p, c) # Legacy
                     /\ (\A x : Tree(p, c) # Service(x) /\ Tree(p, c) # File(x))
        /\ \A p, c : Patch(p, c)[1] = "patch" /\ Patch(p, c) # Legacy
                     /\ (\A x : Patch(p, c) # Service(x) /\ Patch(p, c) # File(x))
        /\ \A p, c : Icon(p, c)[1] = "icon" /\ Icon(p, c) # Legacy
                     /\ (\A x : Icon(p, c) # Service(x) /\ Icon(p, c) # File(x))
    BY FactsDiffer
  <2> QED BY <2>1, <2>2 DEF Against
<1>9. /\ \A u : u # "vicinae" \/ ~o.observed.remove => ~Against(o, Service(u))
      /\ \A id : id # Custom \/ ~o.observed.remove => ~Against(o, File(id))
  <2>1. \A u : Service(u)[1] = "service" /\ Service(u) # Legacy /\ \A x : Service(u) # File(x)
    BY FactsDiffer
  <2>2. \A x : File(x)[1] = "file" /\ File(x) # Legacy
    BY FactsDiffer
  <2>3. \A u : Service(u) = Service("vicinae") => u = "vicinae"
    BY DEF Service
  <2> QED BY <2>1, <2>2, <2>3, FactsDiffer DEF Against
<1>10. /\ \A u : u # "vicinae" \/ ~o.observed.remove => Clear(o, Service(u))
       /\ \A id : id # "bootstrap.zsh" /\ (id # Custom \/ ~o.observed.remove)
                     => Clear(o, File(id))
  BY <1>1, <1>7, <1>9 DEF Clear
<1>11. /\ \A p, c : c = AURPin(o.policy, p).sourceCommit => Clear(o, Tree(p, c))
       /\ \A p, h : h = AURPin(o.policy, p).patchSHA256 => Clear(o, Patch(p, h))
       /\ \A a, i : i = ResolveWebAppIcon(o.observed, a) => Clear(o, Icon(a, i))
  BY <1>7, <1>8 DEF Clear
<1>12. \A f \in BootFacts \ {MenuStaged} : Clear(o, f)
  BY <1>1, <1>4, FactsDiffer DEF Clear
<1> QED BY <1>3, <1>4, <1>5, <1>6, <1>8, <1>10, <1>11, <1>12

\* All overrides are against a removal, and all but that of the stock version
\* against an installation.
LEMMA OverridesAgainst ==
    ASSUME NEW o
    PROVE  /\ o.observed.remove => \A v : Against(o, Override(v))
           /\ ~o.observed.remove =>
                \A v : LET chosen == Override(CHOOSE w \in StockVersions(o.facts) : TRUE)
                       IN  IF Override(v) = chosen THEN Clear(o, Override(v)) ELSE Against(o, Override(v))
<1>1. \A v : Override(v)[1] = "override" /\ Override(v) # Legacy /\ Override(v) # MenuStaged
             /\ Override(v) # ZshLines /\ ~Gone(Override(v))
  BY FactsDiffer, ZshIsApart DEF Gone, BootFacts
<1> QED BY <1>1 DEF Against, Clear

-------------------------------------------------------------------------------
(* What the steps want, leave and ask for *)

\* A step that only verifies asks for what it wants.
Verifies(s) == s.gives = {} /\ s.want # {}
Asked(s) == IF Verifies(s) THEN s.want ELSE s.need

\* The two steps that write ~/.zshrc: one rewrites its lines, the other writes
\* them as the plan saw them.
OwnsZsh(o) == ModuleEnabled(o.policy, "devtools") /\ Zshrc \in BuildDevtoolsFiles
Shared(o) == ModuleEnabled(o.policy, "bootstrap") /\ OwnsZsh(o)
ZshFile == File(DevtoolsFileID(Zshrc))
WritesZsh(o, s) ==
    /\ s.need = {} /\ s.loses = {} /\ s.gives = s.want
    /\ \/ /\ s.module = "bootstrap" /\ s.id = "bootstrap.zsh"
          /\ s.want = {ZshLines} /\ s.drop = {}
       \/ /\ s.module = "devtools" /\ s.id = DevtoolsFileID(Zshrc) /\ OwnsZsh(o)
          /\ IF ZshLines \in o.facts THEN s.want = {ZshFile, ZshLines} /\ s.drop = {}
             ELSE s.want = {ZshFile} /\ s.drop = {ZshLines}

\* The one step that may take packages along, of those the plan saw.
TakesAlong(o, s) ==
    /\ s.module = "bootstrap" /\ s.id = "bootstrap.packages.remove"
    /\ s.want = {} /\ s.gives = {} /\ \A p \in s.loses : Pkg(p) \in o.facts

\* A step drops only what is against the plans, or what it is there to take
\* away.
DropsOwn(o, s) ==
    \A f \in s.drop : \/ Against(o, f)
                      \/ s.id = "bootstrap.packages.remove" /\ Gone(f)
                      \/ f = ZshLines
                      \/ /\ f = MenuStaged
                         /\ s.id = "bootstrap.boot.grub-publish" /\ s.module = "bootstrap"

\* It leaves nothing that any step drops, but for a patch it then finds wrong,
\* the menu and ~/.zshrc.  A package it installs is marked, and paru is
\* bootstrap's.
LeavesClear(o, s) ==
    \A f \in s.gives :
        /\ Against(o, f) => f \in s.drop
        /\ ~Gone(f) /\ f[1] # "stock"
        /\ f = MenuStaged => s.id = "bootstrap.boot.grub-generate" /\ s.module = "bootstrap"
        /\ f = Pkg("paru") => /\ s.id = "bootstrap.packages.install" /\ s.module = "bootstrap"
                              /\ s.disp # "blocked" /\ f \in s.want
        /\ \A p : f = Pkg(p) => f \in o.facts \/ p = Driver \/ Explicit(p) \in s.gives

AsksClear(o, s) ==
    \A f \in Asked(s) :
        /\ ~Against(o, f) /\ f # ZshLines
        /\ Gone(f) => s.id = "bootstrap.packages.remove"
        /\ f = MenuStaged => s.id = "bootstrap.boot.grub-publish"

\* Its command has the effect that it wants, or finds it.
Effective(s) ==
    \/ s.want \subseteq s.gives /\ s.drop \cap s.gives = {}
    \/ Verifies(s) /\ s.drop = {} /\ s.loses = {} /\ \A f \in s.want : f[1] = "patch"
    \/ Mispinned(s)

Tidy(o, s) ==
    /\ DropsOwn(o, s) /\ LeavesClear(o, s) /\ AsksClear(o, s) /\ Effective(s)
    /\ \A f \in s.want : ~Against(o, f) /\ ~Gone(f)
    /\ ZshLines \in s.want \cup s.gives \cup s.drop => WritesZsh(o, s)
    /\ s.loses # {} => TakesAlong(o, s)

\* A step that depends at least on deps, and is otherwise made like this.
Is(s, id, deps, want, drop, need, gives) ==
    /\ s.id = id /\ deps \subseteq s.deps
    /\ s.want = want /\ s.drop = drop /\ s.need = need /\ s.gives = gives /\ s.loses = {}

\* What most steps are: their commands leave what they want, which is nothing
\* that any step drops.
LEMMA PlainIsTidy ==
    ASSUME NEW o, NEW s, NEW id, NEW deps, NEW want, NEW drop, NEW need, NEW gives,
           Is(s, id, deps, want, drop, need, gives),
           \A f \in drop : Against(o, f), \A f \in need : Clear(o, f),
           want \subseteq gives,
           \A f \in gives : /\ Clear(o, f) /\ f # Pkg("paru") /\ f[1] # "stock"
                            /\ \A p : f = Pkg(p) => f \in o.facts \/ p = Driver \/ Explicit(p) \in gives
    PROVE  Tidy(o, s)
<1>1. s.id = id /\ s.want = want /\ s.drop = drop /\ s.need = need /\ s.gives = gives /\ s.loses = {}
  BY DEF Is
<1>2. ~Verifies(s) /\ Asked(s) = need
  BY <1>1 DEF Verifies, Asked
<1>3. DropsOwn(o, s)
  BY <1>1 DEF DropsOwn
<1>4. LeavesClear(o, s)
  BY <1>1 DEF LeavesClear, Clear
<1>5. AsksClear(o, s)
  BY <1>1, <1>2 DEF AsksClear, Clear
<1>6. Effective(s)
  BY <1>1 DEF Effective, Clear
<1>7. ZshLines \notin s.want \cup s.gives \cup s.drop
  BY <1>1, ZshIsApart DEF Clear
<1> QED BY <1>1, <1>3, <1>4, <1>5, <1>6, <1>7 DEF Tidy, Clear

\* So are the steps that write ~/.zshrc.
LEMMA ZshIsTidy ==
    ASSUME NEW o, NEW s, WritesZsh(o, s)
    PROVE  Tidy(o, s)
<1>1. \A f \in s.gives \cup s.drop : f \in {ZshLines, ZshFile}
  BY DEF WritesZsh
<1>2. ZshLines \in s.drop => s.gives = {ZshFile} /\ Zshrc \in BuildDevtoolsFiles
  BY DEF WritesZsh, OwnsZsh
<1>3. s.gives = {ZshLines} \/ Zshrc \in BuildDevtoolsFiles
  BY DEF WritesZsh, OwnsZsh
<1>4. Zshrc \in BuildDevtoolsFiles => Clear(o, ZshFile) /\ ZshFile # ZshLines
  BY ZshIsApart, WhatIsClear DEF ZshFile
<1>5. \A f \in s.gives : ~Against(o, f) /\ ~Gone(f) /\ f # MenuStaged
  BY <1>1, <1>3, <1>4, ZshIsApart DEF Clear
<1>6. \A f \in s.gives : f[1] = "file"
  BY <1>1, ZshIsApart, FactsDiffer DEF ZshFile
<1>7. \A f \in s.drop : f = ZshLines
  BY DEF WritesZsh
<1>8. s.need = {} /\ s.loses = {} /\ s.gives = s.want
  BY DEF WritesZsh
<1>9. DropsOwn(o, s)
  BY <1>7 DEF DropsOwn
<1>10. LeavesClear(o, s)
  BY <1>5, <1>6, FactsDiffer DEF LeavesClear
<1>11. AsksClear(o, s)
  BY <1>8 DEF AsksClear, Asked, Verifies
<1>12. Effective(s)
  BY <1>2, <1>4, <1>7, <1>8 DEF Effective
<1> QED BY <1>5, <1>8, <1>9, <1>10, <1>11, <1>12 DEF Tidy

\* A step without effect, and its record when it is blocked.
IsNothing(s) == s.want = {} /\ s.drop = {} /\ s.need = {} /\ s.gives = {} /\ s.loses = {}

\* A step without effect is tidy and asks for nothing.
LEMMA NothingIsTidy ==
    ASSUME NEW o, NEW s, IsNothing(s)
    PROVE  Tidy(o, s) /\ Asked(s) = {}
<1>1. ~Verifies(s) /\ Asked(s) = {}
  BY DEF IsNothing, Verifies, Asked
<1>2. Effective(s)
  BY DEF Effective, IsNothing
<1>3. DropsOwn(o, s) /\ LeavesClear(o, s) /\ AsksClear(o, s)
  BY <1>1 DEF IsNothing, DropsOwn, LeavesClear, AsksClear
<1> QED BY <1>1, <1>2, <1>3 DEF IsNothing, Tidy

\* The record of a blocked capability is one.
LEMMA BlockedIsNothing ==
    ASSUME NEW policy, NEW observed, NEW module, NEW capabilities
    PROVE  \A s \in BlockedSteps(policy, observed, module, capabilities) :
              IsNothing(s) /\ s.disp = "blocked"
<1>1. \A c : IsNothing(BlockedPolicyStep(module, c)) /\ BlockedPolicyStep(module, c).disp = "blocked"
  BY DEF BlockedPolicyStep, Step, IsNothing
<1> QED BY <1>1 DEF BlockedSteps

\* What the constructors of steps make.
LEMMA StepIs ==
    /\ \A id, module, deps, disp, want, drop :
          Is(Step(id, module, deps, disp, want, drop), id, deps, want, drop, {}, want)
    /\ \A id, module, deps, want, need, facts :
          LET s == ModuleRequestStep(id, module, deps, want, need, facts)
          IN  Is(s, id, deps, want, {}, need, want) /\ s.disp # "blocked"
    /\ \A id, module, deps, facts :
          LET s == ManagedFileStep(id, module, deps, facts)
          IN  Is(s, id, deps, {File(id)}, {}, {}, {File(id)}) /\ s.disp # "blocked"
<1>1. \A id, module, deps, disp, want, drop :
          Is(Step(id, module, deps, disp, want, drop), id, deps, want, drop, {}, want)
  BY DEF Is, Step
<1>2. \A b : ConvergedDisposition(b) # "blocked"
  BY DEF ConvergedDisposition
<1>3. \A id, module, deps, want, need, facts :
          LET s == ModuleRequestStep(id, module, deps, want, need, facts)
          IN  Is(s, id, deps, want, {}, need, want) /\ s.disp # "blocked"
  BY <1>2 DEF Is, ModuleRequestStep, Step
<1>4. \A id, module, deps, facts :
          LET s == ManagedFileStep(id, module, deps, facts)
          IN  Is(s, id, deps, {File(id)}, {}, {}, {File(id)}) /\ s.disp # "blocked"
  BY <1>3 DEF ManagedFileStep
<1> QED BY <1>1, <1>3, <1>4

-------------------------------------------------------------------------------
(* What each module asks for, and where it leads *)

\* The places of the steps in an order that their dependencies respect.
Follows(at, steps) ==
    /\ \A s \in steps : at[s.id] \in Nat
    /\ \A s, t \in steps : t.id \in s.deps => at[t.id] < at[s.id]

\* Something was there to begin with, or an earlier step wants it.
Supplied(at, steps, s, f, facts) ==
    f \in facts \/ \E t \in steps : t.disp # "blocked" /\ f \in t.want /\ at[t.id] < at[s.id]

\* What the steps ask for is supplied, but for paru.
Supplies(at, steps, facts) ==
    \A s \in steps : s.disp # "blocked" =>
        \A f \in Asked(s) : f = Pkg("paru") \/ Supplied(at, steps, s, f, facts)

\* What holds after a complete run: what its steps want is there and what they
\* drop is not.
Undone(o, f) == f = MenuStaged \/ (f = ZshLines /\ Shared(o))
Achieved(o, steps, after) ==
    \A s \in steps : s.disp # "blocked" =>
        (\A f \in s.want : Undone(o, f) \/ f \in after) /\ \A f \in s.drop : f \notin after

\* Unless packages went along with those it removed nothing else was taken
\* away, and nothing came but what the steps may leave.
Finished(o, steps, after) ==
    /\ Achieved(o, steps, after)
    /\ \A f \in o.facts : Clear(o, f) => f \in after
    /\ \A f \in after \ o.facts :
          /\ ~Against(o, f) /\ ~Gone(f) /\ f[1] # "stock"
          /\ \A p : f = Pkg(p) => p = Driver \/ Explicit(p) \in after

Then(o, after) == Inputs(o.policy, o.observed, after)

\* The steps that are left to a settled host: none but the services that
\* bootstrap manages, and those that write ~/.zshrc when both do.
Serves(s) ==
    /\ s.module = "bootstrap" /\ s.loses = {}
    /\ \E u \in DOMAIN ManagedService :
          /\ s.id = "bootstrap.service." \o u
          /\ s.want = {Service(u)} /\ s.gives = {Service(u)} /\ s.drop = {}
          /\ s.need = {Pkg(ManagedService[u])}
AtRest(o, steps) ==
    \A s \in steps : \/ s.disp = "blocked" \/ Done(s, o.facts) \/ Serves(s)
                     \/ (Shared(o) /\ WritesZsh(o, s))

\* What a step wanted is there after a complete run, but for the menu and the
\* lines of ~/.zshrc.
LEMMA WantedIsThere ==
    ASSUME NEW o, NEW steps, NEW after, Finished(o, steps, after)
    PROVE  \A s \in steps : s.disp # "blocked" =>
              \A f \in s.want : f[1] # "boot" /\ (f # ZshLines \/ ~Shared(o)) => f \in after
<1>1. MenuStaged[1] = "boot"
  BY FactsDiffer DEF BootFacts
<1> QED BY <1>1 DEF Finished, Achieved, Undone

\* The inputs of a plan, and of the next one.
LEMMA ThenIs ==
    \A policy, observed, facts, after :
        LET o == Inputs(policy, observed, facts)
        IN  /\ o.policy = policy /\ o.observed = observed /\ o.facts = facts
            /\ Then(o, after) = Inputs(policy, observed, after)
BY DEF Inputs, Then

-------------------------------------------------------------------------------
(* Devtools *)

DevtoolsSteps(o) == Devtools(o.policy, o.observed, o.facts).steps

DevtoolsSettled(o) ==
    ModuleEnabled(o.policy, "devtools") =>
        /\ Pkg("mise") \in o.facts /\ Toolchain \in o.facts
        /\ \A n \in BuildDevtoolsFiles : File(DevtoolsFileID(n)) \in o.facts

IsMise(s) == Is(s, MiseStep, {}, {Pkg("mise")}, {}, {}, {Pkg("mise"), Explicit("mise")})
IsToolchain(s) ==
    Is(s, "devtools.toolchain.install", {DevtoolsFileID(n) : n \in BuildDevtoolsFiles}, {Toolchain}, {},
       {Pkg("mise")} \cup {File(DevtoolsFileID(n)) : n \in ConfigFiles}, {Toolchain})
IsDevtoolsFile(o, s, n) ==
    /\ s.id = DevtoolsFileID(n) /\ MiseStep \in s.deps
    /\ File(DevtoolsFileID(n)) \in s.want /\ s.gives = s.want /\ s.need = {}
    /\ IF n = Zshrc THEN WritesZsh(o, s)
       ELSE Is(s, DevtoolsFileID(n), {MiseStep}, {File(DevtoolsFileID(n))}, {}, {},
               {File(DevtoolsFileID(n))})

\* The steps of devtools, one by one.
LEMMA DevtoolsStepsAre ==
    ASSUME NEW o, Devtools(o.policy, o.observed, o.facts).valid
    PROVE  /\ ~ModuleEnabled(o.policy, "devtools") => DevtoolsSteps(o) = {}
           /\ \A s \in DevtoolsSteps(o) :
                 /\ s.disp # "blocked"
                 /\ IsMise(s) \/ IsToolchain(s) \/ \E n \in BuildDevtoolsFiles : IsDevtoolsFile(o, s, n)
           /\ ModuleEnabled(o.policy, "devtools") =>
                 /\ \E s \in DevtoolsSteps(o) : IsMise(s) /\ s.disp # "blocked"
                 /\ \E s \in DevtoolsSteps(o) : IsToolchain(s) /\ s.disp # "blocked"
                 /\ \A n \in BuildDevtoolsFiles :
                       \E s \in DevtoolsSteps(o) : IsDevtoolsFile(o, s, n) /\ s.disp # "blocked"
<1> DEFINE m == ModuleRequestStep(MiseStep, "devtools", {}, {Pkg("mise")}, {}, o.facts)
           mise == [m EXCEPT !.gives = {Pkg("mise"), Explicit("mise")}]
           tools == ModuleRequestStep("devtools.toolchain.install", "devtools",
                       {DevtoolsFileID(n) : n \in BuildDevtoolsFiles}, {Toolchain},
                       {Pkg("mise")} \cup {File(DevtoolsFileID(n)) : n \in ConfigFiles}, o.facts)
           f(n) == DevtoolsFileStep(n, o.facts)
<1>1. IsMise(mise) /\ mise.disp # "blocked"
  <2>1. Is(m, MiseStep, {}, {Pkg("mise")}, {}, {}, {Pkg("mise")}) /\ m.disp # "blocked"
    BY StepIs
  <2>2. "gives" \in DOMAIN m
    BY DEF ModuleRequestStep, Step
  <2> HIDE DEF m
  <2> QED BY <2>1, <2>2 DEF Is, IsMise
<1>2. IsToolchain(tools) /\ tools.disp # "blocked"
  BY StepIs DEF IsToolchain
<1>3. ASSUME NEW n \in BuildDevtoolsFiles, ModuleEnabled(o.policy, "devtools")
      PROVE  IsDevtoolsFile(o, f(n), n) /\ f(n).disp # "blocked"
  <2> DEFINE s == ManagedFileStep(DevtoolsFileID(n), "devtools", {MiseStep}, o.facts)
             more == [s EXCEPT !.want = @ \cup {ZshLines}, !.gives = @ \cup {ZshLines}]
             less == [s EXCEPT !.drop = {ZshLines}]
  <2>1. Is(s, DevtoolsFileID(n), {MiseStep}, {File(DevtoolsFileID(n))}, {}, {},
           {File(DevtoolsFileID(n))}) /\ s.disp # "blocked"
    BY StepIs
  <2>2. s.module = "devtools" /\ {"want", "gives", "drop"} \subseteq DOMAIN s
    BY DEF ManagedFileStep, ModuleRequestStep, Step
  <2>3. f(n) = IF n # Zshrc THEN s ELSE IF ZshLines \in o.facts THEN more ELSE less
    BY DEF DevtoolsFileStep
  <2> HIDE DEF s, f
  <2>4. CASE n # Zshrc
    BY <2>1, <2>3, <2>4 DEF IsDevtoolsFile, Is
  <2>5. CASE n = Zshrc /\ ZshLines \in o.facts
    <3>1. /\ more.id = s.id /\ more.module = s.module /\ more.deps = s.deps /\ more.disp = s.disp
          /\ more.drop = s.drop /\ more.need = s.need /\ more.loses = s.loses
          /\ more.want = s.want \cup {ZshLines} /\ more.gives = s.gives \cup {ZshLines}
      BY <2>2
    <3> HIDE DEF more
    <3> QED BY <1>3, <2>1, <2>2, <2>3, <2>5, <3>1 DEF IsDevtoolsFile, WritesZsh, OwnsZsh, ZshFile, Is
  <2>6. CASE n = Zshrc /\ ZshLines \notin o.facts
    <3>1. /\ less.id = s.id /\ less.module = s.module /\ less.deps = s.deps /\ less.disp = s.disp
          /\ less.want = s.want /\ less.need = s.need /\ less.loses = s.loses
          /\ less.gives = s.gives /\ less.drop = {ZshLines}
      BY <2>2
    <3> HIDE DEF less
    <3> QED BY <1>3, <2>1, <2>2, <2>3, <2>6, <3>1 DEF IsDevtoolsFile, WritesZsh, OwnsZsh, ZshFile, Is
  <2> QED BY <2>4, <2>5, <2>6
<1>4. /\ ~ModuleEnabled(o.policy, "devtools") => DevtoolsSteps(o) = {}
      /\ ModuleEnabled(o.policy, "devtools") =>
           DevtoolsSteps(o) = {mise, tools} \cup {f(n) : n \in BuildDevtoolsFiles}
  BY DEF DevtoolsSteps, Devtools, Valid, Invalid, BuildDevtoolsRequestPlan
<1> HIDE DEF mise, tools, f
<1> QED BY <1>1, <1>2, <1>3, <1>4

\* Each step of devtools is tidy.
LEMMA DevtoolsIsTidy ==
    ASSUME NEW o, Devtools(o.policy, o.observed, o.facts).valid
    PROVE  \A s \in DevtoolsSteps(o) : Tidy(o, s)
<1> SUFFICES ASSUME NEW s \in DevtoolsSteps(o) PROVE Tidy(o, s)
  OBVIOUS
<1>1. "mise" \notin Unwanted /\ "mise" # "paru"
  BY ConvergeAssumption
<1>2. Clear(o, Pkg("mise")) /\ Pkg("mise") # Pkg("paru") /\ Clear(o, Explicit("mise"))
      /\ Pkg("mise")[1] = "package" /\ Explicit("mise")[1] = "explicit"
      /\ \A p : Pkg("mise") = Pkg(p) => p = "mise"
      /\ Pkg("paru")[1] = "package"
  BY <1>1, WhatIsClear, FactsDiffer
<1>3. Clear(o, Toolchain) /\ Toolchain[1] = "devtools"
  BY WhatIsClear, FactsDiffer
<1>4. \A n \in BuildDevtoolsFiles :
         /\ Clear(o, File(DevtoolsFileID(n))) /\ File(DevtoolsFileID(n))[1] = "file"
  BY ZshIsApart, WhatIsClear, FactsDiffer
<1>5. \A p : Pkg(p)[1] = "package"
  BY FactsDiffer
<1>6. CASE IsMise(s)
  <2> DEFINE gives == {Pkg("mise"), Explicit("mise")}
  <2>1. \A f \in gives : /\ Clear(o, f) /\ f # Pkg("paru") /\ f[1] # "stock"
                         /\ \A p : f = Pkg(p) => f \in o.facts \/ p = Driver \/ Explicit(p) \in gives
    BY <1>2, <1>5
  <2> QED BY <1>6, <2>1, PlainIsTidy DEF IsMise
<1>7. CASE IsToolchain(s)
  <2>1. \A f \in {Pkg("mise")} \cup {File(DevtoolsFileID(n)) : n \in ConfigFiles} : Clear(o, f)
    BY <1>2, <1>4 DEF BuildDevtoolsFiles
  <2>2. \A f \in {Toolchain} : /\ Clear(o, f) /\ f # Pkg("paru") /\ f[1] # "stock" /\ \A p : f # Pkg(p)
    BY <1>3, <1>5
  <2> QED BY <1>7, <2>1, <2>2, PlainIsTidy DEF IsToolchain
<1>8. CASE \E n \in BuildDevtoolsFiles : IsDevtoolsFile(o, s, n)
  <2>1. PICK n \in BuildDevtoolsFiles : IsDevtoolsFile(o, s, n)
    BY <1>8
  <2>2. \A f \in {File(DevtoolsFileID(n))} :
           /\ Clear(o, f) /\ f # Pkg("paru") /\ f[1] # "stock" /\ \A p : f # Pkg(p)
    BY <1>4, <1>5
  <2>3. CASE n = Zshrc
    BY <2>1, <2>3, ZshIsTidy DEF IsDevtoolsFile
  <2>4. CASE n # Zshrc
    BY <2>1, <2>2, <2>4, PlainIsTidy DEF IsDevtoolsFile
  <2> QED BY <2>3, <2>4
<1> QED BY <1>6, <1>7, <1>8, DevtoolsStepsAre

\* Each step of devtools finds what it asks for.
LEMMA DevtoolsSupplies ==
    ASSUME NEW o, Devtools(o.policy, o.observed, o.facts).valid, NEW at, Follows(at, DevtoolsSteps(o))
    PROVE  Supplies(at, DevtoolsSteps(o), o.facts)
<1> SUFFICES ASSUME NEW s \in DevtoolsSteps(o), NEW f \in Asked(s)
             PROVE  Supplied(at, DevtoolsSteps(o), s, f, o.facts)
  BY DEF Supplies
<1>1. ModuleEnabled(o.policy, "devtools")
  BY DevtoolsStepsAre
<1>2. PICK m \in DevtoolsSteps(o) : IsMise(m) /\ m.disp # "blocked"
  BY <1>1, DevtoolsStepsAre
<1>3. \A n \in BuildDevtoolsFiles :
         \E t \in DevtoolsSteps(o) : IsDevtoolsFile(o, t, n) /\ t.disp # "blocked"
  BY <1>1, DevtoolsStepsAre
<1>4. IsToolchain(s)
  <2>1. IsMise(s) \/ IsToolchain(s) \/ \E n \in BuildDevtoolsFiles : IsDevtoolsFile(o, s, n)
    BY DevtoolsStepsAre
  <2> QED BY <2>1 DEF IsMise, IsDevtoolsFile, Is, Asked, Verifies
<1>5. f = Pkg("mise") \/ \E n \in ConfigFiles : f = File(DevtoolsFileID(n))
  BY <1>4 DEF IsToolchain, Is, Asked, Verifies
<1>6. ASSUME NEW n \in BuildDevtoolsFiles
      PROVE  \E t \in DevtoolsSteps(o) : /\ t.disp # "blocked" /\ File(DevtoolsFileID(n)) \in t.want
                                         /\ at[m.id] < at[t.id] /\ at[t.id] < at[s.id]
  <2>1. PICK t \in DevtoolsSteps(o) : IsDevtoolsFile(o, t, n) /\ t.disp # "blocked"
    BY <1>3
  <2>2. m.id \in t.deps /\ t.id \in s.deps /\ File(DevtoolsFileID(n)) \in t.want
    BY <1>2, <1>4, <2>1 DEF IsMise, IsDevtoolsFile, IsToolchain, Is
  <2> QED BY <2>1, <2>2 DEF Follows
<1>7. CASE f = Pkg("mise")
  <2>1. PICK n \in ConfigFiles : n \in BuildDevtoolsFiles
    BY ConvergeAssumption DEF BuildDevtoolsFiles
  <2>2. at[m.id] < at[s.id]
    BY <1>6, <2>1 DEF Follows
  <2> QED BY <1>2, <1>7, <2>2 DEF Supplied, IsMise, Is
<1>8. CASE \E n \in ConfigFiles : f = File(DevtoolsFileID(n))
  BY <1>6, <1>8 DEF Supplied, BuildDevtoolsFiles
<1> QED BY <1>5, <1>7, <1>8

\* A complete run settles devtools.
LEMMA DevtoolsSettles ==
    ASSUME NEW o, Devtools(o.policy, o.observed, o.facts).valid, NEW after,
           Finished(o, DevtoolsSteps(o), after)
    PROVE  DevtoolsSettled(Then(o, after))
<1> SUFFICES ASSUME ModuleEnabled(o.policy, "devtools")
             PROVE  /\ Pkg("mise") \in after /\ Toolchain \in after
                    /\ \A n \in BuildDevtoolsFiles : File(DevtoolsFileID(n)) \in after
  BY DEF DevtoolsSettled, Then, Inputs
<1>3. \A s \in DevtoolsSteps(o) : s.disp # "blocked" =>
         \A f \in s.want : f[1] # "boot" /\ f # ZshLines => f \in after
  BY WantedIsThere
<1>9. Pkg("mise") # ZshLines /\ Toolchain # ZshLines
  BY ZshIsApart, FactsDiffer
<1>4. Pkg("mise") \in after
  <2>1. PICK s \in DevtoolsSteps(o) : IsMise(s) /\ s.disp # "blocked"
    BY DevtoolsStepsAre
  <2> QED BY <1>3, <1>9, <2>1, FactsDiffer DEF IsMise, Is
<1>5. Toolchain \in after
  <2>1. PICK s \in DevtoolsSteps(o) : IsToolchain(s) /\ s.disp # "blocked"
    BY DevtoolsStepsAre
  <2> QED BY <1>3, <1>9, <2>1, FactsDiffer DEF IsToolchain, Is
<1>6. ASSUME NEW n \in BuildDevtoolsFiles PROVE File(DevtoolsFileID(n)) \in after
  <2>1. PICK s \in DevtoolsSteps(o) : IsDevtoolsFile(o, s, n) /\ s.disp # "blocked"
    BY DevtoolsStepsAre
  <2>2. File(DevtoolsFileID(n)) # ZshLines
    BY ZshIsApart
  <2> QED BY <1>3, <2>1, <2>2, FactsDiffer DEF IsDevtoolsFile
<1> QED BY <1>4, <1>5, <1>6

\* Where devtools is settled its steps are done.
LEMMA DevtoolsRests ==
    ASSUME NEW o, Devtools(o.policy, o.observed, o.facts).valid, DevtoolsSettled(o)
    PROVE  AtRest(o, DevtoolsSteps(o))
<1> SUFFICES ASSUME NEW s \in DevtoolsSteps(o) PROVE Done(s, o.facts)
  BY DEF AtRest
<1>1. ModuleEnabled(o.policy, "devtools")
  BY DevtoolsStepsAre
<1>2. CASE IsMise(s) \/ IsToolchain(s)
  BY <1>1, <1>2 DEF DevtoolsSettled, Done, IsMise, IsToolchain, Is
<1>3. CASE \E n \in BuildDevtoolsFiles : IsDevtoolsFile(o, s, n)
  <2>1. PICK n \in BuildDevtoolsFiles : IsDevtoolsFile(o, s, n)
    BY <1>3
  <2>2. CASE n # Zshrc
    BY <1>1, <2>1, <2>2 DEF DevtoolsSettled, Done, IsDevtoolsFile, Is
  <2>3. CASE n = Zshrc
    <3>1. WritesZsh(o, s) /\ s.id # "bootstrap.zsh" /\ ZshFile \in o.facts
      BY <1>1, <2>1, <2>3, ZshIsApart DEF IsDevtoolsFile, DevtoolsSettled, ZshFile
    <3> QED BY <3>1 DEF WritesZsh, Done
  <2> QED BY <2>2, <2>3
<1> QED BY <1>2, <1>3, DevtoolsStepsAre

-------------------------------------------------------------------------------
(* Packages built from their source *)

IsFetch(s, prefix, p, pin) ==
    Is(s, prefix \o ".fetch", {}, {Fetched(p, pin.sourceCommit)}, {}, {}, {Fetched(p, pin.sourceCommit)})
IsCheckout(s, prefix, p, pin) ==
    Is(s, prefix \o ".checkout", {prefix \o ".fetch"}, {Tree(p, pin.sourceCommit)},
       {Tree(p, d) : d \in Commits \ {pin.sourceCommit}}, {Fetched(p, pin.sourceCommit)},
       {Tree(p, pin.sourceCommit)})
IsWrite(s, prefix, p, pin) ==
    Is(s, prefix \o ".patch.materialize", {prefix \o ".checkout"}, {Patch(p, pin.patchSHA256)},
       {Patch(p, g) : g \in Patches \ {pin.patchSHA256}}, {Fetched(p, pin.sourceCommit)},
       {Patch(p, PatchOf[pin.sourceCommit])})
IsVerify(s, prefix, p, pin) ==
    Is(s, prefix \o ".patch.verify", {prefix \o ".patch.materialize"}, {Patch(p, pin.patchSHA256)},
       {}, {Patch(p, PatchOf[pin.sourceCommit])}, {})
IsInstall(s, prefix, p, pin) ==
    Is(s, prefix \o ".install", {prefix \o ".patch.verify"}, {Pkg(p)}, {},
       {Pkg("paru"), Tree(p, pin.sourceCommit), Patch(p, pin.patchSHA256)}, {Pkg(p), Explicit(p)})
IsSource(s, prefix, p, pin) ==
    \/ IsFetch(s, prefix, p, pin) \/ IsCheckout(s, prefix, p, pin) \/ IsWrite(s, prefix, p, pin)
    \/ IsVerify(s, prefix, p, pin) \/ IsInstall(s, prefix, p, pin)

\* All five are there and none is blocked.
HasSource(steps, prefix, p, pin) ==
    /\ \E s \in steps : IsFetch(s, prefix, p, pin) /\ s.disp # "blocked"
    /\ \E s \in steps : IsCheckout(s, prefix, p, pin) /\ s.disp # "blocked"
    /\ \E s \in steps : IsWrite(s, prefix, p, pin) /\ s.disp # "blocked"
    /\ \E s \in steps : IsVerify(s, prefix, p, pin) /\ s.disp # "blocked"
    /\ \E s \in steps : IsInstall(s, prefix, p, pin) /\ s.disp # "blocked"

\* The steps of a pinned package, one by one.
LEMMA SourceStepsAre ==
    ASSUME NEW prefix, NEW module, NEW p, NEW pin, NEW after, NEW tree, NEW patch,
           tree # "blocked", patch # "blocked"
    PROVE  /\ \A s \in SourceSteps(prefix, module, p, pin, after, tree, patch) :
                 IsSource(s, prefix, p, pin) /\ s.disp # "blocked"
           /\ HasSource(SourceSteps(prefix, module, p, pin, after, tree, patch), prefix, p, pin)
<1> DEFINE c == pin.sourceCommit
           h == pin.patchSHA256
           New(op, deps, disp, want, drop, need, gives) ==
             [Step(prefix \o op, module, deps, disp, want, drop)
                EXCEPT !.need = need, !.gives = gives, !.inverse = TRUE]
           fetch    == New(".fetch", after, "apply", {Fetched(p, c)}, {}, {}, {Fetched(p, c)})
           checkout == New(".checkout", {prefix \o ".fetch"}, tree, {Tree(p, c)},
                           {Tree(p, d) : d \in Commits \ {c}}, {Fetched(p, c)}, {Tree(p, c)})
           write    == New(".patch.materialize", {prefix \o ".checkout"}, patch, {Patch(p, h)},
                           {Patch(p, g) : g \in Patches \ {h}}, {Fetched(p, c)}, {Patch(p, PatchOf[c])})
           verify   == New(".patch.verify", {prefix \o ".patch.materialize"}, patch, {Patch(p, h)},
                           {}, {Patch(p, PatchOf[c])}, {})
           install  == New(".install", {prefix \o ".patch.verify"}, "apply", {Pkg(p)},
                           {}, {Pkg("paru"), Tree(p, c), Patch(p, h)}, {Pkg(p), Explicit(p)})
<1>1. SourceSteps(prefix, module, p, pin, after, tree, patch)
        = {fetch, checkout, write, verify, install}
  BY DEF SourceSteps
<1>2. \A op, deps, disp, want, drop, need, gives :
         LET s == New(op, deps, disp, want, drop, need, gives)
         IN  Is(s, prefix \o op, deps, want, drop, need, gives) /\ s.disp = disp
  BY DEF Is, Step
<1> HIDE DEF New
<1>3. IsFetch(fetch, prefix, p, pin) /\ fetch.disp # "blocked"
  <2>1. Is(fetch, prefix \o ".fetch", after, {Fetched(p, c)}, {}, {}, {Fetched(p, c)}) /\ fetch.disp = "apply"
    BY <1>2
  <2> QED BY <2>1 DEF IsFetch, Is
<1>4. IsCheckout(checkout, prefix, p, pin) /\ checkout.disp # "blocked"
  BY <1>2 DEF IsCheckout
<1>5. IsWrite(write, prefix, p, pin) /\ write.disp # "blocked"
  BY <1>2 DEF IsWrite
<1>6. IsVerify(verify, prefix, p, pin) /\ verify.disp # "blocked"
  BY <1>2 DEF IsVerify
<1>7. IsInstall(install, prefix, p, pin) /\ install.disp # "blocked"
  BY <1>2 DEF IsInstall
<1> HIDE DEF fetch, checkout, write, verify, install
<1> QED BY <1>1, <1>3, <1>4, <1>5, <1>6, <1>7 DEF IsSource, HasSource

\* They are tidy for any package that bootstrap neither removes nor installs
\* as paru,
LEMMA SourceIsTidy ==
    ASSUME NEW o, NEW s, NEW prefix, NEW p, p \notin Unwanted \cup {"paru"},
           LET pin == AURPin(o.policy, p) IN IsSource(s, prefix, p, pin) /\ ValidateAURLocalPin(pin)
    PROVE  Tidy(o, s)
<1> DEFINE pin == AURPin(o.policy, p)
           c == pin.sourceCommit
           h == pin.patchSHA256
<1>1. /\ Clear(o, Fetched(p, c)) /\ Clear(o, Tree(p, c)) /\ Clear(o, Patch(p, h))
      /\ Clear(o, Pkg(p)) /\ Clear(o, Explicit(p)) /\ Clear(o, Pkg("paru"))
  <2>1. "paru" \notin Unwanted
    BY ConvergeAssumption
  <2> QED BY <2>1, WhatIsClear, FactsDiffer
<1>2. (\A d : d # c => Against(o, Tree(p, d))) /\ \A g : g # h => Against(o, Patch(p, g))
  BY WhatIsClear
<1>3. /\ \A x, y : Fetched(x, y)[1] = "fetched" /\ Tree(x, y)[1] = "tree" /\ Patch(x, y)[1] = "patch"
      /\ \A x : Pkg(x)[1] = "package" /\ Explicit(x)[1] = "explicit"
      /\ \A q : Pkg(p) = Pkg(q) => p = q
  BY FactsDiffer
<1>4. IsSource(s, prefix, p, pin) /\ c \in Commits
  BY DEF ValidateAURLocalPin
<1> HIDE DEF pin, c, h
<1> DEFINE Fair(f) == Clear(o, f) /\ f # Pkg("paru") /\ f[1] # "stock" /\ \A q : f # Pkg(q)
<1>5. Fair(Fetched(p, c)) /\ Fair(Tree(p, c)) /\ Fair(Patch(p, h))
  BY <1>1, <1>3
<1>6. CASE IsFetch(s, prefix, p, pin)
  <2>1. \A f \in {Fetched(p, c)} : Fair(f)
    BY <1>5
  <2> QED BY <1>6, <2>1, PlainIsTidy DEF IsFetch, c
<1>7. CASE IsCheckout(s, prefix, p, pin)
  <2>1. \A f \in {Tree(p, c)} : Fair(f)
    BY <1>5
  <2>2. (\A f \in {Tree(p, d) : d \in Commits \ {c}} : Against(o, f)) /\ \A f \in {Fetched(p, c)} : Clear(o, f)
    BY <1>1, <1>2
  <2> QED BY <1>7, <2>1, <2>2, PlainIsTidy DEF IsCheckout, c
<1>8. CASE IsWrite(s, prefix, p, pin)
  <2> DEFINE g == PatchOf[c]
  <2>1. s.id = prefix \o ".patch.materialize" /\ s.want = {Patch(p, h)} /\ s.need = {Fetched(p, c)}
        /\ s.drop = {Patch(p, x) : x \in Patches \ {h}} /\ s.gives = {Patch(p, g)} /\ s.loses = {}
    BY <1>8 DEF IsWrite, Is, c, h
  <2>2. g \in Patches
    BY <1>4, ConvergeAssumption DEF Commits, Range
  <2>3. Patch(p, g)[1] = "patch" /\ ~Gone(Patch(p, g)) /\ Patch(p, g) # MenuStaged
    BY FactsDiffer DEF Gone, BootFacts
  <2>9. ZshLines \notin s.want \cup s.gives \cup s.drop
    BY <2>1, ZshIsApart, FactsDiffer
  <2>4. Patch(p, h) # Patch(p, g) <=> h # g
    BY DEF Patch
  <2> HIDE DEF g
  <2>5. DropsOwn(o, s)
    BY <1>2, <2>1 DEF DropsOwn
  <2>6. LeavesClear(o, s)
    <3>1. Against(o, Patch(p, g)) => g # h
      BY <1>1 DEF Clear
    <3> QED BY <1>3, <2>1, <2>2, <2>3, <3>1 DEF LeavesClear
  <2>7. AsksClear(o, s)
    BY <1>1, <2>1 DEF AsksClear, Asked, Verifies, Clear
  <2>8. Effective(s)
    <3>1. CASE g = h
      <4>1. s.drop \cap s.gives = {}
        <5>1. \A x : Patch(p, x) = Patch(p, g) => x = g
          BY DEF Patch
        <5> QED BY <2>1, <3>1, <5>1
      <4> QED BY <2>1, <3>1, <4>1 DEF Effective
    <3>2. CASE g # h
      BY <2>1, <2>3, <2>4, <3>2 DEF Effective, Mispinned
    <3> QED BY <3>1, <3>2
  <2> QED BY <1>1, <2>1, <2>5, <2>6, <2>7, <2>8, <2>9 DEF Tidy, Clear
<1>9. CASE IsVerify(s, prefix, p, pin)
  <2>1. s.want = {Patch(p, h)} /\ s.drop = {} /\ s.gives = {} /\ s.loses = {}
    BY <1>9 DEF IsVerify, Is, h
  <2>2. Verifies(s) /\ Asked(s) = {Patch(p, h)}
    BY <2>1 DEF Verifies, Asked
  <2>3. Patch(p, h)[1] = "patch" /\ Patch(p, h) # ZshLines
    BY ZshIsApart, FactsDiffer
  <2>4. DropsOwn(o, s) /\ LeavesClear(o, s)
    BY <2>1 DEF DropsOwn, LeavesClear
  <2>5. AsksClear(o, s)
    BY <1>1, <2>2 DEF AsksClear, Clear
  <2>6. Effective(s)
    BY <2>1, <2>2, <2>3 DEF Effective
  <2> QED BY <1>1, <2>1, <2>3, <2>4, <2>5, <2>6 DEF Tidy, Clear
<1>10. CASE IsInstall(s, prefix, p, pin)
  <2> DEFINE gives == {Pkg(p), Explicit(p)}
  <2>1. \A f \in {Pkg("paru"), Tree(p, c), Patch(p, h)} : Clear(o, f)
    BY <1>1
  <2>2. \A f \in gives : /\ Clear(o, f) /\ f # Pkg("paru") /\ f[1] # "stock"
                         /\ \A q : f = Pkg(q) => f \in o.facts \/ q = Driver \/ Explicit(q) \in gives
    <3>1. Pkg(p) # Pkg("paru")
      BY FactsDiffer
    <3> QED BY <1>1, <1>3, <3>1
  <2> QED BY <1>10, <2>1, <2>2, PlainIsTidy DEF IsInstall, c, h
<1> QED BY <1>4, <1>6, <1>7, <1>8, <1>9, <1>10 DEF IsSource

\* and each finds what the one before it leaves.
LEMMA SourceSupplies ==
    ASSUME NEW at, NEW steps, Follows(at, steps), NEW facts, NEW prefix, NEW p, NEW pin,
           HasSource(steps, prefix, p, pin), NEW s \in steps, IsSource(s, prefix, p, pin)
    PROVE  \A f \in Asked(s) : f = Pkg("paru") \/ Supplied(at, steps, s, f, facts)
<1> DEFINE c == pin.sourceCommit
           h == pin.patchSHA256
<1> SUFFICES ASSUME NEW f \in Asked(s), f # Pkg("paru") PROVE Supplied(at, steps, s, f, facts)
  OBVIOUS
<1>1. PICK fetch \in steps : IsFetch(fetch, prefix, p, pin) /\ fetch.disp # "blocked"
  BY DEF HasSource
<1>2. PICK checkout \in steps : IsCheckout(checkout, prefix, p, pin) /\ checkout.disp # "blocked"
  BY DEF HasSource
<1>3. PICK write \in steps : IsWrite(write, prefix, p, pin) /\ write.disp # "blocked"
  BY DEF HasSource
<1>4. PICK verify \in steps : IsVerify(verify, prefix, p, pin) /\ verify.disp # "blocked"
  BY DEF HasSource
<1>5. Fetched(p, c) \in fetch.want /\ Tree(p, c) \in checkout.want /\ Patch(p, h) \in write.want
  BY <1>1, <1>2, <1>3 DEF IsFetch, IsCheckout, IsWrite, Is
<1>6. at[fetch.id] < at[checkout.id] /\ at[checkout.id] < at[write.id] /\ at[write.id] < at[verify.id]
  <2>1. fetch.id \in checkout.deps /\ checkout.id \in write.deps /\ write.id \in verify.deps
    BY <1>1, <1>2, <1>3, <1>4 DEF IsFetch, IsCheckout, IsWrite, IsVerify, Is
  <2> QED BY <2>1 DEF Follows
<1>7. \A t \in steps : at[t.id] \in Nat
  BY DEF Follows
<1>8. CASE IsFetch(s, prefix, p, pin)
  BY <1>8 DEF IsFetch, Is, Asked, Verifies
<1>9. CASE IsCheckout(s, prefix, p, pin)
  <2>1. f = Fetched(p, c) /\ fetch.id \in s.deps
    BY <1>1, <1>9 DEF IsCheckout, IsFetch, Is, Asked, Verifies
  <2> QED BY <1>1, <1>5, <2>1 DEF Follows, Supplied
<1>10. CASE IsWrite(s, prefix, p, pin)
  <2>1. f = Fetched(p, c) /\ s.id = write.id
    BY <1>3, <1>10 DEF IsWrite, Is, Asked, Verifies
  <2>2. at[fetch.id] < at[s.id]
    BY <1>6, <1>7, <2>1
  <2> QED BY <1>1, <1>5, <2>1, <2>2 DEF Supplied
<1>11. CASE IsVerify(s, prefix, p, pin)
  <2>1. f = Patch(p, h) /\ write.id \in s.deps
    BY <1>3, <1>11 DEF IsVerify, IsWrite, Is, Asked, Verifies
  <2> QED BY <1>3, <1>5, <2>1 DEF Follows, Supplied
<1>12. CASE IsInstall(s, prefix, p, pin)
  <2>1. f \in {Tree(p, c), Patch(p, h)} /\ verify.id \in s.deps
    <3>1. Asked(s) = {Pkg("paru"), Tree(p, c), Patch(p, h)} /\ verify.id \in s.deps
      BY <1>4, <1>12 DEF IsInstall, IsVerify, Is, Asked, Verifies
    <3> QED BY <3>1
  <2>2. at[verify.id] < at[s.id]
    BY <2>1 DEF Follows
  <2>3. at[checkout.id] < at[s.id] /\ at[write.id] < at[s.id]
    BY <1>6, <1>7, <2>2
  <2> QED BY <1>2, <1>3, <1>5, <2>1, <2>3 DEF Supplied
<1> QED BY <1>8, <1>9, <1>10, <1>11, <1>12 DEF IsSource

-------------------------------------------------------------------------------
(* Fingerprint *)

\* Nothing that a step drops, and no package.
Plain(o, f) == Clear(o, f) /\ f[1] \notin {"stock", "package"}

\* A request for plain facts is tidy.
LEMMA RequestIsTidy ==
    ASSUME NEW o, NEW s, NEW id, NEW deps, NEW want, NEW need,
           Is(s, id, deps, want, {}, need, want),
           \A f \in want : Plain(o, f), \A f \in need : Clear(o, f)
    PROVE  Tidy(o, s)
<1>1. \A p : Pkg(p)[1] = "package"
  BY FactsDiffer
<1>2. \A f \in want : Clear(o, f) /\ f # Pkg("paru") /\ f[1] # "stock" /\ \A p : f # Pkg(p)
  BY <1>1 DEF Plain
<1> QED BY <1>2, PlainIsTidy

FingerprintSteps(o) == Fingerprint(o.policy, o.observed, o.facts).steps
Fingered(o) == ModuleEnabled(o.policy, "fingerprint") /\ Ready(o.policy, o.observed, "fingerprintPam")
TheDriver == {Pkg(Driver), AtPin}

FingerprintSettled(o) ==
    Fingered(o) => TheDriver \subseteq o.facts /\ \A n \in PAMFiles : File(PAMID(n)) \in o.facts

IsBuild(s, i) ==
    Is(s, BuildOperations[i], IF i = 1 THEN {} ELSE {BuildOperations[i - 1]},
       {Built(BuildOperations[i])}, {}, IF i = 1 THEN {} ELSE {Built(BuildOperations[i - 1])},
       {Built(BuildOperations[i])})
IsDriver(s) ==
    /\ Is(s, InstallOperation, {}, TheDriver, {}, s.need, TheDriver)
    /\ s.need # {} => s.need = {Built(BuildOperations[6])} /\ BuildOperations[6] \in s.deps
IsPAM(s, n) ==
    Is(s, PAMID(n), {InstallOperation}, {File(PAMID(n))}, {}, TheDriver, {File(PAMID(n))})

\* The steps of fingerprint, one by one.
LEMMA FingerprintStepsAre ==
    ASSUME NEW o, Fingerprint(o.policy, o.observed, o.facts).valid
    PROVE  /\ ~Fingered(o) => \A s \in FingerprintSteps(o) : IsNothing(s) /\ s.disp = "blocked"
           /\ Fingered(o) =>
                /\ \A s \in FingerprintSteps(o) :
                      /\ s.disp # "blocked"
                      /\ \/ \E i \in 1..6 : IsBuild(s, i)
                         \/ IsDriver(s)
                         \/ \E n \in PAMFiles : IsPAM(s, n)
                /\ \E s \in FingerprintSteps(o) : IsDriver(s) /\ s.disp # "blocked"
                /\ \A n \in PAMFiles :
                      \E s \in FingerprintSteps(o) : IsPAM(s, n) /\ s.disp # "blocked"
                /\ TheDriver \subseteq o.facts =>
                      \A s \in FingerprintSteps(o) :
                         (IsDriver(s) /\ s.need = {}) \/ \E n \in PAMFiles : IsPAM(s, n)
                /\ ~(TheDriver \subseteq o.facts) =>
                      \A i \in 1..6 :
                         \E s \in FingerprintSteps(o) : IsBuild(s, i) /\ s.disp # "blocked"
<1> DEFINE Need(i) == IF i = 1 THEN {} ELSE {Built(BuildOperations[i - 1])}
           Dep(i)  == IF i = 1 THEN {} ELSE {BuildOperations[i - 1]}
           last    == Last(BuildOperations)
           build(i) == [Step(BuildOperations[i], "fingerprint", Dep(i), "apply",
                             {Built(BuildOperations[i])}, {}) EXCEPT !.need = Need(i)]
           install == [Step(InstallOperation, "fingerprint", {last}, "apply", TheDriver, {})
                         EXCEPT !.need = {Built(last)}, !.inverse = TRUE]
           file(n) == ManagedFileStep(PAMID(n), "fingerprint", {InstallOperation}, o.facts)
           pam(n)  == [file(n) EXCEPT !.need = TheDriver]
           blocked == BlockedSteps(o.policy, o.observed, "fingerprint", {"fingerprintPam"})
<1>1. DOMAIN BuildOperations = 1..6 /\ last = BuildOperations[6]
  BY DEF BuildOperations, Last
<1>2. ASSUME NEW i \in 1..6 PROVE IsBuild(build(i), i) /\ build(i).disp # "blocked"
  <2> HIDE DEF Dep, Need
  <2>1. /\ build(i).id = BuildOperations[i] /\ build(i).deps = Dep(i)
        /\ build(i).want = {Built(BuildOperations[i])} /\ build(i).drop = {}
        /\ build(i).need = Need(i) /\ build(i).gives = {Built(BuildOperations[i])}
        /\ build(i).disp = "apply" /\ build(i).loses = {}
    BY DEF Step
  <2> HIDE DEF build
  <2>2. Is(build(i), BuildOperations[i], Dep(i), {Built(BuildOperations[i])}, {}, Need(i),
           {Built(BuildOperations[i])})
    BY <2>1 DEF Is
  <2> QED BY <2>1, <2>2 DEF IsBuild, Dep, Need
<1>3. IsDriver(install) /\ install.disp # "blocked"
  <2> HIDE DEF last
  <2>1. /\ install.id = InstallOperation /\ install.deps = {last} /\ install.want = TheDriver
        /\ install.drop = {} /\ install.need = {Built(last)} /\ install.gives = TheDriver
        /\ install.disp = "apply" /\ install.loses = {}
    BY DEF Step
  <2> HIDE DEF install
  <2> QED BY <1>1, <2>1 DEF IsDriver, Is
<1>4. IsDriver(FingerprintPackageStep) /\ FingerprintPackageStep.need = {}
      /\ FingerprintPackageStep.disp # "blocked"
  <2>1. /\ FingerprintPackageStep.id = InstallOperation /\ FingerprintPackageStep.want = TheDriver
        /\ FingerprintPackageStep.drop = {} /\ FingerprintPackageStep.need = {}
        /\ FingerprintPackageStep.gives = TheDriver /\ FingerprintPackageStep.disp = "satisfied"
        /\ FingerprintPackageStep.loses = {}
    BY DEF FingerprintPackageStep, Step, TheDriver
  <2> QED BY <2>1 DEF IsDriver, Is
<1>5. ASSUME NEW n \in PAMFiles PROVE IsPAM(pam(n), n) /\ pam(n).disp # "blocked"
  <2>1. /\ Is(file(n), PAMID(n), {InstallOperation}, {File(PAMID(n))}, {}, {}, {File(PAMID(n))})
        /\ file(n).disp # "blocked"
    BY StepIs
  <2>2. "need" \in DOMAIN file(n)
    BY DEF ManagedFileStep, ModuleRequestStep, Step
  <2> HIDE DEF file
  <2> QED BY <2>1, <2>2 DEF IsPAM, Is
<1>6. \A s \in blocked : IsNothing(s) /\ s.disp = "blocked"
  BY BlockedIsNothing
<1>7. CASE ~Fingered(o)
  <2>1. FingerprintSteps(o) \subseteq blocked
    BY <1>7 DEF FingerprintSteps, Fingered, Fingerprint, Valid, Invalid
  <2> QED BY <1>6, <1>7, <2>1
<1>8. CASE Fingered(o)
  <2>1. FingerprintSteps(o) = BuildFingerprintPlan(o.facts)
    BY <1>8 DEF FingerprintSteps, Fingered, Fingerprint, Valid, Invalid
  <2>2. BuildRequests(o.facts) = {build(i) : i \in 1..6} \cup {install}
    BY <1>1 DEF BuildRequests, TheDriver
  <2>3. PAMFileSteps(o.facts) = {pam(n) : n \in PAMFiles}
    BY DEF PAMFileSteps, TheDriver
  <2> HIDE DEF build, install, pam
  <2>4. CASE TheDriver \subseteq o.facts
    <3>1. FingerprintSteps(o) = {FingerprintPackageStep} \cup {pam(n) : n \in PAMFiles}
      BY <2>1, <2>3, <2>4 DEF BuildFingerprintPlan, TheDriver
    <3> QED BY <1>4, <1>5, <1>8, <2>4, <3>1
  <2>5. CASE ~(TheDriver \subseteq o.facts)
    <3>1. FingerprintSteps(o) = {build(i) : i \in 1..6} \cup {install} \cup {pam(n) : n \in PAMFiles}
      BY <2>1, <2>2, <2>3, <2>5 DEF BuildFingerprintPlan, TheDriver
    <3> QED BY <1>2, <1>3, <1>5, <1>8, <2>5, <3>1
  <2> QED BY <2>4, <2>5
<1> QED BY <1>7, <1>8

\* Each step of fingerprint is tidy.
LEMMA FingerprintIsTidy ==
    ASSUME NEW o, Fingerprint(o.policy, o.observed, o.facts).valid
    PROVE  \A s \in FingerprintSteps(o) : Tidy(o, s)
<1> SUFFICES ASSUME NEW s \in FingerprintSteps(o) PROVE Tidy(o, s)
  OBVIOUS
<1>1. CASE ~Fingered(o)
  BY <1>1, FingerprintStepsAre, NothingIsTidy
<1>2. CASE \E i \in 1..6 : IsBuild(s, i)
  <2>1. PICK i \in 1..6 : IsBuild(s, i)
    BY <1>2
  <2>2. \A op : Plain(o, Built(op)) /\ Clear(o, Built(op))
    BY WhatIsClear, FactsDiffer DEF Plain
  <2> DEFINE need == IF i = 1 THEN {} ELSE {Built(BuildOperations[i - 1])}
             deps == IF i = 1 THEN {} ELSE {BuildOperations[i - 1]}
             want == {Built(BuildOperations[i])}
  <2>3. Is(s, BuildOperations[i], deps, want, {}, need, want)
    BY <2>1 DEF IsBuild
  <2>4. (\A f \in want : Plain(o, f)) /\ \A f \in need : Clear(o, f)
    BY <2>2
  <2> HIDE DEF need, deps, want
  <2> QED BY <2>3, <2>4, RequestIsTidy
<1>3. \A f \in TheDriver : Clear(o, f) /\ f # Pkg("paru") /\ f[1] # "stock"
                           /\ \A p : f = Pkg(p) => p = Driver
  <2>1. Clear(o, Pkg(Driver)) /\ Clear(o, AtPin)
    BY ConvergeAssumption, WhatIsClear, FactsDiffer
  <2>2. Driver # "paru"
    BY DEF Driver
  <2> QED BY <2>1, <2>2, FactsDiffer DEF TheDriver
<1>4. CASE IsDriver(s)
  <2>1. \A op : Clear(o, Built(op))
    BY WhatIsClear, FactsDiffer
  <2>2. \A f \in s.need : Clear(o, f)
    BY <1>4, <2>1 DEF IsDriver
  <2>3. Is(s, InstallOperation, {}, TheDriver, {}, s.need, TheDriver)
    BY <1>4 DEF IsDriver
  <2> QED BY <1>3, <2>2, <2>3, PlainIsTidy
<1>5. CASE \E n \in PAMFiles : IsPAM(s, n)
  <2>1. PICK n \in PAMFiles : IsPAM(s, n)
    BY <1>5
  <2>2. PAMID(n) \notin {Custom, "bootstrap.zsh"}
    BY ZshIsApart
  <2>3. \A f \in {File(PAMID(n))} : Plain(o, f)
    BY <2>2, WhatIsClear, FactsDiffer DEF Plain
  <2> QED BY <1>3, <2>1, <2>3, RequestIsTidy DEF IsPAM
<1> QED BY <1>1, <1>2, <1>4, <1>5, FingerprintStepsAre

\* Each step of fingerprint finds what it asks for.
LEMMA FingerprintSupplies ==
    ASSUME NEW o, Fingerprint(o.policy, o.observed, o.facts).valid, NEW at,
           Follows(at, FingerprintSteps(o))
    PROVE  Supplies(at, FingerprintSteps(o), o.facts)
<1> SUFFICES ASSUME NEW s \in FingerprintSteps(o), s.disp # "blocked", NEW f \in Asked(s)
             PROVE  Supplied(at, FingerprintSteps(o), s, f, o.facts)
  BY DEF Supplies
<1>1. Fingered(o)
  BY FingerprintStepsAre
<1>2. CASE \E n \in PAMFiles : IsPAM(s, n)
  <2>1. PICK t \in FingerprintSteps(o) : IsDriver(t) /\ t.disp # "blocked"
    BY <1>1, FingerprintStepsAre
  <2>2. f \in TheDriver /\ t.id \in s.deps /\ t.want = TheDriver
    BY <1>2, <2>1 DEF IsPAM, IsDriver, Is, Asked, Verifies
  <2> QED BY <2>1, <2>2 DEF Supplied, Follows
<1>3. ASSUME NEW i \in 1..6, f = Built(BuildOperations[i]), BuildOperations[i] \in s.deps,
             ~(TheDriver \subseteq o.facts)
      PROVE  Supplied(at, FingerprintSteps(o), s, f, o.facts)
  <2>1. PICK t \in FingerprintSteps(o) : IsBuild(t, i) /\ t.disp # "blocked"
    BY <1>1, <1>3, FingerprintStepsAre
  <2>2. f \in t.want /\ t.id \in s.deps
    BY <1>3, <2>1 DEF IsBuild, Is
  <2> QED BY <2>1, <2>2 DEF Supplied, Follows
<1>4. CASE IsDriver(s)
  <2>1. s.need # {} /\ f = Built(BuildOperations[6]) /\ BuildOperations[6] \in s.deps
    BY <1>4 DEF IsDriver, Is, Asked, Verifies, TheDriver
  <2>2. CASE TheDriver \subseteq o.facts
    <3>1. \E n \in PAMFiles : IsPAM(s, n)
      BY <1>1, <2>1, <2>2, FingerprintStepsAre
    <3> QED BY <1>2, <3>1
  <2> QED BY <1>3, <2>1, <2>2
<1>5. CASE (\E i \in 1..6 : IsBuild(s, i)) /\ ~IsDriver(s)
  <2>1. PICK i \in 1..6 : IsBuild(s, i)
    BY <1>5
  <2>2. i # 1 /\ f = Built(BuildOperations[i - 1]) /\ BuildOperations[i - 1] \in s.deps
    BY <2>1 DEF IsBuild, Is, Asked, Verifies
  <2>3. CASE TheDriver \subseteq o.facts
    <3>1. \E n \in PAMFiles : IsPAM(s, n)
      BY <1>1, <1>5, <2>3, FingerprintStepsAre
    <3> QED BY <1>2, <3>1
  <2>4. i - 1 \in 1..6
    BY <2>2
  <2> QED BY <1>3, <2>2, <2>3, <2>4
<1> QED BY <1>1, <1>2, <1>4, <1>5, FingerprintStepsAre

\* A complete run settles fingerprint.
LEMMA FingerprintSettles ==
    ASSUME NEW o, Fingerprint(o.policy, o.observed, o.facts).valid, NEW after,
           Finished(o, FingerprintSteps(o), after)
    PROVE  FingerprintSettled(Then(o, after))
<1>1. Fingered(Then(o, after)) <=> Fingered(o)
  BY DEF Fingered, Then, Inputs
<1> SUFFICES ASSUME Fingered(o)
             PROVE  TheDriver \subseteq after /\ \A n \in PAMFiles : File(PAMID(n)) \in after
  BY <1>1 DEF FingerprintSettled, Then, Inputs
<1>2. \A s \in FingerprintSteps(o) : s.disp # "blocked" =>
         /\ \A f \in s.want : f[1] \notin {"boot", "file"} => f \in after
         /\ \A id : id # "bootstrap.zsh" /\ File(id) \in s.want => File(id) \in after
  BY WantedIsThere, ZshIsApart, FactsDiffer
<1>3. TheDriver \subseteq after
  <2>1. PICK s \in FingerprintSteps(o) : IsDriver(s) /\ s.disp # "blocked"
    BY FingerprintStepsAre
  <2>2. s.want = TheDriver
    BY <2>1 DEF IsDriver, Is
  <2>3. Pkg(Driver)[1] = "package" /\ AtPin[1] = "driver"
    BY FactsDiffer
  <2> QED BY <1>2, <2>1, <2>2, <2>3 DEF TheDriver
<1>4. ASSUME NEW n \in PAMFiles PROVE File(PAMID(n)) \in after
  <2>1. PICK s \in FingerprintSteps(o) : IsPAM(s, n) /\ s.disp # "blocked"
    BY FingerprintStepsAre
  <2>2. PAMID(n) # "bootstrap.zsh"
    BY ZshIsApart
  <2> QED BY <1>2, <2>1, <2>2 DEF IsPAM, Is
<1> QED BY <1>3, <1>4

\* Where fingerprint is settled its steps are done.
LEMMA FingerprintRests ==
    ASSUME NEW o, Fingerprint(o.policy, o.observed, o.facts).valid, FingerprintSettled(o)
    PROVE  AtRest(o, FingerprintSteps(o))
<1> SUFFICES ASSUME NEW s \in FingerprintSteps(o), s.disp # "blocked" PROVE Done(s, o.facts)
  BY DEF AtRest
<1>1. Fingered(o)
  BY FingerprintStepsAre
<1>2. TheDriver \subseteq o.facts /\ \A n \in PAMFiles : File(PAMID(n)) \in o.facts
  BY <1>1 DEF FingerprintSettled
<1>3. IsDriver(s) \/ \E n \in PAMFiles : IsPAM(s, n)
  BY <1>1, <1>2, FingerprintStepsAre
<1> QED BY <1>2, <1>3 DEF Done, IsDriver, IsPAM, Is

-------------------------------------------------------------------------------
(* Desktop *)

DesktopSteps(o) == Desktop(o.policy, o.observed, o.facts).steps
IsWorkstation(o) == ModuleEnabled(o.policy, "desktop") /\ DeclaresRole(o.policy, "workstation")
DesktopFiles == {WorkstationFiles[n] : n \in DOMAIN WorkstationFiles} \cup PolkitFiles
DesktopWants == {Pkg(p) : p \in DesktopPackages}

DesktopSettled(o) ==
    IsWorkstation(o) =>
        /\ DesktopWants \subseteq o.facts /\ File(Session) \in o.facts
        /\ \A f \in DesktopFiles : File(f) \in o.facts
        /\ \A c \in DOMAIN GatedStep : Ready(o.policy, o.observed, c) => HostValues(c) \in o.facts
        /\ Ready(o.policy, o.observed, "cosmicPrune") => Legacy \notin o.facts

IsPackages(s) ==
    Is(s, Packages, {}, DesktopWants, {}, {}, DesktopWants \cup {Explicit(p) : p \in DesktopPackages})
IsDesktopFile(s, f) == Is(s, f, {Packages}, {File(f)}, {}, {}, {File(f)})
IsGated(s, c) == Is(s, GatedStep[c], {Session}, {HostValues(c)}, {}, {}, {HostValues(c)})
IsPrune(s) ==
    Is(s, "desktop.cosmic-prune", {Session}, {}, {Legacy}, DesktopWants \cup {File(Session)}, {})

\* The steps of desktop, one by one.
LEMMA DesktopStepsAre ==
    ASSUME NEW o, Desktop(o.policy, o.observed, o.facts).valid
    PROVE  /\ ~IsWorkstation(o) => DesktopSteps(o) = {}
           /\ IsWorkstation(o) =>
                /\ \A s \in DesktopSteps(o) :
                      \/ IsPackages(s)
                      \/ \E f \in DesktopFiles \cup {Session} : IsDesktopFile(s, f)
                      \/ \E c \in DOMAIN GatedStep : Ready(o.policy, o.observed, c) /\ IsGated(s, c)
                      \/ Ready(o.policy, o.observed, "cosmicPrune") /\ IsPrune(s)
                      \/ IsNothing(s) /\ s.disp = "blocked"
                /\ \E s \in DesktopSteps(o) : IsPackages(s) /\ s.disp # "blocked"
                /\ \A f \in DesktopFiles \cup {Session} :
                      \E s \in DesktopSteps(o) : IsDesktopFile(s, f) /\ s.disp # "blocked"
                /\ \A c \in DOMAIN GatedStep : Ready(o.policy, o.observed, c) =>
                      \E s \in DesktopSteps(o) : IsGated(s, c) /\ s.disp # "blocked"
                /\ Ready(o.policy, o.observed, "cosmicPrune") =>
                      \E s \in DesktopSteps(o) : IsPrune(s) /\ s.disp # "blocked"
<1> DEFINE files == {WorkstationFiles[a.name] : a \in OwnedRoleTemplates(o.policy, "workstation")}
                    \cup PolkitFiles
           explicits == {Explicit(p) : p \in DesktopPackages}
           request == ModuleRequestStep(Packages, "desktop", {}, DesktopWants, {}, o.facts)
           packages == [request EXCEPT !.gives = DesktopWants \cup explicits]
           session == ManagedFileStep(Session, "desktop", {Packages} \cup files, o.facts)
           file(f) == ManagedFileStep(f, "desktop", {Packages}, o.facts)
           gated(c) == Step(GatedStep[c], "desktop", {Session}, "apply", {HostValues(c)}, {})
           granted == {d \in DOMAIN GatedStep : Ready(o.policy, o.observed, d)}
           prune == Ready(o.policy, o.observed, "cosmicPrune")
           blocked == BlockedSteps(o.policy, o.observed, "desktop", DesktopCapabilities)
<1>1. IsPackages(packages) /\ packages.disp # "blocked"
  <2>1. Is(request, Packages, {}, DesktopWants, {}, {}, DesktopWants) /\ request.disp # "blocked"
    BY StepIs
  <2>2. "gives" \in DOMAIN request
    BY DEF ModuleRequestStep, Step
  <2> HIDE DEF request, explicits
  <2>3. /\ packages.id = request.id /\ packages.deps = request.deps /\ packages.want = request.want
        /\ packages.drop = request.drop /\ packages.need = request.need
        /\ packages.gives = DesktopWants \cup explicits /\ packages.disp = request.disp
        /\ packages.loses = request.loses
    BY <2>2
  <2> HIDE DEF packages
  <2> QED BY <2>1, <2>3 DEF IsPackages, Is, explicits
<1>2. ASSUME NEW f PROVE IsDesktopFile(file(f), f) /\ file(f).disp # "blocked"
  BY StepIs DEF IsDesktopFile
<1>3. IsDesktopFile(session, Session) /\ session.disp # "blocked"
  <2> HIDE DEF files
  <2>1. Is(session, Session, {Packages} \cup files, {File(Session)}, {}, {}, {File(Session)})
        /\ session.disp # "blocked"
    BY StepIs
  <2> HIDE DEF session
  <2> QED BY <2>1 DEF IsDesktopFile, Is
<1>4. ASSUME NEW c PROVE IsGated(gated(c), c) /\ gated(c).disp # "blocked"
  <2>1. gated(c).disp = "apply"
    BY DEF Step
  <2>2. Is(gated(c), GatedStep[c], {Session}, {HostValues(c)}, {}, {}, {HostValues(c)})
    BY StepIs
  <2> HIDE DEF gated
  <2> QED BY <2>1, <2>2 DEF IsGated
<1>5. IsPrune(CosmicPruneStep) /\ CosmicPruneStep.disp # "blocked"
  BY DEF CosmicPruneStep, IsPrune, Is, Step, DesktopWants
<1>6. \A s \in blocked : IsNothing(s) /\ s.disp = "blocked"
  BY BlockedIsNothing
<1>7. CASE ~IsWorkstation(o)
  BY <1>7 DEF DesktopSteps, IsWorkstation, Desktop, Valid, Invalid
<1>8. CASE IsWorkstation(o)
  <2>1. /\ DesktopSteps(o) = BuildDesktopRequestPlan(o.policy, o.facts) \cup GatedSteps(o.policy, o.observed)
                             \cup When(prune, {CosmicPruneStep}) \cup blocked
        /\ {a.name : a \in OwnedRoleTemplates(o.policy, "workstation")} = DOMAIN WorkstationFiles
    BY <1>8 DEF DesktopSteps, IsWorkstation, Desktop, Valid, Invalid
  <2>2. files = DesktopFiles
    BY <2>1 DEF DesktopFiles
  <2>3. BuildDesktopRequestPlan(o.policy, o.facts) = {packages, session} \cup {file(f) : f \in files}
    BY DEF BuildDesktopRequestPlan, DesktopWants
  <2>4. GatedSteps(o.policy, o.observed) = {gated(c) : c \in granted}
    BY DEF GatedSteps
  <2> HIDE DEF packages, session, file, gated, files, blocked
  <2>5. DesktopSteps(o) = {packages, session} \cup {file(f) : f \in DesktopFiles}
           \cup {gated(c) : c \in granted} \cup When(prune, {CosmicPruneStep}) \cup blocked
    BY <2>1, <2>2, <2>3, <2>4
  <2>6. ASSUME NEW s \in DesktopSteps(o)
        PROVE  \/ IsPackages(s)
               \/ \E f \in DesktopFiles \cup {Session} : IsDesktopFile(s, f)
               \/ \E c \in DOMAIN GatedStep : Ready(o.policy, o.observed, c) /\ IsGated(s, c)
               \/ Ready(o.policy, o.observed, "cosmicPrune") /\ IsPrune(s)
               \/ IsNothing(s) /\ s.disp = "blocked"
    <3>1. CASE s \in {packages, session} \cup {file(f) : f \in DesktopFiles}
      BY <1>1, <1>2, <1>3, <3>1
    <3>2. CASE s \in {gated(c) : c \in granted}
      BY <1>4, <3>2
    <3>3. CASE s \in When(prune, {CosmicPruneStep})
      BY <1>5, <3>3 DEF When
    <3>4. CASE s \in blocked
      BY <1>6, <3>4
    <3> QED BY <2>5, <3>1, <3>2, <3>3, <3>4
  <2>7. packages \in DesktopSteps(o) /\ session \in DesktopSteps(o)
        /\ \A f \in DesktopFiles : file(f) \in DesktopSteps(o)
    BY <2>5
  <2>8. \A c \in DOMAIN GatedStep : Ready(o.policy, o.observed, c) => gated(c) \in DesktopSteps(o)
    BY <2>5
  <2>9. prune => CosmicPruneStep \in DesktopSteps(o)
    BY <2>5 DEF When
  <2>10. \A f \in DesktopFiles \cup {Session} :
            \E s \in DesktopSteps(o) : IsDesktopFile(s, f) /\ s.disp # "blocked"
    BY <1>2, <1>3, <2>7
  <2>11. \E s \in DesktopSteps(o) : IsPackages(s) /\ s.disp # "blocked"
    BY <1>1, <2>7
  <2>12. \A c \in DOMAIN GatedStep : Ready(o.policy, o.observed, c) =>
            \E s \in DesktopSteps(o) : IsGated(s, c) /\ s.disp # "blocked"
    BY <1>4, <2>8
  <2>13. prune => \E s \in DesktopSteps(o) : IsPrune(s) /\ s.disp # "blocked"
    BY <1>5, <2>9
  <2> QED BY <1>8, <2>6, <2>10, <2>11, <2>12, <2>13
<1> QED BY <1>7, <1>8

\* What the desktop's steps want is clear, and its packages are marked.
LEMMA DesktopNames ==
    /\ \A f \in DesktopFiles \cup {Session} : f \notin {Custom, "bootstrap.zsh"}
    /\ \A o : \A f \in DesktopWants \cup {Explicit(p) : p \in DesktopPackages} :
          /\ Clear(o, f) /\ f # Pkg("paru") /\ f[1] # "stock"
          /\ \A p : f = Pkg(p) => Explicit(p) \in {Explicit(q) : q \in DesktopPackages}
<1>1. \A f \in DesktopFiles \cup {Session} : f \notin {Custom, "bootstrap.zsh"}
  <2>1. WorkstationFiles.niri # Custom /\ WorkstationFiles.noctalia # Custom
        /\ WorkstationFiles.hyprwhspr # Custom /\ Session # Custom /\ \A f \in PolkitFiles : f # Custom
    BY DEF WorkstationFiles, Custom, Session, PolkitFiles
  <2>2. DOMAIN WorkstationFiles = {"niri", "noctalia", "hyprwhspr"}
    BY DEF WorkstationFiles
  <2> QED BY <2>1, <2>2, ZshIsApart DEF DesktopFiles
<1>2. ASSUME NEW o, NEW p \in DesktopPackages
      PROVE  Clear(o, Pkg(p)) /\ Clear(o, Explicit(p)) /\ Pkg(p) # Pkg("paru")
  <2>1. p \notin Unwanted /\ p # "paru"
    BY ConvergeAssumption
  <2> QED BY <2>1, WhatIsClear, FactsDiffer
<1> QED BY <1>1, <1>2, FactsDiffer DEF DesktopWants

\* Each step of desktop is tidy.
LEMMA DesktopIsTidy ==
    ASSUME NEW o, Desktop(o.policy, o.observed, o.facts).valid
    PROVE  \A s \in DesktopSteps(o) : Tidy(o, s)
<1> SUFFICES ASSUME NEW s \in DesktopSteps(o) PROVE Tidy(o, s)
  OBVIOUS
<1>1. IsWorkstation(o)
  BY DesktopStepsAre
<1>2. \A f \in DesktopFiles \cup {Session} : Plain(o, File(f)) /\ Clear(o, File(f))
  BY DesktopNames, WhatIsClear, FactsDiffer DEF Plain
<1>3. CASE IsPackages(s)
  BY <1>3, DesktopNames, PlainIsTidy DEF IsPackages
<1>4. CASE \E f \in DesktopFiles \cup {Session} : IsDesktopFile(s, f)
  <2>1. PICK f \in DesktopFiles \cup {Session} : IsDesktopFile(s, f)
    BY <1>4
  <2>2. \A g \in {File(f)} : Plain(o, g)
    BY <1>2
  <2> QED BY <2>1, <2>2, RequestIsTidy DEF IsDesktopFile
<1>5. CASE \E c \in DOMAIN GatedStep : IsGated(s, c)
  <2>1. PICK c \in DOMAIN GatedStep : IsGated(s, c)
    BY <1>5
  <2>2. \A g \in {HostValues(c)} : Plain(o, g)
    BY WhatIsClear, FactsDiffer DEF Plain
  <2> QED BY <2>1, <2>2, RequestIsTidy DEF IsGated
<1>6. CASE IsPrune(s)
  <2>1. \A f \in {Legacy} : Against(o, f)
    BY DEF Against
  <2>2. \A f \in DesktopWants \cup {File(Session)} : Clear(o, f)
    BY <1>2, DesktopNames
  <2> QED BY <1>6, <2>1, <2>2, PlainIsTidy DEF IsPrune
<1> QED BY <1>1, <1>3, <1>4, <1>5, <1>6, DesktopStepsAre, NothingIsTidy

\* Each step of desktop finds what it asks for.
LEMMA DesktopSupplies ==
    ASSUME NEW o, Desktop(o.policy, o.observed, o.facts).valid, NEW at, Follows(at, DesktopSteps(o))
    PROVE  Supplies(at, DesktopSteps(o), o.facts)
<1> SUFFICES ASSUME NEW s \in DesktopSteps(o), s.disp # "blocked", NEW f \in Asked(s)
             PROVE  Supplied(at, DesktopSteps(o), s, f, o.facts)
  BY DEF Supplies
<1>1. IsWorkstation(o)
  BY DesktopStepsAre
<1>2. IsPrune(s)
  <2>1. CASE IsPackages(s)
    BY <2>1 DEF IsPackages, Is, Asked, Verifies
  <2>2. CASE \E n \in DesktopFiles \cup {Session} : IsDesktopFile(s, n)
    BY <2>2 DEF IsDesktopFile, Is, Asked, Verifies
  <2>3. CASE \E c \in DOMAIN GatedStep : IsGated(s, c)
    BY <2>3 DEF IsGated, Is, Asked, Verifies
  <2> QED BY <1>1, <2>1, <2>2, <2>3, DesktopStepsAre
<1>3. PICK session \in DesktopSteps(o) : IsDesktopFile(session, Session) /\ session.disp # "blocked"
  BY <1>1, DesktopStepsAre
<1>4. PICK packages \in DesktopSteps(o) : IsPackages(packages) /\ packages.disp # "blocked"
  BY <1>1, DesktopStepsAre
<1>5. f \in DesktopWants \cup {File(Session)} /\ session.id \in s.deps
  BY <1>2, <1>3 DEF IsPrune, IsDesktopFile, Is, Asked, Verifies
<1>6. packages.id \in session.deps /\ packages.want = DesktopWants /\ session.want = {File(Session)}
  BY <1>3, <1>4 DEF IsPackages, IsDesktopFile, Is
<1>7. at[session.id] < at[s.id] /\ at[packages.id] < at[s.id]
  <2>1. at[session.id] < at[s.id] /\ at[packages.id] < at[session.id]
    BY <1>5, <1>6 DEF Follows
  <2>2. at[session.id] \in Nat /\ at[s.id] \in Nat /\ at[packages.id] \in Nat
    BY DEF Follows
  <2> QED BY <2>1, <2>2
<1> QED BY <1>3, <1>4, <1>5, <1>6, <1>7 DEF Supplied

\* A complete run settles desktop.
LEMMA DesktopSettles ==
    ASSUME NEW o, Desktop(o.policy, o.observed, o.facts).valid, NEW after,
           Finished(o, DesktopSteps(o), after)
    PROVE  DesktopSettled(Then(o, after))
<1>1. /\ IsWorkstation(Then(o, after)) <=> IsWorkstation(o)
      /\ Then(o, after).policy = o.policy /\ Then(o, after).observed = o.observed
      /\ Then(o, after).facts = after
  BY DEF IsWorkstation, Then, Inputs
<1> SUFFICES ASSUME IsWorkstation(o)
             PROVE  /\ DesktopWants \subseteq after
                    /\ \A f \in DesktopFiles \cup {Session} : File(f) \in after
                    /\ \A c \in DOMAIN GatedStep : Ready(o.policy, o.observed, c) => HostValues(c) \in after
                    /\ Ready(o.policy, o.observed, "cosmicPrune") => Legacy \notin after
  BY <1>1 DEF DesktopSettled
<1>2. \A s \in DesktopSteps(o) : s.disp # "blocked" =>
         /\ \A f \in s.want : f[1] \notin {"boot", "file"} => f \in after
         /\ \A id : id # "bootstrap.zsh" /\ File(id) \in s.want => File(id) \in after
  BY WantedIsThere, ZshIsApart, FactsDiffer
<1>3. DesktopWants \subseteq after
  <2>1. PICK s \in DesktopSteps(o) : IsPackages(s) /\ s.disp # "blocked"
    BY DesktopStepsAre
  <2>2. \A f \in DesktopWants : f[1] = "package"
    BY FactsDiffer DEF DesktopWants
  <2> QED BY <1>2, <2>1, <2>2 DEF IsPackages, Is
<1>4. ASSUME NEW f \in DesktopFiles \cup {Session} PROVE File(f) \in after
  <2>1. PICK s \in DesktopSteps(o) : IsDesktopFile(s, f) /\ s.disp # "blocked"
    BY DesktopStepsAre
  <2>2. f # "bootstrap.zsh"
    BY DesktopNames
  <2> QED BY <1>2, <2>1, <2>2 DEF IsDesktopFile, Is
<1>5. ASSUME NEW c \in DOMAIN GatedStep, Ready(o.policy, o.observed, c) PROVE HostValues(c) \in after
  <2>1. PICK s \in DesktopSteps(o) : IsGated(s, c) /\ s.disp # "blocked"
    BY <1>5, DesktopStepsAre
  <2> QED BY <1>2, <2>1, FactsDiffer DEF IsGated, Is
<1>6. ASSUME Ready(o.policy, o.observed, "cosmicPrune") PROVE Legacy \notin after
  <2>1. PICK s \in DesktopSteps(o) : IsPrune(s) /\ s.disp # "blocked"
    BY <1>6, DesktopStepsAre
  <2> QED BY <2>1 DEF IsPrune, Is, Finished, Achieved
<1> QED BY <1>3, <1>4, <1>5, <1>6

\* Where desktop is settled its steps are done.
LEMMA DesktopRests ==
    ASSUME NEW o, Desktop(o.policy, o.observed, o.facts).valid, DesktopSettled(o)
    PROVE  AtRest(o, DesktopSteps(o))
<1> SUFFICES ASSUME NEW s \in DesktopSteps(o), s.disp # "blocked" PROVE Done(s, o.facts)
  BY DEF AtRest
<1>1. IsWorkstation(o)
  BY DesktopStepsAre
<1>2. /\ DesktopWants \subseteq o.facts /\ \A f \in DesktopFiles \cup {Session} : File(f) \in o.facts
      /\ \A c \in DOMAIN GatedStep : Ready(o.policy, o.observed, c) => HostValues(c) \in o.facts
      /\ Ready(o.policy, o.observed, "cosmicPrune") => Legacy \notin o.facts
  BY <1>1 DEF DesktopSettled
<1>3. CASE IsPackages(s)
  BY <1>2, <1>3 DEF Done, IsPackages, Is
<1>4. CASE \E f \in DesktopFiles \cup {Session} : IsDesktopFile(s, f)
  BY <1>2, <1>4 DEF Done, IsDesktopFile, Is
<1>5. CASE \E c \in DOMAIN GatedStep : Ready(o.policy, o.observed, c) /\ IsGated(s, c)
  BY <1>2, <1>5 DEF Done, IsGated, Is
<1>6. CASE Ready(o.policy, o.observed, "cosmicPrune") /\ IsPrune(s)
  BY <1>2, <1>6 DEF Done, IsPrune, Is
<1> QED BY <1>1, <1>3, <1>4, <1>5, <1>6, DesktopStepsAre

-------------------------------------------------------------------------------
(* Vicinae *)

VicinaeSteps(o) == Vicinae(o.policy, o.observed, o.facts).steps
Launches(o) == ModuleEnabled(o.policy, "vicinae")
Chosen(o) == Override(CHOOSE v \in StockVersions(o.facts) : TRUE)

VicinaeSettled(o) ==
    Launches(o) =>
        IF o.observed.remove
        THEN /\ Service("vicinae") \notin o.facts /\ File(Custom) \notin o.facts
             /\ \A f \in Overrides : f \notin o.facts
        ELSE /\ Pkg(VicinaePackage) \in o.facts /\ Service("vicinae") \in o.facts
             /\ \A f \in {Environment, Custom} : File(f) \in o.facts
             /\ StockVersions(o.facts) # {} =>
                   Chosen(o) \in o.facts /\ \A f \in Overrides \ {Chosen(o)} : f \notin o.facts

\* A step that only takes something away.
IsDropped(s, drop) == Is(s, s.id, {}, {}, drop, {}, {})
IsKept(s) == Is(s, Install, {}, {Pkg(VicinaePackage)}, {}, {}, {Pkg(VicinaePackage)})
IsVicinaeFile(s, f) == Is(s, f, {Install}, {File(f)}, {}, {}, {File(f)})
IsActions(s, o) == Is(s, Actions, {Install}, {Chosen(o)}, Overrides \ {Chosen(o)}, {}, {Chosen(o)})
IsLaunch(s) ==
    Is(s, "vicinae.service.enable", {Install}, {Service("vicinae")}, {}, {Pkg(VicinaePackage)},
       {Service("vicinae")})

\* The steps that remove Vicinae, one by one,
LEMMA RemovalStepsAre ==
    ASSUME NEW facts
    PROVE  /\ \A s \in RemovalSteps(facts) :
                 /\ s.disp # "blocked"
                 /\ \/ IsNothing(s) \/ IsDropped(s, {Service("vicinae")})
                    \/ IsDropped(s, {File(Custom)}) \/ IsDropped(s, Overrides)
           /\ \E s \in RemovalSteps(facts) : IsDropped(s, {Service("vicinae")}) /\ s.disp # "blocked"
           /\ \E s \in RemovalSteps(facts) : IsDropped(s, {File(Custom)}) /\ s.disp # "blocked"
           /\ (\E f \in Overrides : f \in facts) =>
                 \E s \in RemovalSteps(facts) : IsDropped(s, Overrides) /\ s.disp # "blocked"
<1> DEFINE stop == Step(Disable, "vicinae", {Install, Environment},
                        ConvergedDisposition(Service("vicinae") \notin facts), {}, {Service("vicinae")})
           disable == [stop EXCEPT !.inverse = TRUE]
<1>1. \A id, deps : IsNothing(Retained(id, deps)) /\ Retained(id, deps).disp # "blocked"
  BY DEF Retained, IsNothing, Step
<1>2. IsDropped(disable, {Service("vicinae")}) /\ disable.disp # "blocked"
  <2>1. /\ disable.want = {} /\ disable.drop = {Service("vicinae")} /\ disable.need = {}
        /\ disable.gives = {} /\ disable.disp # "blocked" /\ disable.loses = {}
    BY DEF Step, ConvergedDisposition
  <2> HIDE DEF disable
  <2> QED BY <2>1 DEF IsDropped, Is
<1>3. ASSUME NEW id, NEW contents
      PROVE  IsDropped(RemovedFile(id, contents, facts), contents)
             /\ RemovedFile(id, contents, facts).disp # "blocked"
  <2> DEFINE r == RemovedFile(id, contents, facts)
  <2>1. /\ r.want = {} /\ r.drop = contents /\ r.need = {} /\ r.gives = {} /\ r.disp # "blocked"
        /\ r.loses = {}
    BY DEF RemovedFile, Step
  <2> HIDE DEF r
  <2>2. IsDropped(r, contents) /\ r.disp # "blocked"
    BY <2>1 DEF IsDropped, Is
  <2> QED BY <2>2 DEF r
<1>4. RemovalSteps(facts) =
         {Retained(Install, {}), Retained(Environment, {Install}), disable,
          RemovedFile(Custom, {File(Custom)}, facts)}
         \cup When(StockVersions(facts) # {} \/ Overrides \cap facts # {},
                   {RemovedFile(Actions, Overrides, facts)})
  BY DEF RemovalSteps
<1> HIDE DEF disable
<1>5. ASSUME NEW s \in RemovalSteps(facts)
      PROVE  /\ s.disp # "blocked"
             /\ \/ IsNothing(s) \/ IsDropped(s, {Service("vicinae")})
                \/ IsDropped(s, {File(Custom)}) \/ IsDropped(s, Overrides)
  BY <1>1, <1>2, <1>3, <1>4 DEF When
<1>6. /\ disable \in RemovalSteps(facts) /\ RemovedFile(Custom, {File(Custom)}, facts) \in RemovalSteps(facts)
      /\ (\E f \in Overrides : f \in facts) => RemovedFile(Actions, Overrides, facts) \in RemovalSteps(facts)
  BY <1>4 DEF When
<1> QED BY <1>2, <1>3, <1>5, <1>6

\* and those that install it.
LEMMA InstallStepsAre ==
    ASSUME NEW o
    PROVE  LET steps == InstallSteps(o.policy, o.facts)
               pin   == AURPin(o.policy, VicinaePackage)
           IN  /\ \A s \in steps :
                     /\ s.disp # "blocked"
                     /\ \/ Pkg(VicinaePackage) \in o.facts /\ IsKept(s)
                        \/ /\ Pkg(VicinaePackage) \notin o.facts
                           /\ IsSource(s, "vicinae.package", VicinaePackage, pin)
                        \/ \E f \in {Environment, Custom} : IsVicinaeFile(s, f)
                        \/ StockVersions(o.facts) # {} /\ IsActions(s, o)
                        \/ IsLaunch(s)
               /\ Pkg(VicinaePackage) \in o.facts => \E s \in steps : IsKept(s) /\ s.disp # "blocked"
               /\ Pkg(VicinaePackage) \notin o.facts =>
                     HasSource(steps, "vicinae.package", VicinaePackage, pin)
               /\ \A f \in {Environment, Custom} :
                     \E s \in steps : IsVicinaeFile(s, f) /\ s.disp # "blocked"
               /\ StockVersions(o.facts) # {} => \E s \in steps : IsActions(s, o) /\ s.disp # "blocked"
               /\ \E s \in steps : IsLaunch(s) /\ s.disp # "blocked"
<1> DEFINE steps == InstallSteps(o.policy, o.facts)
           pin == AURPin(o.policy, VicinaePackage)
           atPin == Tree(VicinaePackage, pin.sourceCommit) \in o.facts
           patched == atPin /\ Patch(VicinaePackage, pin.patchSHA256) \in o.facts
           there == Step(Install, "vicinae", {}, "satisfied", {Pkg(VicinaePackage)}, {})
           kept == [there EXCEPT !.inverse = TRUE]
           sources == SourceSteps("vicinae.package", "vicinae", VicinaePackage, pin, {},
                                  ConvergedDisposition(atPin), ConvergedDisposition(patched))
           file(f) == VicinaeFileStep(f, {File(f)}, {}, o.facts)
           actions == VicinaeFileStep(Actions, {Chosen(o)}, Overrides \ {Chosen(o)}, o.facts)
           files == {file(f) : f \in {Environment, Custom}} \cup When(StockVersions(o.facts) # {}, {actions})
           launch == ModuleRequestStep("vicinae.service.enable", "vicinae", {Install} \cup IDs(files),
                                       {Service("vicinae")}, {Pkg(VicinaePackage)}, o.facts)
<1>1. IsKept(kept) /\ kept.disp # "blocked"
  <2>1. /\ kept.id = Install /\ kept.deps = {} /\ kept.want = {Pkg(VicinaePackage)} /\ kept.drop = {}
        /\ kept.need = {} /\ kept.gives = {Pkg(VicinaePackage)} /\ kept.disp = "satisfied"
        /\ kept.loses = {}
    BY DEF Step
  <2> HIDE DEF kept
  <2> QED BY <2>1 DEF IsKept, Is
<1>2. /\ \A s \in sources : IsSource(s, "vicinae.package", VicinaePackage, pin) /\ s.disp # "blocked"
      /\ HasSource(sources, "vicinae.package", VicinaePackage, pin)
  <2>1. \A b : ConvergedDisposition(b) # "blocked"
    BY DEF ConvergedDisposition
  <2> QED BY <2>1, SourceStepsAre
<1>3. ASSUME NEW id, NEW want, NEW others
      PROVE  LET s == VicinaeFileStep(id, want, others, o.facts)
             IN  Is(s, id, {Install}, want, others, {}, want) /\ s.disp # "blocked"
  <2> DEFINE m == ModuleRequestStep(id, "vicinae", {Install}, want, {}, o.facts)
             s == [m EXCEPT !.drop = others]
  <2>1. Is(m, id, {Install}, want, {}, {}, want) /\ m.disp # "blocked"
    BY StepIs
  <2>2. "drop" \in DOMAIN m
    BY DEF ModuleRequestStep, Step
  <2>3. VicinaeFileStep(id, want, others, o.facts) = s
    BY DEF VicinaeFileStep
  <2> HIDE DEF m
  <2>4. Is(s, id, {Install}, want, others, {}, want) /\ s.disp # "blocked"
    BY <2>1, <2>2 DEF Is
  <2> QED BY <2>3, <2>4
<1>4. ASSUME NEW f PROVE IsVicinaeFile(file(f), f) /\ file(f).disp # "blocked"
  BY <1>3 DEF IsVicinaeFile
<1>5. IsActions(actions, o) /\ actions.disp # "blocked"
  BY <1>3 DEF IsActions
<1> HIDE DEF file, actions
<1>6. IsLaunch(launch) /\ launch.disp # "blocked"
  <2> HIDE DEF files
  <2>1. Is(launch, "vicinae.service.enable", {Install} \cup IDs(files), {Service("vicinae")}, {},
           {Pkg(VicinaePackage)}, {Service("vicinae")}) /\ launch.disp # "blocked"
    BY StepIs
  <2> HIDE DEF launch
  <2> QED BY <2>1 DEF IsLaunch, Is
<1>7. steps = VicinaePackageSteps(o.policy, o.facts) \cup files \cup {launch}
  BY DEF InstallSteps, Chosen, file, actions
<1>8. VicinaePackageSteps(o.policy, o.facts) = IF Pkg(VicinaePackage) \in o.facts THEN {kept} ELSE sources
  BY DEF VicinaePackageSteps
<1> HIDE DEF steps, kept, sources, launch, pin
<1>9. ASSUME NEW s \in steps
      PROVE  /\ s.disp # "blocked"
             /\ \/ Pkg(VicinaePackage) \in o.facts /\ IsKept(s)
                \/ /\ Pkg(VicinaePackage) \notin o.facts
                   /\ IsSource(s, "vicinae.package", VicinaePackage, pin)
                \/ \E f \in {Environment, Custom} : IsVicinaeFile(s, f)
                \/ StockVersions(o.facts) # {} /\ IsActions(s, o)
                \/ IsLaunch(s)
  <2>1. CASE s \in VicinaePackageSteps(o.policy, o.facts)
    BY <1>1, <1>2, <1>8, <2>1
  <2>2. CASE s \in {file(f) : f \in {Environment, Custom}}
    BY <1>4, <2>2
  <2>3. CASE s \in When(StockVersions(o.facts) # {}, {actions})
    BY <1>5, <2>3 DEF When
  <2>4. CASE s = launch
    BY <1>6, <2>4
  <2> QED BY <1>7, <2>1, <2>2, <2>3, <2>4
<1>10. ASSUME Pkg(VicinaePackage) \notin o.facts
       PROVE  HasSource(steps, "vicinae.package", VicinaePackage, pin)
  <2>1. \A s \in sources : s \in steps
    BY <1>7, <1>8, <1>10
  <2> QED BY <1>2, <2>1 DEF HasSource
<1>11. Pkg(VicinaePackage) \in o.facts => \E s \in steps : IsKept(s) /\ s.disp # "blocked"
  BY <1>1, <1>7, <1>8
<1>12. \A f \in {Environment, Custom} : \E s \in steps : IsVicinaeFile(s, f) /\ s.disp # "blocked"
  <2>1. \A f \in {Environment, Custom} : file(f) \in steps
    BY <1>7
  <2> QED BY <1>4, <2>1
<1>13. StockVersions(o.facts) # {} => \E s \in steps : IsActions(s, o) /\ s.disp # "blocked"
  BY <1>5, <1>7 DEF When
<1>14. \E s \in steps : IsLaunch(s) /\ s.disp # "blocked"
  BY <1>6, <1>7
<1> QED BY <1>9, <1>10, <1>11, <1>12, <1>13, <1>14 DEF steps, pin

\* What the module is when its factory did not refuse.
LEMMA VicinaeIs ==
    ASSUME NEW o, Vicinae(o.policy, o.observed, o.facts).valid
    PROVE  /\ ~Launches(o) => VicinaeSteps(o) = {}
           /\ Launches(o) /\ o.observed.remove => VicinaeSteps(o) = RemovalSteps(o.facts)
           /\ Launches(o) /\ ~o.observed.remove =>
                /\ VicinaeSteps(o) = InstallSteps(o.policy, o.facts)
                /\ ValidateAURLocalPin(AURPin(o.policy, VicinaePackage))
<1> DEFINE removal == RemovalSteps(o.facts)
           install == InstallSteps(o.policy, o.facts)
           valid == /\ o.observed.remove \/ ResolveVicinaePin(o.policy)
                    /\ "vicinae service" \notin o.observed.faulty
                    /\ NormalizeVicinaeFileObservation(o.observed,
                          {Environment, Custom}
                          \cup When(StockVersions(o.facts) # {} \/ o.observed.remove, {Actions}))
                    /\ \A v \in StockVersions(o.facts) : RewriteCosmicSystemActions(StockContent[v])
<1>1. Vicinae(o.policy, o.observed, o.facts) =
        IF ~Launches(o) THEN Valid({})
        ELSE IF ~valid THEN Invalid ELSE Valid(IF o.observed.remove THEN removal ELSE install)
  BY DEF Vicinae, Launches
<1>2. valid => o.observed.remove \/ ResolveVicinaePin(o.policy)
  OBVIOUS
<1> HIDE DEF removal, install, valid
<1> QED BY <1>1, <1>2 DEF VicinaeSteps, Valid, Invalid, ResolveVicinaePin, removal, install

\* Each step of vicinae is tidy.
LEMMA VicinaeIsTidy ==
    ASSUME NEW o, Vicinae(o.policy, o.observed, o.facts).valid
    PROVE  \A s \in VicinaeSteps(o) : Tidy(o, s)
<1> SUFFICES ASSUME NEW s \in VicinaeSteps(o) PROVE Tidy(o, s)
  OBVIOUS
<1>1. Launches(o)
  BY VicinaeIs
<1>2. VicinaePackage \notin Unwanted \cup {"paru"}
  BY ConvergeAssumption
<1>3. CASE o.observed.remove
  <2>1. /\ Against(o, Service("vicinae")) /\ Against(o, File(Custom))
        /\ \A f \in Overrides : Against(o, f)
    BY <1>3, OverridesAgainst DEF Against, Overrides
  <2>2. ASSUME NEW drop, IsDropped(s, drop), \A f \in drop : Against(o, f) PROVE Tidy(o, s)
    BY <2>2, PlainIsTidy DEF IsDropped
  <2>3. s \in RemovalSteps(o.facts)
    BY <1>1, <1>3, VicinaeIs
  <2>4. \/ IsNothing(s) \/ IsDropped(s, {Service("vicinae")})
        \/ IsDropped(s, {File(Custom)}) \/ IsDropped(s, Overrides)
    BY <2>3, RemovalStepsAre
  <2>5. CASE IsNothing(s)
    BY <2>5, NothingIsTidy
  <2>6. CASE IsDropped(s, {Service("vicinae")})
    BY <2>1, <2>2, <2>6
  <2>7. CASE IsDropped(s, {File(Custom)})
    BY <2>1, <2>2, <2>7
  <2>8. CASE IsDropped(s, Overrides)
    BY <2>1, <2>2, <2>8
  <2> QED BY <2>4, <2>5, <2>6, <2>7, <2>8
<1>4. CASE ~o.observed.remove
  <2> DEFINE pin == AURPin(o.policy, VicinaePackage)
  <2>1. s \in InstallSteps(o.policy, o.facts) /\ ValidateAURLocalPin(pin)
    BY <1>1, <1>4, VicinaeIs
  <2>2. \/ Pkg(VicinaePackage) \in o.facts /\ IsKept(s)
        \/ IsSource(s, "vicinae.package", VicinaePackage, pin)
        \/ \E f \in {Environment, Custom} : IsVicinaeFile(s, f)
        \/ StockVersions(o.facts) # {} /\ IsActions(s, o)
        \/ IsLaunch(s)
    BY <2>1, InstallStepsAre
  <2>3. CASE Pkg(VicinaePackage) \in o.facts /\ IsKept(s)
    <3>1. \A f \in {Pkg(VicinaePackage)} :
             /\ Clear(o, f) /\ f # Pkg("paru") /\ f[1] # "stock" /\ f \in o.facts
      BY <1>2, <2>3, WhatIsClear, FactsDiffer
    <3> QED BY <2>3, <3>1, PlainIsTidy DEF IsKept
  <2>4. CASE IsSource(s, "vicinae.package", VicinaePackage, pin)
    BY <1>2, <2>1, <2>4, SourceIsTidy
  <2>5. CASE \E f \in {Environment, Custom} : IsVicinaeFile(s, f)
    <3>1. PICK f \in {Environment, Custom} : IsVicinaeFile(s, f)
      BY <2>5
    <3>2. \A g \in {File(f)} : Plain(o, g)
      BY <1>4, WhatIsClear, ZshIsApart, FactsDiffer DEF Plain
    <3> QED BY <3>1, <3>2, RequestIsTidy DEF IsVicinaeFile
  <2>6. CASE IsActions(s, o)
    <3>1. ASSUME NEW f \in Overrides \ {Chosen(o)} PROVE Against(o, f)
      BY <1>4, OverridesAgainst DEF Overrides, Chosen
    <3>2. \A f \in {Chosen(o)} : /\ Clear(o, f) /\ f # Pkg("paru") /\ f[1] # "stock" /\ \A p : f # Pkg(p)
      <4>1. Clear(o, Chosen(o))
        BY <1>4, OverridesAgainst DEF Chosen
      <4>2. Chosen(o)[1] = "override"
        BY FactsDiffer DEF Chosen
      <4> QED BY <4>1, <4>2, FactsDiffer
    <3> QED BY <2>6, <3>1, <3>2, PlainIsTidy DEF IsActions
  <2>7. CASE IsLaunch(s)
    <3>1. \A f \in {Service("vicinae")} : Plain(o, f)
      BY <1>4, WhatIsClear, FactsDiffer DEF Plain
    <3>2. \A f \in {Pkg(VicinaePackage)} : Clear(o, f)
      BY <1>2, WhatIsClear
    <3> QED BY <2>7, <3>1, <3>2, RequestIsTidy DEF IsLaunch
  <2> QED BY <2>2, <2>3, <2>4, <2>5, <2>6, <2>7
<1> QED BY <1>3, <1>4

\* Each step of vicinae finds what it asks for.
LEMMA VicinaeSupplies ==
    ASSUME NEW o, Vicinae(o.policy, o.observed, o.facts).valid, NEW at, Follows(at, VicinaeSteps(o))
    PROVE  Supplies(at, VicinaeSteps(o), o.facts)
<1> SUFFICES ASSUME NEW s \in VicinaeSteps(o), s.disp # "blocked", NEW f \in Asked(s)
             PROVE  f = Pkg("paru") \/ Supplied(at, VicinaeSteps(o), s, f, o.facts)
  BY DEF Supplies
<1> DEFINE pin == AURPin(o.policy, VicinaePackage)
<1>1. Launches(o)
  BY VicinaeIs
<1>2. ~o.observed.remove
  <2>1. SUFFICES ASSUME o.observed.remove PROVE FALSE
    OBVIOUS
  <2>2. \/ IsNothing(s) \/ IsDropped(s, {Service("vicinae")})
        \/ IsDropped(s, {File(Custom)}) \/ IsDropped(s, Overrides)
    BY <1>1, <2>1, VicinaeIs, RemovalStepsAre
  <2> QED BY <2>2 DEF IsNothing, IsDropped, Is, Asked, Verifies
<1>3. VicinaeSteps(o) = InstallSteps(o.policy, o.facts)
  BY <1>1, <1>2, VicinaeIs
<1>4. \/ Pkg(VicinaePackage) \in o.facts /\ IsKept(s)
      \/ /\ Pkg(VicinaePackage) \notin o.facts
         /\ IsSource(s, "vicinae.package", VicinaePackage, pin)
      \/ \E n \in {Environment, Custom} : IsVicinaeFile(s, n)
      \/ StockVersions(o.facts) # {} /\ IsActions(s, o)
      \/ IsLaunch(s)
  BY <1>3, InstallStepsAre
<1>5. CASE IsKept(s) \/ (\E n \in {Environment, Custom} : IsVicinaeFile(s, n)) \/ IsActions(s, o)
  BY <1>5 DEF IsKept, IsVicinaeFile, IsActions, Is, Asked, Verifies
<1>6. CASE Pkg(VicinaePackage) \notin o.facts /\ IsSource(s, "vicinae.package", VicinaePackage, pin)
  <2>1. HasSource(VicinaeSteps(o), "vicinae.package", VicinaePackage, pin)
    BY <1>3, <1>6, InstallStepsAre
  <2> QED BY <1>6, <2>1, SourceSupplies
<1>7. CASE IsLaunch(s)
  <2>1. f = Pkg(VicinaePackage) /\ Install \in s.deps
    BY <1>7 DEF IsLaunch, Is, Asked, Verifies
  <2>2. CASE Pkg(VicinaePackage) \in o.facts
    BY <2>1, <2>2 DEF Supplied
  <2>3. CASE Pkg(VicinaePackage) \notin o.facts
    <3>1. PICK t \in VicinaeSteps(o) :
             IsInstall(t, "vicinae.package", VicinaePackage, pin) /\ t.disp # "blocked"
      BY <1>3, <2>3, InstallStepsAre DEF HasSource
    <3>2. t.id \in s.deps /\ f \in t.want
      BY <2>1, <3>1 DEF IsInstall, Is, Install
    <3> QED BY <3>1, <3>2 DEF Follows, Supplied
  <2> QED BY <2>2, <2>3
<1> QED BY <1>4, <1>5, <1>6, <1>7

\* No step changes the stock version of Vicinae.
LEMMA StockStays ==
    ASSUME NEW o, NEW steps, NEW after, Finished(o, steps, after)
    PROVE  StockVersions(after) = StockVersions(o.facts)
<1>1. \A v : Stock(v)[1] = "stock" /\ Clear(o, Stock(v))
  BY WhatIsClear, FactsDiffer
<1>2. \A v : Stock(v) \in after <=> Stock(v) \in o.facts
  BY <1>1 DEF Finished
<1> QED BY <1>2 DEF StockVersions

\* A complete run settles vicinae.
LEMMA VicinaeSettles ==
    ASSUME NEW o, Vicinae(o.policy, o.observed, o.facts).valid, NEW after,
           Finished(o, VicinaeSteps(o), after)
    PROVE  VicinaeSettled(Then(o, after))
<1> DEFINE pin == AURPin(o.policy, VicinaePackage)
<1>1. /\ Then(o, after).policy = o.policy /\ Then(o, after).observed = o.observed
      /\ Then(o, after).facts = after
  BY DEF Then, Inputs
<1>2. StockVersions(after) = StockVersions(o.facts)
  BY StockStays
<1>3. (Launches(Then(o, after)) <=> Launches(o)) /\ Chosen(Then(o, after)) = Chosen(o)
  BY <1>1, <1>2 DEF Launches, Chosen
<1>4. \A s \in VicinaeSteps(o) : s.disp # "blocked" =>
         /\ \A f \in s.want : f[1] \notin {"boot", "file"} => f \in after
         /\ \A id : id # "bootstrap.zsh" /\ File(id) \in s.want => File(id) \in after
  BY WantedIsThere, ZshIsApart, FactsDiffer
<1>5. \A s \in VicinaeSteps(o) : s.disp # "blocked" => \A f \in s.drop : f \notin after
  BY DEF Finished, Achieved
<1>6. ASSUME Launches(o), o.observed.remove
      PROVE  /\ Service("vicinae") \notin after /\ File(Custom) \notin after
             /\ \A f \in Overrides : f \notin after
  <2>1. VicinaeSteps(o) = RemovalSteps(o.facts)
    BY <1>6, VicinaeIs
  <2>2. ASSUME NEW drop, \E s \in RemovalSteps(o.facts) : IsDropped(s, drop) /\ s.disp # "blocked"
        PROVE  \A f \in drop : f \notin after
    BY <1>5, <2>1, <2>2 DEF IsDropped, Is
  <2>3. Service("vicinae") \notin after /\ File(Custom) \notin after
    BY <2>2, RemovalStepsAre
  <2>4. ASSUME NEW f \in Overrides PROVE f \notin after
    <3>1. Against(o, f)
      BY <1>6, OverridesAgainst DEF Overrides
    <3>2. CASE f \in o.facts
      BY <2>2, <3>2, RemovalStepsAre
    <3>3. CASE f \notin o.facts
      BY <3>1, <3>3 DEF Finished
    <3> QED BY <3>2, <3>3
  <2> QED BY <2>3, <2>4
<1>7. ASSUME Launches(o), ~o.observed.remove
      PROVE  /\ Pkg(VicinaePackage) \in after /\ Service("vicinae") \in after
             /\ \A f \in {Environment, Custom} : File(f) \in after
             /\ StockVersions(after) # {} =>
                   Chosen(o) \in after /\ \A f \in Overrides \ {Chosen(o)} : f \notin after
  <2>1. VicinaeSteps(o) = InstallSteps(o.policy, o.facts)
    BY <1>7, VicinaeIs
  <2>2. Pkg(VicinaePackage) \in after
    <3>1. CASE Pkg(VicinaePackage) \in o.facts
      <4>1. \E s \in VicinaeSteps(o) : IsKept(s) /\ s.disp # "blocked"
        BY <2>1, <3>1, InstallStepsAre
      <4> QED BY <1>4, <4>1, FactsDiffer DEF IsKept, Is
    <3>2. CASE Pkg(VicinaePackage) \notin o.facts
      <4>1. \E s \in VicinaeSteps(o) :
               IsInstall(s, "vicinae.package", VicinaePackage, pin) /\ s.disp # "blocked"
        BY <2>1, <3>2, InstallStepsAre DEF HasSource
      <4> QED BY <1>4, <4>1, FactsDiffer DEF IsInstall, Is
    <3> QED BY <3>1, <3>2
  <2>3. Service("vicinae") \in after
    <3>1. PICK s \in VicinaeSteps(o) : IsLaunch(s) /\ s.disp # "blocked"
      BY <2>1, InstallStepsAre
    <3> QED BY <1>4, <3>1, FactsDiffer DEF IsLaunch, Is
  <2>4. ASSUME NEW f \in {Environment, Custom} PROVE File(f) \in after
    <3>1. PICK s \in VicinaeSteps(o) : IsVicinaeFile(s, f) /\ s.disp # "blocked"
      BY <2>1, InstallStepsAre
    <3>2. f # "bootstrap.zsh"
      BY ZshIsApart
    <3> QED BY <1>4, <3>1, <3>2 DEF IsVicinaeFile, Is
  <2>5. ASSUME StockVersions(after) # {}
        PROVE  Chosen(o) \in after /\ \A f \in Overrides \ {Chosen(o)} : f \notin after
    <3>1. PICK s \in VicinaeSteps(o) : IsActions(s, o) /\ s.disp # "blocked"
      BY <1>2, <2>1, <2>5, InstallStepsAre
    <3>2. Chosen(o)[1] = "override"
      BY FactsDiffer DEF Chosen
    <3>3. s.want = {Chosen(o)} /\ s.drop = Overrides \ {Chosen(o)}
      BY <3>1 DEF IsActions, Is
    <3> QED BY <1>4, <1>5, <3>1, <3>2, <3>3
  <2> QED BY <2>2, <2>3, <2>4, <2>5
<1> QED BY <1>1, <1>3, <1>6, <1>7 DEF VicinaeSettled

\* Where vicinae is settled its steps are done.
LEMMA VicinaeRests ==
    ASSUME NEW o, Vicinae(o.policy, o.observed, o.facts).valid, VicinaeSettled(o)
    PROVE  AtRest(o, VicinaeSteps(o))
<1> SUFFICES ASSUME NEW s \in VicinaeSteps(o) PROVE Done(s, o.facts)
  BY DEF AtRest
<1>1. Launches(o)
  BY VicinaeIs
<1>2. CASE o.observed.remove
  <2>1. /\ Service("vicinae") \notin o.facts /\ File(Custom) \notin o.facts
        /\ \A f \in Overrides : f \notin o.facts
    BY <1>1, <1>2 DEF VicinaeSettled
  <2>2. \/ IsNothing(s) \/ IsDropped(s, {Service("vicinae")})
        \/ IsDropped(s, {File(Custom)}) \/ IsDropped(s, Overrides)
    BY <1>1, <1>2, VicinaeIs, RemovalStepsAre
  <2> QED BY <2>1, <2>2 DEF IsNothing, IsDropped, Is, Done
<1>3. CASE ~o.observed.remove
  <2>1. /\ Pkg(VicinaePackage) \in o.facts /\ Service("vicinae") \in o.facts
        /\ \A f \in {Environment, Custom} : File(f) \in o.facts
        /\ StockVersions(o.facts) # {} =>
              Chosen(o) \in o.facts /\ \A f \in Overrides \ {Chosen(o)} : f \notin o.facts
    BY <1>1, <1>3 DEF VicinaeSettled
  <2>2. \/ IsKept(s)
        \/ \E f \in {Environment, Custom} : IsVicinaeFile(s, f)
        \/ StockVersions(o.facts) # {} /\ IsActions(s, o)
        \/ IsLaunch(s)
    BY <1>1, <1>3, <2>1, VicinaeIs, InstallStepsAre
  <2>3. CASE IsKept(s) \/ IsLaunch(s)
    BY <2>1, <2>3 DEF IsKept, IsLaunch, Is, Done
  <2>4. CASE \E f \in {Environment, Custom} : IsVicinaeFile(s, f)
    BY <2>1, <2>4 DEF IsVicinaeFile, Is, Done
  <2>5. CASE StockVersions(o.facts) # {} /\ IsActions(s, o)
    BY <2>1, <2>5 DEF IsActions, Is, Done
  <2> QED BY <2>2, <2>3, <2>4, <2>5
<1> QED BY <1>2, <1>3

-------------------------------------------------------------------------------
(* Apps *)

AppsSteps(o) == Apps(o.policy, o.observed, o.facts).steps
HasApps(o) == ModuleEnabled(o.policy, "apps")
Listed == PacmanApps \cup AURApps
Missing(o) == MissingPackages(o.facts, PacmanApps)
Unmarked(o) == {p \in Listed : Explicit(p) \notin o.facts}
AppFiles == {"apps.webapp.launcher"} \cup {Entry(a) : a \in WebApps}
TheIcon(o, a) == Icon(a, ResolveWebAppIcon(o.observed, a))
OtherIcons(o, a) == {Icon(a, i) : i \in {"declared", "favicon"} \ {ResolveWebAppIcon(o.observed, a)}}
\* The step that installs a package of the lists.
Provider(p) == IF p \in AURApps THEN AURStep(p) ELSE PacmanStep

AppsSettled(o) ==
    HasApps(o) =>
        /\ \A p \in Listed : Pkg(p) \in o.facts /\ Explicit(p) \in o.facts
        /\ Disabled("docker-desktop") \in o.facts
        /\ \A u \in DOMAIN AppServices : Service(u) \in o.facts
        /\ \A g \in DOMAIN AppGroups : Group(g) \in o.facts
        /\ \A f \in AppFiles : File(f) \in o.facts
        /\ \A a \in WebApps :
              TheIcon(o, a) \in o.facts /\ \A f \in OtherIcons(o, a) : f \notin o.facts

IsPacman(s, o) ==
    Is(s, PacmanStep, {}, {Pkg(p) : p \in Missing(o)}, {}, {},
       {Pkg(p) : p \in Missing(o)} \cup {Explicit(p) : p \in Missing(o)})
IsMarks(s, o) ==
    Is(s, "apps.packages.explicit", {Provider(p) : p \in Unmarked(o)}, {Explicit(p) : p \in Unmarked(o)},
       {}, {Pkg(p) : p \in Unmarked(o)}, {Explicit(p) : p \in Unmarked(o)})
IsThere(s, p) == Is(s, AURStep(p), {}, {Pkg(p)}, {}, {}, {Pkg(p)})
IsAppService(s, u) ==
    Is(s, ServiceStep(u), {Provider(AppServices[u])}, {Service(u)}, {}, {Pkg(AppServices[u])}, {Service(u)})
IsGroup(s, g) ==
    Is(s, "apps.group." \o g \o ".add", {ServiceStep(AppGroups[g])}, {Group(g)}, {},
       {Pkg(AppServices[AppGroups[g]])}, {Group(g)})
IsDocker(s) ==
    Is(s, "apps.service.docker-desktop.disable", {AURStep("docker-desktop")}, {Disabled("docker-desktop")},
       {}, {Pkg("docker-desktop")}, {Disabled("docker-desktop")})
IsAppFile(s, f) == Is(s, f, {PacmanStep}, {File(f)}, {}, {}, {File(f)})
IsIcon(s, o, a) ==
    Is(s, "apps.webapp." \o a \o ".icon", {PacmanStep}, {TheIcon(o, a)}, OtherIcons(o, a), {}, {TheIcon(o, a)})
IsAUR(s, o, p) ==
    \/ Pkg(p) \in o.facts /\ IsThere(s, p)
    \/ Pkg(p) \notin o.facts /\ IsSource(s, "apps.aur." \o p, p, AURPin(o.policy, p))

\* The step for pacman's packages, and the one that marks them.
LEMMA ListStepsAre ==
    ASSUME NEW o
    PROVE  LET pacman == AppsPackageStep(o.facts)
               marks  == AppsExplicitStep(o.facts)
           IN  /\ IsPacman(pacman, o) /\ pacman.disp # "blocked"
               /\ IsMarks(marks, o) /\ marks.disp # "blocked"
<1> DEFINE want == {Pkg(p) : p \in Missing(o)}
           explicits == {Explicit(p) : p \in Missing(o)}
           request == ModuleRequestStep(PacmanStep, "apps", {}, want, {}, o.facts)
           pacman == [request EXCEPT !.gives = want \cup explicits]
           deps == When(Unmarked(o) # {}, {PacmanStep} \cup {AURStep(p) : p \in AURApps})
           marked == {Explicit(p) : p \in Unmarked(o)}
           marks == ModuleRequestStep("apps.packages.explicit", "apps", deps, marked,
                                      {Pkg(p) : p \in Unmarked(o)}, o.facts)
<1>1. AppsPackageStep(o.facts) = pacman
  BY DEF AppsPackageStep, Missing
<1>2. AppsExplicitStep(o.facts) = marks
  BY DEF AppsExplicitStep, Unmarked, Listed
<1>3. IsPacman(pacman, o) /\ pacman.disp # "blocked"
  <2> HIDE DEF want, explicits
  <2>1. Is(request, PacmanStep, {}, want, {}, {}, want) /\ request.disp # "blocked"
    BY StepIs
  <2>2. "gives" \in DOMAIN request
    BY DEF ModuleRequestStep, Step
  <2> HIDE DEF request
  <2>3. Is(pacman, PacmanStep, {}, want, {}, {}, want \cup explicits) /\ pacman.disp # "blocked"
    BY <2>1, <2>2 DEF Is
  <2> HIDE DEF pacman
  <2> QED BY <2>3 DEF IsPacman, want, explicits
<1>4. IsMarks(marks, o) /\ marks.disp # "blocked"
  <2>1. {Provider(p) : p \in Unmarked(o)} \subseteq deps
    BY DEF Provider, When, Unmarked, Listed
  <2> HIDE DEF deps
  <2>2. Is(marks, "apps.packages.explicit", deps, marked, {}, {Pkg(p) : p \in Unmarked(o)}, marked)
        /\ marks.disp # "blocked"
    BY StepIs
  <2> HIDE DEF marks
  <2> QED BY <2>1, <2>2 DEF IsMarks, Is
<1> HIDE DEF pacman, marks
<1> QED BY <1>1, <1>2, <1>3, <1>4

\* The steps of services, groups and Docker Desktop.
LEMMA AppStepsAre ==
    ASSUME NEW o
    PROVE  /\ \A u : LET s == AddAppsService(o.facts, u)
                     IN  IsAppService(s, u) /\ s.disp # "blocked"
           /\ \A g : LET s == AddAppsGroup(o.facts, g)
                     IN  IsGroup(s, g) /\ s.disp # "blocked"
           /\ LET s == AddDockerDesktopDisable(o.facts)
              IN  IsDocker(s) /\ s.disp # "blocked"
           /\ \A p : LET s == AppsSatisfiedAURStep(p)
                     IN  IsThere(s, p) /\ s.disp # "blocked"
<1>1. ASSUME NEW u
      PROVE  LET s == AddAppsService(o.facts, u)
             IN  IsAppService(s, u) /\ s.disp # "blocked"
  <2> DEFINE p == AppServices[u]
             s == ModuleRequestStep(ServiceStep(u), "apps",
                    {IF p \in AURApps THEN AURStep(p) ELSE PacmanStep}, {Service(u)}, {Pkg(p)}, o.facts)
  <2>1. Is(s, ServiceStep(u), {IF p \in AURApps THEN AURStep(p) ELSE PacmanStep}, {Service(u)}, {},
           {Pkg(p)}, {Service(u)}) /\ s.disp # "blocked"
    BY StepIs
  <2>2. AddAppsService(o.facts, u) = s
    BY DEF AddAppsService
  <2> HIDE DEF s
  <2> QED BY <2>1, <2>2 DEF IsAppService, Provider
<1>2. ASSUME NEW g
      PROVE  LET s == AddAppsGroup(o.facts, g)
             IN  IsGroup(s, g) /\ s.disp # "blocked"
  BY StepIs DEF AddAppsGroup, IsGroup
<1>3. LET s == AddDockerDesktopDisable(o.facts)
      IN  IsDocker(s) /\ s.disp # "blocked"
  BY StepIs DEF AddDockerDesktopDisable, IsDocker
<1>4. ASSUME NEW p
      PROVE  LET s == AppsSatisfiedAURStep(p)
             IN  IsThere(s, p) /\ s.disp # "blocked"
  <2> DEFINE s == AppsSatisfiedAURStep(p)
  <2>1. /\ s.id = AURStep(p) /\ s.deps = {} /\ s.want = {Pkg(p)} /\ s.drop = {} /\ s.need = {}
        /\ s.gives = {Pkg(p)} /\ s.disp = "satisfied" /\ s.loses = {}
    BY DEF AppsSatisfiedAURStep, Step
  <2> HIDE DEF s
  <2>2. IsThere(s, p) /\ s.disp # "blocked"
    BY <2>1 DEF IsThere, Is
  <2> QED BY <2>2 DEF s
<1> QED BY <1>1, <1>2, <1>3, <1>4

\* The steps of a package of the AUR: one when it is installed, the pinned
\* build when not.
LEMMA AURStepsAre ==
    ASSUME NEW o, NEW p
    PROVE  LET steps == IF Pkg(p) \in o.facts THEN {AppsSatisfiedAURStep(p)}
                        ELSE AddPinnedAURInstall(o.policy, o.facts, p)
           IN  /\ \A s \in steps : IsAUR(s, o, p) /\ s.disp # "blocked"
               /\ Pkg(p) \notin o.facts => HasSource(steps, "apps.aur." \o p, p, AURPin(o.policy, p))
<1> DEFINE pin == AURPin(o.policy, p)
           atPin == Tree(p, pin.sourceCommit) \in o.facts
           patched == atPin /\ Patch(p, pin.patchSHA256) \in o.facts
           tree == ConvergedDisposition(atPin)
           patch == ConvergedDisposition(patched)
           sources == SourceSteps("apps.aur." \o p, "apps", p, pin, {}, tree, patch)
<1>1. AddPinnedAURInstall(o.policy, o.facts, p) = sources
  BY DEF AddPinnedAURInstall
<1>2. /\ \A s \in sources : IsSource(s, "apps.aur." \o p, p, pin) /\ s.disp # "blocked"
      /\ HasSource(sources, "apps.aur." \o p, p, pin)
  <2>1. tree # "blocked" /\ patch # "blocked"
    BY DEF ConvergedDisposition
  <2> HIDE DEF tree, patch, pin
  <2> QED BY <2>1, SourceStepsAre
<1> HIDE DEF sources
<1>3. CASE Pkg(p) \in o.facts
  BY <1>3, AppStepsAre DEF IsAUR
<1>4. CASE Pkg(p) \notin o.facts
  BY <1>1, <1>2, <1>4 DEF IsAUR
<1> QED BY <1>3, <1>4

\* The steps of the web applications.
LEMMA WebAppStepsAre ==
    ASSUME NEW o
    PROVE  LET steps == BuildWebAppPlan(o.observed, o.facts)
           IN  /\ \A s \in steps :
                     /\ s.disp # "blocked"
                     /\ (\E f \in AppFiles : IsAppFile(s, f)) \/ \E a \in WebApps : IsIcon(s, o, a)
               /\ \A f \in AppFiles : \E s \in steps : IsAppFile(s, f) /\ s.disp # "blocked"
               /\ \A a \in WebApps : \E s \in steps : IsIcon(s, o, a) /\ s.disp # "blocked"
<1> DEFINE steps == BuildWebAppPlan(o.observed, o.facts)
           file(f) == ManagedFileStep(f, "apps", {PacmanStep}, o.facts)
           request(a) == ModuleRequestStep("apps.webapp." \o a \o ".icon", "apps", {PacmanStep},
                                           {TheIcon(o, a)}, {}, o.facts)
           icon(a) == [request(a) EXCEPT !.drop = OtherIcons(o, a)]
<1>1. ASSUME NEW f PROVE IsAppFile(file(f), f) /\ file(f).disp # "blocked"
  BY StepIs DEF IsAppFile
<1>2. ASSUME NEW a PROVE IsIcon(icon(a), o, a) /\ icon(a).disp # "blocked"
  <2>1. Is(request(a), "apps.webapp." \o a \o ".icon", {PacmanStep}, {TheIcon(o, a)}, {}, {},
           {TheIcon(o, a)}) /\ request(a).disp # "blocked"
    BY StepIs
  <2>2. "drop" \in DOMAIN request(a)
    BY DEF ModuleRequestStep, Step
  <2> HIDE DEF request
  <2>3. Is(icon(a), "apps.webapp." \o a \o ".icon", {PacmanStep}, {TheIcon(o, a)}, OtherIcons(o, a), {},
           {TheIcon(o, a)}) /\ icon(a).disp # "blocked"
    BY <2>1, <2>2 DEF Is
  <2> QED BY <2>3 DEF IsIcon
<1>3. steps = {file("apps.webapp.launcher")} \cup {file(Entry(a)) : a \in WebApps}
              \cup {icon(a) : a \in WebApps}
  BY DEF BuildWebAppPlan, TheIcon, OtherIcons
<1> HIDE DEF steps, file, icon
<1>4. {file("apps.webapp.launcher")} \cup {file(Entry(a)) : a \in WebApps} = {file(f) : f \in AppFiles}
  BY DEF AppFiles
<1>5. steps = {file(f) : f \in AppFiles} \cup {icon(a) : a \in WebApps}
  BY <1>3, <1>4
<1>6. ASSUME NEW s \in steps
      PROVE  /\ s.disp # "blocked"
             /\ (\E f \in AppFiles : IsAppFile(s, f)) \/ \E a \in WebApps : IsIcon(s, o, a)
  BY <1>1, <1>2, <1>5
<1>7. \A f \in AppFiles : \E s \in steps : IsAppFile(s, f) /\ s.disp # "blocked"
  BY <1>1, <1>5
<1>8. \A a \in WebApps : \E s \in steps : IsIcon(s, o, a) /\ s.disp # "blocked"
  BY <1>2, <1>5
<1> QED BY <1>6, <1>7, <1>8 DEF steps

\* The steps of apps, one by one.
LEMMA AppsStepsAre ==
    ASSUME NEW o, Apps(o.policy, o.observed, o.facts).valid
    PROVE  /\ ~HasApps(o) => AppsSteps(o) = {}
           /\ HasApps(o) =>
                /\ \A p \in AURApps : ValidateAURLocalPin(AURPin(o.policy, p))
                /\ \A s \in AppsSteps(o) :
                      /\ s.disp # "blocked"
                      /\ \/ IsPacman(s, o) \/ IsMarks(s, o) \/ IsDocker(s)
                         \/ \E p \in AURApps : IsAUR(s, o, p)
                         \/ \E u \in DOMAIN AppServices : IsAppService(s, u)
                         \/ \E g \in DOMAIN AppGroups : IsGroup(s, g)
                         \/ \E f \in AppFiles : IsAppFile(s, f)
                         \/ \E a \in WebApps : IsIcon(s, o, a)
                /\ \E s \in AppsSteps(o) : IsPacman(s, o) /\ s.disp # "blocked"
                /\ \E s \in AppsSteps(o) : IsMarks(s, o) /\ s.disp # "blocked"
                /\ \E s \in AppsSteps(o) : IsDocker(s) /\ s.disp # "blocked"
                /\ \A p \in AURApps : Pkg(p) \notin o.facts =>
                      HasSource(AppsSteps(o), "apps.aur." \o p, p, AURPin(o.policy, p))
                /\ \A u \in DOMAIN AppServices :
                      \E s \in AppsSteps(o) : IsAppService(s, u) /\ s.disp # "blocked"
                /\ \A g \in DOMAIN AppGroups :
                      \E s \in AppsSteps(o) : IsGroup(s, g) /\ s.disp # "blocked"
                /\ \A f \in AppFiles : \E s \in AppsSteps(o) : IsAppFile(s, f) /\ s.disp # "blocked"
                /\ \A a \in WebApps : \E s \in AppsSteps(o) : IsIcon(s, o, a) /\ s.disp # "blocked"
<1> DEFINE lists == {AppsPackageStep(o.facts), AppsExplicitStep(o.facts), AddDockerDesktopDisable(o.facts)}
           aur(p) == IF Pkg(p) \in o.facts THEN {AppsSatisfiedAURStep(p)}
                     ELSE AddPinnedAURInstall(o.policy, o.facts, p)
           service(u) == AddAppsService(o.facts, u)
           group(g) == AddAppsGroup(o.facts, g)
           web == BuildWebAppPlan(o.observed, o.facts)
<1>1. BuildAppsRequestPlan(o.policy, o.observed, o.facts) =
         lists \cup (UNION {aur(p) : p \in AURApps}) \cup {service(u) : u \in DOMAIN AppServices}
         \cup {group(g) : g \in DOMAIN AppGroups} \cup web
  BY DEF BuildAppsRequestPlan
<1>2. ASSUME NEW p
      PROVE  /\ \A s \in aur(p) : IsAUR(s, o, p) /\ s.disp # "blocked"
             /\ Pkg(p) \notin o.facts => HasSource(aur(p), "apps.aur." \o p, p, AURPin(o.policy, p))
  BY AURStepsAre
<1> HIDE DEF aur, service, group, web
<1>3. CASE ~HasApps(o)
  BY <1>3 DEF AppsSteps, HasApps, Apps, Valid
<1>4. CASE HasApps(o)
  <2>1. /\ AppsSteps(o) = BuildAppsRequestPlan(o.policy, o.observed, o.facts)
        /\ ResolveAppsPins(o.policy)
    BY <1>4 DEF AppsSteps, HasApps, Apps, Valid, Invalid
  <2>2. \A p \in AURApps : ValidateAURLocalPin(AURPin(o.policy, p))
    BY <2>1 DEF ResolveAppsPins
  <2>3. /\ lists \subseteq AppsSteps(o) /\ web \subseteq AppsSteps(o)
        /\ \A p \in AURApps : aur(p) \subseteq AppsSteps(o)
        /\ \A u \in DOMAIN AppServices : service(u) \in AppsSteps(o)
        /\ \A g \in DOMAIN AppGroups : group(g) \in AppsSteps(o)
    BY <1>1, <2>1
  <2>4. ASSUME NEW s \in AppsSteps(o)
        PROVE  /\ s.disp # "blocked"
               /\ \/ IsPacman(s, o) \/ IsMarks(s, o) \/ IsDocker(s)
                  \/ \E p \in AURApps : IsAUR(s, o, p)
                  \/ \E u \in DOMAIN AppServices : IsAppService(s, u)
                  \/ \E g \in DOMAIN AppGroups : IsGroup(s, g)
                  \/ \E f \in AppFiles : IsAppFile(s, f)
                  \/ \E a \in WebApps : IsIcon(s, o, a)
    <3>1. CASE s \in lists
      BY <3>1, ListStepsAre, AppStepsAre
    <3>2. CASE \E p \in AURApps : s \in aur(p)
      BY <1>2, <3>2
    <3>3. CASE \E u \in DOMAIN AppServices : s = service(u)
      BY <3>3, AppStepsAre DEF service
    <3>4. CASE \E g \in DOMAIN AppGroups : s = group(g)
      BY <3>4, AppStepsAre DEF group
    <3>5. CASE s \in web
      BY <3>5, WebAppStepsAre DEF web
    <3> QED BY <1>1, <2>1, <3>1, <3>2, <3>3, <3>4, <3>5
  <2>5. /\ \E s \in AppsSteps(o) : IsPacman(s, o) /\ s.disp # "blocked"
        /\ \E s \in AppsSteps(o) : IsMarks(s, o) /\ s.disp # "blocked"
        /\ \E s \in AppsSteps(o) : IsDocker(s) /\ s.disp # "blocked"
    BY <2>3, ListStepsAre, AppStepsAre
  <2>6. ASSUME NEW p \in AURApps, Pkg(p) \notin o.facts
        PROVE  HasSource(AppsSteps(o), "apps.aur." \o p, p, AURPin(o.policy, p))
    <3>1. aur(p) \subseteq AppsSteps(o)
      BY <2>3
    <3> QED BY <1>2, <2>6, <3>1 DEF HasSource
  <2>7. \A u \in DOMAIN AppServices : \E s \in AppsSteps(o) : IsAppService(s, u) /\ s.disp # "blocked"
    BY <2>3, AppStepsAre DEF service
  <2>8. \A g \in DOMAIN AppGroups : \E s \in AppsSteps(o) : IsGroup(s, g) /\ s.disp # "blocked"
    BY <2>3, AppStepsAre DEF group
  <2>9. \A f \in AppFiles : \E s \in AppsSteps(o) : IsAppFile(s, f) /\ s.disp # "blocked"
    BY <2>3, WebAppStepsAre DEF web
  <2>10. \A a \in WebApps : \E s \in AppsSteps(o) : IsIcon(s, o, a) /\ s.disp # "blocked"
    BY <2>3, WebAppStepsAre DEF web
  <2> QED BY <1>4, <2>2, <2>4, <2>5, <2>6, <2>7, <2>8, <2>9, <2>10
<1> QED BY <1>3, <1>4

\* The names in apps are its own, and its services come with its packages.
LEMMA AppsNames ==
    /\ \A p \in Listed : p \notin Unwanted \cup {"paru"}
    /\ \A f \in AppFiles : f \notin {Custom, "bootstrap.zsh"}
    /\ \A u \in DOMAIN AppServices : AppServices[u] \in Listed /\ u # "vicinae"
    /\ \A g \in DOMAIN AppGroups : AppGroups[g] \in DOMAIN AppServices
    /\ "docker-desktop" \in AURApps
<1>1. \A p \in Listed : p \notin Unwanted \cup {"paru"}
  BY ConvergeAssumption DEF Listed
<1>2. \A f \in AppFiles : f \notin {Custom, "bootstrap.zsh"}
  BY ZshIsApart DEF AppFiles, Custom
<1>3. \A u \in DOMAIN AppServices : AppServices[u] \in Listed
  BY ConvergeAssumption DEF Range, Listed
<1>4. DOMAIN AppServices = {"docker", "tailscaled", "nordvpnd"}
  BY DEF AppServices
<1>5. DOMAIN AppGroups = {"docker", "nordvpn"} /\ AppGroups.docker = "docker" /\ AppGroups.nordvpn = "nordvpnd"
  BY DEF AppGroups
<1> QED BY <1>1, <1>2, <1>3, <1>4, <1>5, ConvergeAssumption

\* Each step of apps is tidy.
LEMMA AppsIsTidy ==
    ASSUME NEW o, Apps(o.policy, o.observed, o.facts).valid
    PROVE  \A s \in AppsSteps(o) : Tidy(o, s)
<1> SUFFICES ASSUME NEW s \in AppsSteps(o) PROVE Tidy(o, s)
  OBVIOUS
<1>1. HasApps(o)
  BY AppsStepsAre
<1>2. \/ IsPacman(s, o) \/ IsMarks(s, o) \/ IsDocker(s)
      \/ \E p \in AURApps : IsAUR(s, o, p)
      \/ \E u \in DOMAIN AppServices : IsAppService(s, u)
      \/ \E g \in DOMAIN AppGroups : IsGroup(s, g)
      \/ \E f \in AppFiles : IsAppFile(s, f)
      \/ \E a \in WebApps : IsIcon(s, o, a)
  BY <1>1, AppsStepsAre
<1>3. \A p \in Listed : /\ Clear(o, Pkg(p)) /\ Pkg(p) # Pkg("paru")
                        /\ Plain(o, Explicit(p)) /\ Clear(o, Explicit(p))
  BY AppsNames, WhatIsClear, FactsDiffer DEF Plain
<1>4. CASE IsPacman(s, o)
  <2> DEFINE want == {Pkg(p) : p \in Missing(o)}
             explicits == {Explicit(p) : p \in Missing(o)}
  <2>1. \A p \in Missing(o) : p \in Listed
    BY DEF Missing, MissingPackages, Listed
  <2>2. \A f \in want : /\ Clear(o, f) /\ f # Pkg("paru") /\ f[1] # "stock"
                        /\ \A p : f = Pkg(p) => Explicit(p) \in explicits
    BY <1>3, <2>1, FactsDiffer
  <2>3. \A f \in explicits : /\ Clear(o, f) /\ f # Pkg("paru") /\ f[1] # "stock" /\ \A p : f # Pkg(p)
    BY <1>3, <2>1, FactsDiffer DEF Plain
  <2>4. Is(s, PacmanStep, {}, want, {}, {}, want \cup explicits)
    BY <1>4 DEF IsPacman
  <2> HIDE DEF want, explicits
  <2> QED BY <2>2, <2>3, <2>4, PlainIsTidy
<1>5. CASE IsMarks(s, o)
  <2>1. \A p \in Unmarked(o) : p \in Listed
    BY DEF Unmarked
  <2>2. /\ \A f \in {Explicit(p) : p \in Unmarked(o)} : Plain(o, f)
        /\ \A f \in {Pkg(p) : p \in Unmarked(o)} : Clear(o, f)
    BY <1>3, <2>1
  <2> QED BY <1>5, <2>2, RequestIsTidy DEF IsMarks
<1>6. CASE IsDocker(s)
  <2>1. \A f \in {Disabled("docker-desktop")} : Plain(o, f)
    BY WhatIsClear, FactsDiffer DEF Plain
  <2>2. \A f \in {Pkg("docker-desktop")} : Clear(o, f)
    BY <1>3, AppsNames DEF Listed
  <2> QED BY <1>6, <2>1, <2>2, RequestIsTidy DEF IsDocker
<1>7. CASE \E p \in AURApps : IsAUR(s, o, p)
  <2>1. PICK p \in AURApps : IsAUR(s, o, p)
    BY <1>7
  <2>2. p \in Listed
    BY DEF Listed
  <2>3. CASE Pkg(p) \in o.facts /\ IsThere(s, p)
    <3>1. \A f \in {Pkg(p)} : Clear(o, f) /\ f # Pkg("paru") /\ f[1] # "stock" /\ f \in o.facts
      BY <1>3, <2>2, <2>3, FactsDiffer
    <3> QED BY <2>3, <3>1, PlainIsTidy DEF IsThere
  <2>4. CASE IsSource(s, "apps.aur." \o p, p, AURPin(o.policy, p))
    <3> DEFINE prefix == "apps.aur." \o p
    <3>1. p \notin Unwanted \cup {"paru"} /\ ValidateAURLocalPin(AURPin(o.policy, p))
      BY <1>1, <2>2, AppsNames, AppsStepsAre
    <3>2. IsSource(s, prefix, p, AURPin(o.policy, p))
      BY <2>4
    <3> HIDE DEF prefix
    <3> QED BY <3>1, <3>2, SourceIsTidy
  <2> QED BY <2>1, <2>3, <2>4 DEF IsAUR
<1>8. CASE \E u \in DOMAIN AppServices : IsAppService(s, u)
  <2>1. PICK u \in DOMAIN AppServices : IsAppService(s, u)
    BY <1>8
  <2>2. \A f \in {Service(u)} : Plain(o, f)
    BY AppsNames, WhatIsClear, FactsDiffer DEF Plain
  <2>3. \A f \in {Pkg(AppServices[u])} : Clear(o, f)
    BY <1>3, AppsNames
  <2> QED BY <2>1, <2>2, <2>3, RequestIsTidy DEF IsAppService
<1>9. CASE \E g \in DOMAIN AppGroups : IsGroup(s, g)
  <2>1. PICK g \in DOMAIN AppGroups : IsGroup(s, g)
    BY <1>9
  <2>2. \A f \in {Group(g)} : Plain(o, f)
    BY WhatIsClear, FactsDiffer DEF Plain
  <2>3. \A f \in {Pkg(AppServices[AppGroups[g]])} : Clear(o, f)
    BY <1>3, AppsNames
  <2> QED BY <2>1, <2>2, <2>3, RequestIsTidy DEF IsGroup
<1>10. CASE \E f \in AppFiles : IsAppFile(s, f)
  <2>1. PICK f \in AppFiles : IsAppFile(s, f)
    BY <1>10
  <2>2. \A g \in {File(f)} : Plain(o, g)
    BY AppsNames, WhatIsClear, FactsDiffer DEF Plain
  <2> QED BY <2>1, <2>2, RequestIsTidy DEF IsAppFile
<1>11. CASE \E a \in WebApps : IsIcon(s, o, a)
  <2>1. PICK a \in WebApps : IsIcon(s, o, a)
    BY <1>11
  <2>2. \A f \in {TheIcon(o, a)} : /\ Clear(o, f) /\ f # Pkg("paru") /\ f[1] # "stock" /\ \A p : f # Pkg(p)
    BY WhatIsClear, FactsDiffer DEF TheIcon
  <2>3. \A f \in OtherIcons(o, a) : Against(o, f)
    BY WhatIsClear DEF OtherIcons
  <2> QED BY <2>1, <2>2, <2>3, PlainIsTidy DEF IsIcon
<1> QED BY <1>2, <1>4, <1>5, <1>6, <1>7, <1>8, <1>9, <1>10, <1>11

\* Each package of the lists is there, or its provider is a step that wants it.
LEMMA AppsProvide ==
    ASSUME NEW o, Apps(o.policy, o.observed, o.facts).valid, HasApps(o), NEW p \in Listed,
           Pkg(p) \notin o.facts
    PROVE  \E t \in AppsSteps(o) : t.disp # "blocked" /\ t.id = Provider(p) /\ Pkg(p) \in t.want
<1>1. CASE p \in AURApps
  <2> DEFINE prefix == "apps.aur." \o p
  <2>1. HasSource(AppsSteps(o), prefix, p, AURPin(o.policy, p))
    BY <1>1, AppsStepsAre
  <2>2. AURStep(p) = prefix \o ".install"
    BY DEF AURStep
  <2> HIDE DEF prefix
  <2>3. PICK t \in AppsSteps(o) : IsInstall(t, prefix, p, AURPin(o.policy, p)) /\ t.disp # "blocked"
    BY <2>1 DEF HasSource
  <2> QED BY <1>1, <2>2, <2>3 DEF IsInstall, Is, Provider
<1>2. CASE p \notin AURApps
  <2>1. p \in Missing(o)
    BY <1>2 DEF Missing, MissingPackages, Listed
  <2>2. PICK t \in AppsSteps(o) : IsPacman(t, o) /\ t.disp # "blocked"
    BY AppsStepsAre
  <2> QED BY <1>2, <2>1, <2>2 DEF IsPacman, Is, Provider
<1> QED BY <1>1, <1>2

\* Each step of apps finds what it asks for.
LEMMA AppsSupplies ==
    ASSUME NEW o, Apps(o.policy, o.observed, o.facts).valid, NEW at, Follows(at, AppsSteps(o))
    PROVE  Supplies(at, AppsSteps(o), o.facts)
<1> SUFFICES ASSUME NEW s \in AppsSteps(o), NEW f \in Asked(s)
             PROVE  f = Pkg("paru") \/ Supplied(at, AppsSteps(o), s, f, o.facts)
  BY DEF Supplies
<1>1. HasApps(o)
  BY AppsStepsAre
<1>2. \/ IsPacman(s, o) \/ IsMarks(s, o) \/ IsDocker(s)
      \/ \E p \in AURApps : IsAUR(s, o, p)
      \/ \E u \in DOMAIN AppServices : IsAppService(s, u)
      \/ \E g \in DOMAIN AppGroups : IsGroup(s, g)
      \/ \E n \in AppFiles : IsAppFile(s, n)
      \/ \E a \in WebApps : IsIcon(s, o, a)
  BY <1>1, AppsStepsAre
<1>3. ASSUME NEW t \in AppsSteps(o), NEW p \in Listed, Provider(p) \in t.deps
      PROVE  Supplied(at, AppsSteps(o), t, Pkg(p), o.facts)
  <2>1. CASE Pkg(p) \in o.facts
    BY <2>1 DEF Supplied
  <2>2. CASE Pkg(p) \notin o.facts
    <3>1. PICK q \in AppsSteps(o) : q.disp # "blocked" /\ q.id = Provider(p) /\ Pkg(p) \in q.want
      BY <1>1, <2>2, AppsProvide
    <3> QED BY <1>3, <3>1 DEF Follows, Supplied
  <2> QED BY <2>1, <2>2
<1>4. CASE IsPacman(s, o)
  BY <1>4 DEF IsPacman, Is, Asked, Verifies
<1>5. CASE IsMarks(s, o)
  <2>1. /\ s.need = {Pkg(p) : p \in Unmarked(o)} /\ {Provider(p) : p \in Unmarked(o)} \subseteq s.deps
        /\ s.gives = s.want
    BY <1>5 DEF IsMarks, Is
  <2>2. PICK p \in Unmarked(o) : f = Pkg(p)
    BY <2>1 DEF Asked, Verifies
  <2>3. Provider(p) \in s.deps /\ p \in Listed
    BY <2>1 DEF Unmarked
  <2> QED BY <1>3, <2>2, <2>3
<1>6. CASE IsDocker(s)
  <2>1. f = Pkg("docker-desktop") /\ AURStep("docker-desktop") \in s.deps
    BY <1>6 DEF IsDocker, Is, Asked, Verifies
  <2>2. "docker-desktop" \in Listed /\ Provider("docker-desktop") = AURStep("docker-desktop")
    BY AppsNames DEF Listed, Provider
  <2> QED BY <1>3, <2>1, <2>2
<1>7. CASE \E p \in AURApps : IsAUR(s, o, p)
  <2>1. PICK p \in AURApps : IsAUR(s, o, p)
    BY <1>7
  <2>2. CASE IsThere(s, p)
    BY <2>2 DEF IsThere, Is, Asked, Verifies
  <2>3. CASE Pkg(p) \notin o.facts /\ IsSource(s, "apps.aur." \o p, p, AURPin(o.policy, p))
    <3> DEFINE prefix == "apps.aur." \o p
    <3>1. /\ HasSource(AppsSteps(o), prefix, p, AURPin(o.policy, p))
          /\ IsSource(s, prefix, p, AURPin(o.policy, p))
      BY <1>1, <2>3, AppsStepsAre
    <3> HIDE DEF prefix
    <3> QED BY <3>1, SourceSupplies
  <2> QED BY <2>1, <2>2, <2>3 DEF IsAUR
<1>8. CASE \E u \in DOMAIN AppServices : IsAppService(s, u)
  <2>1. PICK u \in DOMAIN AppServices : IsAppService(s, u)
    BY <1>8
  <2>2. f = Pkg(AppServices[u]) /\ Provider(AppServices[u]) \in s.deps
    BY <2>1 DEF IsAppService, Is, Asked, Verifies
  <2> QED BY <1>3, <2>2, AppsNames
<1>9. CASE \E g \in DOMAIN AppGroups : IsGroup(s, g)
  <2>1. PICK g \in DOMAIN AppGroups : IsGroup(s, g)
    BY <1>9
  <2> DEFINE u == AppGroups[g]
  <2>2. u \in DOMAIN AppServices
    BY AppsNames
  <2>3. f = Pkg(AppServices[u]) /\ ServiceStep(u) \in s.deps
    BY <2>1 DEF IsGroup, Is, Asked, Verifies
  <2> HIDE DEF u
  <2>4. PICK t \in AppsSteps(o) : IsAppService(t, u) /\ t.disp # "blocked"
    BY <1>1, <2>2, AppsStepsAre
  <2>5. t.id \in s.deps /\ Provider(AppServices[u]) \in t.deps
    BY <2>3, <2>4 DEF IsAppService, Is
  <2>6. Supplied(at, AppsSteps(o), t, f, o.facts)
    BY <1>3, <2>2, <2>3, <2>5, AppsNames
  <2>7. at[t.id] < at[s.id] /\ at[t.id] \in Nat /\ at[s.id] \in Nat
        /\ \A q \in AppsSteps(o) : at[q.id] \in Nat
    BY <2>5 DEF Follows
  <2> QED BY <2>6, <2>7 DEF Supplied
<1>10. CASE \E n \in AppFiles : IsAppFile(s, n)
  BY <1>10 DEF IsAppFile, Is, Asked, Verifies
<1>11. CASE \E a \in WebApps : IsIcon(s, o, a)
  BY <1>11 DEF IsIcon, Is, Asked, Verifies
<1> QED BY <1>2, <1>4, <1>5, <1>6, <1>7, <1>8, <1>9, <1>10, <1>11

\* A complete run settles apps.
LEMMA AppsSettles ==
    ASSUME NEW o, Apps(o.policy, o.observed, o.facts).valid, NEW after,
           Finished(o, AppsSteps(o), after)
    PROVE  AppsSettled(Then(o, after))
<1>1. /\ HasApps(Then(o, after)) <=> HasApps(o)
      /\ \A a : TheIcon(Then(o, after), a) = TheIcon(o, a) /\ OtherIcons(Then(o, after), a) = OtherIcons(o, a)
      /\ Then(o, after).facts = after
  BY DEF HasApps, Then, Inputs, TheIcon, OtherIcons
<1> SUFFICES ASSUME HasApps(o)
             PROVE  /\ \A p \in Listed : Pkg(p) \in after /\ Explicit(p) \in after
                    /\ Disabled("docker-desktop") \in after
                    /\ \A u \in DOMAIN AppServices : Service(u) \in after
                    /\ \A g \in DOMAIN AppGroups : Group(g) \in after
                    /\ \A f \in AppFiles : File(f) \in after
                    /\ \A a \in WebApps :
                          TheIcon(o, a) \in after /\ \A f \in OtherIcons(o, a) : f \notin after
  BY <1>1 DEF AppsSettled
<1>2. \A s \in AppsSteps(o) : s.disp # "blocked" =>
         /\ \A f \in s.want : f[1] \notin {"boot", "file"} => f \in after
         /\ \A id : id # "bootstrap.zsh" /\ File(id) \in s.want => File(id) \in after
  BY WantedIsThere, ZshIsApart, FactsDiffer
<1>3. ASSUME NEW p \in Listed PROVE Pkg(p) \in after
  <2>1. CASE Pkg(p) \in o.facts
    <3>1. Clear(o, Pkg(p))
      BY AppsNames, WhatIsClear
    <3> QED BY <2>1, <3>1 DEF Finished
  <2>2. CASE Pkg(p) \notin o.facts
    <3>1. PICK t \in AppsSteps(o) : t.disp # "blocked" /\ t.id = Provider(p) /\ Pkg(p) \in t.want
      BY <2>2, AppsProvide
    <3> QED BY <1>2, <3>1, FactsDiffer
  <2> QED BY <2>1, <2>2
<1>4. ASSUME NEW p \in Listed PROVE Explicit(p) \in after
  <2>1. CASE Explicit(p) \in o.facts
    <3>1. Clear(o, Explicit(p))
      BY WhatIsClear, FactsDiffer
    <3> QED BY <2>1, <3>1 DEF Finished
  <2>2. CASE Explicit(p) \notin o.facts
    <3>1. p \in Unmarked(o)
      BY <2>2 DEF Unmarked
    <3>2. PICK s \in AppsSteps(o) : IsMarks(s, o) /\ s.disp # "blocked"
      BY AppsStepsAre
    <3>3. Explicit(p) \in s.want
      BY <3>1, <3>2 DEF IsMarks, Is
    <3> QED BY <1>2, <3>2, <3>3, FactsDiffer
  <2> QED BY <2>1, <2>2
<1>5. Disabled("docker-desktop") \in after
  <2>1. PICK s \in AppsSteps(o) : IsDocker(s) /\ s.disp # "blocked"
    BY AppsStepsAre
  <2> QED BY <1>2, <2>1, FactsDiffer DEF IsDocker, Is
<1>6. ASSUME NEW u \in DOMAIN AppServices PROVE Service(u) \in after
  <2>1. PICK s \in AppsSteps(o) : IsAppService(s, u) /\ s.disp # "blocked"
    BY AppsStepsAre
  <2> QED BY <1>2, <2>1, FactsDiffer DEF IsAppService, Is
<1>7. ASSUME NEW g \in DOMAIN AppGroups PROVE Group(g) \in after
  <2>1. PICK s \in AppsSteps(o) : IsGroup(s, g) /\ s.disp # "blocked"
    BY AppsStepsAre
  <2> QED BY <1>2, <2>1, FactsDiffer DEF IsGroup, Is
<1>8. ASSUME NEW f \in AppFiles PROVE File(f) \in after
  <2>1. PICK s \in AppsSteps(o) : IsAppFile(s, f) /\ s.disp # "blocked"
    BY AppsStepsAre
  <2>2. f # "bootstrap.zsh"
    BY AppsNames
  <2> QED BY <1>2, <2>1, <2>2 DEF IsAppFile, Is
<1>9. ASSUME NEW a \in WebApps
      PROVE  TheIcon(o, a) \in after /\ \A f \in OtherIcons(o, a) : f \notin after
  <2>1. PICK s \in AppsSteps(o) : IsIcon(s, o, a) /\ s.disp # "blocked"
    BY AppsStepsAre
  <2>2. s.want = {TheIcon(o, a)} /\ s.drop = OtherIcons(o, a) /\ TheIcon(o, a)[1] = "icon"
    BY <2>1, FactsDiffer DEF IsIcon, Is, TheIcon
  <2> QED BY <1>2, <2>1, <2>2 DEF Finished, Achieved
<1> QED BY <1>3, <1>4, <1>5, <1>6, <1>7, <1>8, <1>9

\* Where apps is settled its steps are done.
LEMMA AppsRests ==
    ASSUME NEW o, Apps(o.policy, o.observed, o.facts).valid, AppsSettled(o)
    PROVE  AtRest(o, AppsSteps(o))
<1> SUFFICES ASSUME NEW s \in AppsSteps(o) PROVE Done(s, o.facts)
  BY DEF AtRest
<1>1. HasApps(o)
  BY AppsStepsAre
<1>2. /\ \A p \in Listed : Pkg(p) \in o.facts /\ Explicit(p) \in o.facts
      /\ Disabled("docker-desktop") \in o.facts
      /\ \A u \in DOMAIN AppServices : Service(u) \in o.facts
      /\ \A g \in DOMAIN AppGroups : Group(g) \in o.facts
      /\ \A f \in AppFiles : File(f) \in o.facts
      /\ \A a \in WebApps :
            TheIcon(o, a) \in o.facts /\ \A f \in OtherIcons(o, a) : f \notin o.facts
  BY <1>1 DEF AppsSettled
<1>3. \/ IsPacman(s, o) \/ IsMarks(s, o) \/ IsDocker(s)
      \/ \E p \in AURApps : IsAUR(s, o, p)
      \/ \E u \in DOMAIN AppServices : IsAppService(s, u)
      \/ \E g \in DOMAIN AppGroups : IsGroup(s, g)
      \/ \E f \in AppFiles : IsAppFile(s, f)
      \/ \E a \in WebApps : IsIcon(s, o, a)
  BY <1>1, AppsStepsAre
<1>4. Missing(o) = {} /\ Unmarked(o) = {}
  BY <1>2 DEF Missing, MissingPackages, Unmarked, Listed
<1>5. CASE IsPacman(s, o)
  BY <1>4, <1>5 DEF IsPacman, Is, Done
<1>6. CASE IsMarks(s, o)
  BY <1>4, <1>6 DEF IsMarks, Is, Done
<1>7. CASE IsDocker(s)
  BY <1>2, <1>7 DEF IsDocker, Is, Done
<1>8. CASE \E p \in AURApps : IsAUR(s, o, p)
  <2>1. PICK p \in AURApps : IsAUR(s, o, p)
    BY <1>8
  <2>2. Pkg(p) \in o.facts
    BY <1>2 DEF Listed
  <2>3. IsThere(s, p)
    BY <2>1, <2>2 DEF IsAUR
  <2> QED BY <2>2, <2>3 DEF IsThere, Is, Done
<1>9. CASE \E u \in DOMAIN AppServices : IsAppService(s, u)
  BY <1>2, <1>9 DEF IsAppService, Is, Done
<1>10. CASE \E g \in DOMAIN AppGroups : IsGroup(s, g)
  BY <1>2, <1>10 DEF IsGroup, Is, Done
<1>11. CASE \E f \in AppFiles : IsAppFile(s, f)
  BY <1>2, <1>11 DEF IsAppFile, Is, Done
<1>12. CASE \E a \in WebApps : IsIcon(s, o, a)
  BY <1>2, <1>12 DEF IsIcon, Is, Done
<1> QED BY <1>3, <1>5, <1>6, <1>7, <1>8, <1>9, <1>10, <1>11, <1>12

-------------------------------------------------------------------------------
(* Bootstrap *)

BootstrapSteps(o) == Bootstrap(o.policy, o.observed, o.facts).steps
Boots(o) == ModuleEnabled(o.policy, "bootstrap")
Updates(o) == Ready(o.policy, o.observed, "bootstrapSystemUpdate")
Removes(o) == Ready(o.policy, o.observed, "bootstrapPackageRemoval")
Edits(o) == Ready(o.policy, o.observed, "bootstrapBootMutation")
MissingWanted(o) == Wanted \ InstalledIndex(o.facts, Wanted)
Marked(o) == ExplicitDelta(o.facts, When(Updates(o), MissingWanted(o)))

BootstrapSettled(o) ==
    Boots(o) =>
        /\ Updates(o) => \A p \in Wanted : Pkg(p) \in o.facts
        /\ Removes(o) => \A p \in Unwanted \ LTS : Pkg(p) \notin o.facts
        /\ \A p \in Wanted \cup {Chrome} : Pkg(p) \in o.facts => Explicit(p) \in o.facts
        /\ Edits(o) => HookRemoved \in o.facts /\ SplashRemoved \in o.facts
        /\ Pkg(Chrome) \in o.facts /\ (~Shared(o) => ZshLines \in o.facts)

\* The steps before they are made to wait for one another.
BootstrapBase(o) ==
    LET authorization == {c \in BootstrapCapabilities : Ready(o.policy, o.observed, c)}
    IN  PackageRequests(o.facts, authorization)
        \cup When("bootstrapBootMutation" \in authorization, BootRequests(o.facts))
        \cup ServiceSteps(o.facts) \cup ChromeRequests(o.policy, o.facts)
        \cup {LTSStep(o.facts), ZshStep(o.facts)}
Present(o) == IDs(BootstrapBase(o))

PackageInstall == "bootstrap.packages.install"
PackageRemove == "bootstrap.packages.remove"
PackageMarks == "bootstrap.packages.explicit"
ServiceID(u) == "bootstrap.service." \o u
ChromeFetch == "bootstrap.chrome" \o ".fetch"
LastBefore(present) == IF PackageRemove \in present THEN PackageRemove ELSE PackageInstall
LastPackage(present) == IF PackageMarks \in present THEN PackageMarks ELSE LastBefore(present)

\* What a step waits for among those that are present.
WaitsFor(s, id, dep, present) == s.id = id /\ dep \in present => dep \in s.deps
Waits(s, present) ==
    /\ s.id \in present /\ s.deps \subseteq present
    /\ WaitsFor(s, PackageRemove, PackageInstall, present)
    /\ WaitsFor(s, PackageMarks, LastBefore(present), present)
    /\ WaitsFor(s, ChromeFetch, LastPackage(present), present)
    /\ \A u \in DOMAIN ManagedService : WaitsFor(s, ServiceID(u), LastPackage(present), present)
    /\ WaitsFor(s, "bootstrap.boot.mkinitcpio", "bootstrap.boot.plymouth-edit", present)
    /\ WaitsFor(s, "bootstrap.boot.grub-generate", "bootstrap.boot.grub-edit", present)
    /\ WaitsFor(s, "bootstrap.boot.grub-publish", "bootstrap.boot.grub-generate", present)

\* A step of bootstrap waits for those of its predecessors that are present.
LEMMA BootstrapDependenciesAre ==
    ASSUME NEW present, NEW s, s.id \in present,
           s.deps = {} \/ s.deps \subseteq present,
           NEW t, t.id = s.id, t.deps = s.deps \cup BootstrapDependencies(present)[s.id]
    PROVE  Waits(t, present)
<1> DEFINE chrome == "bootstrap.chrome" \o ".install"
           before == LastBefore(present)
           last == LastPackage(present)
           wired == {<<PackageRemove, PackageInstall>>, <<PackageMarks, before>>,
                     <<"bootstrap.boot.mkinitcpio", "bootstrap.boot.plymouth-edit">>,
                     <<"bootstrap.boot.grub-generate", "bootstrap.boot.grub-edit">>,
                     <<"bootstrap.boot.grub-publish",
                       IF "bootstrap.boot.grub-generate" \in present
                       THEN "bootstrap.boot.grub-generate" ELSE "bootstrap.boot.grub-edit">>,
                     <<ChromeFetch, last>>,
                     <<"bootstrap.zsh", IF chrome \in present THEN chrome ELSE last>>}
                    \cup {<<ServiceID(u), last>> : u \in DOMAIN ManagedService}
           deps(id) == {w[2] : w \in {v \in wired : v[1] = id /\ v[2] \in present}}
<1>1. BootstrapDependencies(present) = [id \in present |-> deps(id)]
  BY DEF BootstrapDependencies, LastBefore, LastPackage, PackageInstall, PackageRemove, PackageMarks,
         ServiceID, ChromeFetch
<1>2. /\ <<PackageRemove, PackageInstall>> \in wired /\ <<PackageMarks, before>> \in wired
      /\ <<"bootstrap.boot.mkinitcpio", "bootstrap.boot.plymouth-edit">> \in wired
      /\ <<"bootstrap.boot.grub-generate", "bootstrap.boot.grub-edit">> \in wired
      /\ <<ChromeFetch, last>> \in wired
      /\ \A u \in DOMAIN ManagedService : <<ServiceID(u), last>> \in wired
      /\ "bootstrap.boot.grub-generate" \in present =>
            <<"bootstrap.boot.grub-publish", "bootstrap.boot.grub-generate">> \in wired
  OBVIOUS
<1> HIDE DEF wired
<1>3. ASSUME NEW id, NEW dep, <<id, dep>> \in wired PROVE WaitsFor(t, id, dep, present)
  <2>1. s.id = id /\ dep \in present => dep \in deps(s.id)
    <3>1. <<id, dep>>[1] = id /\ <<id, dep>>[2] = dep
      OBVIOUS
    <3> QED BY <1>3, <3>1
  <2> HIDE DEF deps
  <2> QED BY <1>1, <2>1 DEF WaitsFor
<1>4. WaitsFor(t, "bootstrap.boot.grub-publish", "bootstrap.boot.grub-generate", present)
  <2>1. CASE "bootstrap.boot.grub-generate" \in present
    BY <1>2, <1>3, <2>1
  <2>2. CASE "bootstrap.boot.grub-generate" \notin present
    BY <2>2 DEF WaitsFor
  <2> QED BY <2>1, <2>2
<1>5. t.id \in present /\ t.deps \subseteq present
  BY <1>1
<1>6. /\ WaitsFor(t, PackageRemove, PackageInstall, present)
      /\ WaitsFor(t, PackageMarks, before, present)
      /\ WaitsFor(t, ChromeFetch, last, present)
      /\ WaitsFor(t, "bootstrap.boot.mkinitcpio", "bootstrap.boot.plymouth-edit", present)
      /\ WaitsFor(t, "bootstrap.boot.grub-generate", "bootstrap.boot.grub-edit", present)
  <2> HIDE DEF before, last
  <2> QED BY <1>2, <1>3
<1>7. \A u \in DOMAIN ManagedService : WaitsFor(t, ServiceID(u), last, present)
  <2> HIDE DEF last
  <2> QED BY <1>2, <1>3
<1> QED BY <1>4, <1>5, <1>6, <1>7 DEF Waits

IsBootInstall(s, o) ==
    Is(s, PackageInstall, {}, {Pkg(p) : p \in MissingWanted(o)}, {}, {},
       {Pkg(p) : p \in MissingWanted(o)} \cup {Explicit(p) : p \in MissingWanted(o)})
IsBootRemove(s, o) ==
    /\ s.id = PackageRemove /\ s.want = {} /\ s.gives = {}
    /\ s.drop = {Pkg(p) : p \in RemovalDelta(o.facts)}
    /\ s.need = {Pkg(p) : p \in RemovalDelta(o.facts)}
    /\ s.loses = Unneeded(o.facts, RemovalDelta(o.facts))
IsBootMarks(s, o) ==
    Is(s, PackageMarks, {}, {Explicit(p) : p \in Marked(o)}, {}, {Pkg(p) : p \in Marked(o)},
       {Explicit(p) : p \in Marked(o)})
IsHook(s) == Is(s, "bootstrap.boot.plymouth-edit", {}, {HookRemoved}, {}, {}, {HookRemoved})
IsImage(s) == Is(s, "bootstrap.boot.mkinitcpio", {}, {ImageBuilt}, {}, {HookRemoved}, {ImageBuilt})
IsSplash(s) == Is(s, "bootstrap.boot.grub-edit", {}, {SplashRemoved}, {}, {}, {SplashRemoved})
IsMenu(s) ==
    Is(s, "bootstrap.boot.grub-generate", {}, {MenuStaged}, {}, {SplashRemoved, Generator}, {MenuStaged})
IsPublish(s) ==
    Is(s, "bootstrap.boot.grub-publish", {}, {MenuPublished}, {MenuStaged}, {MenuStaged}, {MenuPublished})
IsBootService(s, u) ==
    Is(s, ServiceID(u), {}, {Service(u)}, {}, {Pkg(ManagedService[u])}, {Service(u)})
IsZsh(s) == Is(s, "bootstrap.zsh", {}, {ZshLines}, {}, {}, {ZshLines})

\* What each step is, the records of what is kept or refused apart.
IsBooting(s, o) ==
    \/ Updates(o) /\ MissingWanted(o) # {} /\ IsBootInstall(s, o) /\ s.disp # "blocked"
    \/ Removes(o) /\ RemovalDelta(o.facts) # {} /\ IsBootRemove(s, o)
    \/ Marked(o) # {} /\ IsBootMarks(s, o)
    \/ Edits(o) /\ HookRemoved \notin o.facts /\ (IsHook(s) \/ IsImage(s))
    \/ Edits(o) /\ SplashRemoved \notin o.facts /\ IsSplash(s)
    \/ /\ Edits(o) /\ SplashRemoved \notin o.facts /\ IsPublish(s)
       /\ Generator \notin o.facts => s.disp = "blocked"
    \/ Edits(o) /\ SplashRemoved \notin o.facts /\ Generator \in o.facts /\ IsMenu(s)
    \/ \E u \in ServiceRequests(o.facts) : IsBootService(s, u)
    \/ /\ Pkg(Chrome) \notin o.facts
       /\ IsSource(s, "bootstrap.chrome", Chrome, AURPin(o.policy, Chrome))
    \/ IsZsh(s)

\* The steps that are there, waiting or not.
HasBooting(steps, o) ==
    /\ Updates(o) /\ MissingWanted(o) # {} => \E s \in steps : IsBootInstall(s, o) /\ s.disp # "blocked"
    /\ Removes(o) /\ RemovalDelta(o.facts) # {} => \E s \in steps : IsBootRemove(s, o) /\ s.disp # "blocked"
    /\ Marked(o) # {} => \E s \in steps : IsBootMarks(s, o) /\ s.disp # "blocked"
    /\ Edits(o) /\ HookRemoved \notin o.facts => \E s \in steps : IsHook(s) /\ s.disp # "blocked"
    /\ Edits(o) /\ SplashRemoved \notin o.facts => \E s \in steps : IsSplash(s) /\ s.disp # "blocked"
    /\ Edits(o) /\ SplashRemoved \notin o.facts /\ Generator \in o.facts =>
          \E s \in steps : IsMenu(s) /\ s.disp # "blocked"
    /\ Pkg(Chrome) \notin o.facts => HasSource(steps, "bootstrap.chrome", Chrome, AURPin(o.policy, Chrome))
    /\ \E s \in steps : IsZsh(s) /\ s.disp # "blocked"
    /\ \A u \in ServiceRequests(o.facts) : \E s \in steps : IsBootService(s, u) /\ s.disp # "blocked"

\* A request of bootstrap is a step without dependencies that is never
\* blocked.
LEMMA BootstrapRequestIs ==
    \A id, want, drop, need :
        LET s == BootstrapRequest(id, want, drop, need)
        IN  Is(s, id, {}, want, drop, need, want) /\ s.disp # "blocked" /\ s.deps = {}
BY DEF BootstrapRequest, Step, Is

\* The package steps: what is missing, unwanted or unmarked, where that is
\* authorized.
LEMMA PackageRequestsAre ==
    ASSUME NEW o
    PROVE  LET steps == PackageRequests(o.facts, {c \in BootstrapCapabilities : Ready(o.policy, o.observed, c)})
           IN  /\ \A s \in steps :
                     /\ s.deps = {}
                     /\ \/ Updates(o) /\ MissingWanted(o) # {} /\ IsBootInstall(s, o) /\ s.disp # "blocked"
                        \/ Removes(o) /\ RemovalDelta(o.facts) # {} /\ IsBootRemove(s, o)
                        \/ Marked(o) # {} /\ IsBootMarks(s, o)
               /\ Updates(o) /\ MissingWanted(o) # {} =>
                     \E s \in steps : IsBootInstall(s, o) /\ s.disp # "blocked"
               /\ Removes(o) /\ RemovalDelta(o.facts) # {} =>
                     \E s \in steps : IsBootRemove(s, o) /\ s.disp # "blocked"
               /\ Marked(o) # {} => \E s \in steps : IsBootMarks(s, o) /\ s.disp # "blocked"
<1> DEFINE authorization == {c \in BootstrapCapabilities : Ready(o.policy, o.observed, c)}
           steps == PackageRequests(o.facts, authorization)
           missing == MissingWanted(o)
           removed == RemovalDelta(o.facts)
           marked == Marked(o)
           request == BootstrapRequest(PackageInstall, {Pkg(p) : p \in missing}, {}, {})
           gives == {Pkg(p) : p \in missing} \cup {Explicit(p) : p \in missing}
           install == [request EXCEPT !.gives = gives]
           removal == BootstrapRequest(PackageRemove, {}, {Pkg(p) : p \in removed}, {Pkg(p) : p \in removed})
           loses == Unneeded(o.facts, removed)
           remove == [removal EXCEPT !.loses = loses]
           mark == BootstrapRequest(PackageMarks, {Explicit(p) : p \in marked}, {},
                                    {Pkg(p) : p \in marked})
<1>1. /\ "bootstrapSystemUpdate" \in authorization <=> Updates(o)
      /\ "bootstrapPackageRemoval" \in authorization <=> Removes(o)
  BY DEF BootstrapCapabilities, Updates, Removes
<1> HIDE DEF authorization
<1>2. steps = When(Updates(o) /\ missing # {}, {install}) \cup When(Removes(o) /\ removed # {}, {remove})
              \cup When(marked # {}, {mark})
  <2> DEFINE update == "bootstrapSystemUpdate" \in authorization
             prune == "bootstrapPackageRemoval" \in authorization
             delta == ExplicitDelta(o.facts, When(update, missing))
  <2>1. When(update, missing) = When(Updates(o), missing)
    BY <1>1 DEF When
  <2>2. delta = marked
    BY <2>1 DEF Marked
  <2>3. steps = When(update /\ missing # {}, {install}) \cup When(prune /\ removed # {}, {remove})
                \cup When(delta # {}, {BootstrapRequest(PackageMarks, {Explicit(p) : p \in delta}, {},
                                                       {Pkg(p) : p \in delta})})
    BY DEF PackageRequests, MissingWanted, PackageInstall, PackageRemove, PackageMarks
  <2> HIDE DEF delta, steps, missing, removed, marked, install, remove
  <2> QED BY <1>1, <2>2, <2>3 DEF When
<1> HIDE DEF steps, missing, removed, marked
<1>3. IsBootInstall(install, o) /\ install.disp # "blocked" /\ install.deps = {}
  <2>1. Is(request, PackageInstall, {}, {Pkg(p) : p \in missing}, {}, {}, {Pkg(p) : p \in missing})
        /\ request.disp # "blocked" /\ request.deps = {}
    BY BootstrapRequestIs
  <2>2. "gives" \in DOMAIN request
    BY DEF BootstrapRequest, Step
  <2> HIDE DEF request, gives
  <2>3. /\ Is(install, PackageInstall, {}, {Pkg(p) : p \in missing}, {}, {}, gives)
        /\ install.disp # "blocked" /\ install.deps = {}
    BY <2>1, <2>2 DEF Is
  <2> HIDE DEF install
  <2> QED BY <2>3 DEF IsBootInstall, gives, missing
<1>4. IsBootRemove(remove, o) /\ remove.disp # "blocked" /\ remove.deps = {}
  <2>1. /\ Is(removal, PackageRemove, {}, {}, {Pkg(p) : p \in removed}, {Pkg(p) : p \in removed}, {})
        /\ removal.disp # "blocked" /\ removal.deps = {}
    BY BootstrapRequestIs
  <2>2. "loses" \in DOMAIN removal
    BY DEF BootstrapRequest, Step
  <2> HIDE DEF removal, loses
  <2>3. /\ remove.id = PackageRemove /\ remove.want = {} /\ remove.gives = {}
        /\ remove.drop = {Pkg(p) : p \in removed} /\ remove.need = {Pkg(p) : p \in removed}
        /\ remove.loses = loses /\ remove.disp # "blocked" /\ remove.deps = {}
    BY <2>1, <2>2 DEF Is
  <2> HIDE DEF remove
  <2> QED BY <2>3 DEF IsBootRemove, loses, removed
<1>5. IsBootMarks(mark, o) /\ mark.disp # "blocked" /\ mark.deps = {}
  BY BootstrapRequestIs DEF IsBootMarks, marked
<1> HIDE DEF install, remove, mark
<1>6. /\ \A s \in steps :
           /\ s.deps = {}
           /\ \/ Updates(o) /\ missing # {} /\ IsBootInstall(s, o) /\ s.disp # "blocked"
              \/ Removes(o) /\ removed # {} /\ IsBootRemove(s, o)
              \/ marked # {} /\ IsBootMarks(s, o)
      /\ Updates(o) /\ missing # {} => \E s \in steps : IsBootInstall(s, o) /\ s.disp # "blocked"
      /\ Removes(o) /\ removed # {} => \E s \in steps : IsBootRemove(s, o) /\ s.disp # "blocked"
      /\ marked # {} => \E s \in steps : IsBootMarks(s, o) /\ s.disp # "blocked"
  BY <1>2, <1>3, <1>4, <1>5 DEF When
<1> QED BY <1>6 DEF steps, missing, removed, marked, authorization

\* The boot steps: each pair is there only as long as its edit has to be
\* made.
LEMMA BootRequestsAre ==
    ASSUME NEW facts
    PROVE  LET steps == BootRequests(facts)
           IN  /\ \A s \in steps :
                     /\ s.deps = {}
                     /\ \/ HookRemoved \notin facts /\ (IsHook(s) \/ IsImage(s))
                        \/ SplashRemoved \notin facts /\ IsSplash(s)
                        \/ SplashRemoved \notin facts /\ IsPublish(s)
                           /\ (Generator \notin facts => s.disp = "blocked")
                        \/ SplashRemoved \notin facts /\ Generator \in facts /\ IsMenu(s)
               /\ HookRemoved \notin facts => \E s \in steps : IsHook(s) /\ s.disp # "blocked"
               /\ SplashRemoved \notin facts => \E s \in steps : IsSplash(s) /\ s.disp # "blocked"
               /\ SplashRemoved \notin facts /\ Generator \in facts =>
                     \E s \in steps : IsMenu(s) /\ s.disp # "blocked"
<1> DEFINE hook == BootstrapRequest("bootstrap.boot.plymouth-edit", {HookRemoved}, {}, {})
           image == BootstrapRequest("bootstrap.boot.mkinitcpio", {ImageBuilt}, {}, {HookRemoved})
           splash == BootstrapRequest("bootstrap.boot.grub-edit", {SplashRemoved}, {}, {})
           menu == BootstrapRequest("bootstrap.boot.grub-generate", {MenuStaged}, {},
                                    {SplashRemoved, Generator})
           request == BootstrapRequest("bootstrap.boot.grub-publish", {MenuPublished}, {MenuStaged},
                                       {MenuStaged})
           publish == GRUBPublishStep(facts)
           steps == BootRequests(facts)
<1>1. /\ IsHook(hook) /\ hook.disp # "blocked" /\ hook.deps = {}
      /\ IsImage(image) /\ image.disp # "blocked" /\ image.deps = {}
  BY BootstrapRequestIs DEF IsHook, IsImage
<1>2. /\ IsSplash(splash) /\ splash.disp # "blocked" /\ splash.deps = {}
      /\ IsMenu(menu) /\ menu.disp # "blocked" /\ menu.deps = {}
  BY BootstrapRequestIs DEF IsSplash, IsMenu
<1>3. IsPublish(publish) /\ publish.deps = {} /\ (Generator \notin facts => publish.disp = "blocked")
  <2>1. /\ Is(request, "bootstrap.boot.grub-publish", {}, {MenuPublished}, {MenuStaged}, {MenuStaged},
              {MenuPublished}) /\ request.deps = {}
    BY BootstrapRequestIs
  <2>2. "disp" \in DOMAIN request
    BY DEF BootstrapRequest, Step
  <2>3. publish = [request EXCEPT !.disp = IF Generator \in facts THEN "apply" ELSE "blocked"]
    BY DEF GRUBPublishStep
  <2> HIDE DEF request, publish
  <2> QED BY <2>1, <2>2, <2>3 DEF IsPublish, Is
<1>4. steps = When(HookRemoved \notin facts, {hook, image})
              \cup When(SplashRemoved \notin facts, {splash, publish})
              \cup When(SplashRemoved \notin facts /\ Generator \in facts, {menu})
  BY DEF BootRequests
<1> HIDE DEF hook, image, splash, menu, publish, steps
<1>5. ASSUME NEW s \in steps
      PROVE  /\ s.deps = {}
             /\ \/ HookRemoved \notin facts /\ (IsHook(s) \/ IsImage(s))
                \/ SplashRemoved \notin facts /\ IsSplash(s)
                \/ SplashRemoved \notin facts /\ IsPublish(s) /\ (Generator \notin facts => s.disp = "blocked")
                \/ SplashRemoved \notin facts /\ Generator \in facts /\ IsMenu(s)
  BY <1>1, <1>2, <1>3, <1>4 DEF When
<1>6. /\ HookRemoved \notin facts => hook \in steps
      /\ SplashRemoved \notin facts => splash \in steps
      /\ SplashRemoved \notin facts /\ Generator \in facts => menu \in steps
  BY <1>4 DEF When
<1> QED BY <1>1, <1>2, <1>5, <1>6 DEF steps

\* The steps of a pinned package depend on one another only.
LEMMA SourceWaits ==
    ASSUME NEW prefix, NEW module, NEW p, NEW pin, NEW tree, NEW patch
    PROVE  LET steps == SourceSteps(prefix, module, p, pin, {}, tree, patch)
           IN  \A s \in steps : s.deps \subseteq IDs(steps)
<1> DEFINE steps == SourceSteps(prefix, module, p, pin, {}, tree, patch)
           ids == {prefix \o ".fetch", prefix \o ".checkout", prefix \o ".patch.materialize",
                   prefix \o ".patch.verify"}
           c == pin.sourceCommit
           h == pin.patchSHA256
           trees == {Tree(p, d) : d \in Commits \ {c}}
           patches == {Patch(p, g) : g \in Patches \ {h}}
           New(op, deps, disp, want, drop, need, gives) ==
             [Step(prefix \o op, module, deps, disp, want, drop)
                EXCEPT !.need = need, !.gives = gives, !.inverse = TRUE]
           fetch    == New(".fetch", {}, "apply", {Fetched(p, c)}, {}, {}, {Fetched(p, c)})
           checkout == New(".checkout", {prefix \o ".fetch"}, tree, {Tree(p, c)},
                           trees, {Fetched(p, c)}, {Tree(p, c)})
           write    == New(".patch.materialize", {prefix \o ".checkout"}, patch, {Patch(p, h)},
                           patches, {Fetched(p, c)}, {Patch(p, PatchOf[c])})
           verify   == New(".patch.verify", {prefix \o ".patch.materialize"}, patch, {Patch(p, h)},
                           {}, {Patch(p, PatchOf[c])}, {})
           install  == New(".install", {prefix \o ".patch.verify"}, "apply", {Pkg(p)},
                           {}, {Pkg("paru"), Tree(p, c), Patch(p, h)}, {Pkg(p), Explicit(p)})
<1>1. steps = {fetch, checkout, write, verify, install}
  BY DEF SourceSteps
<1>2. /\ fetch.id = prefix \o ".fetch" /\ fetch.deps = {}
      /\ checkout.id = prefix \o ".checkout" /\ checkout.deps = {prefix \o ".fetch"}
      /\ write.id = prefix \o ".patch.materialize" /\ write.deps = {prefix \o ".checkout"}
      /\ verify.id = prefix \o ".patch.verify" /\ verify.deps = {prefix \o ".patch.materialize"}
      /\ install.deps = {prefix \o ".patch.verify"}
  <2> HIDE DEF trees, patches
  <2>1. fetch.id = prefix \o ".fetch" /\ fetch.deps = {}
    BY DEF Step
  <2>2. checkout.id = prefix \o ".checkout" /\ checkout.deps = {prefix \o ".fetch"}
    BY DEF Step
  <2>3. write.id = prefix \o ".patch.materialize" /\ write.deps = {prefix \o ".checkout"}
    BY DEF Step
  <2>4. verify.id = prefix \o ".patch.verify" /\ verify.deps = {prefix \o ".patch.materialize"}
    BY DEF Step
  <2>5. install.deps = {prefix \o ".patch.verify"}
    BY DEF Step
  <2> QED BY <2>1, <2>2, <2>3, <2>4, <2>5
<1> HIDE DEF fetch, checkout, write, verify, install, steps
<1>3. ids \subseteq IDs(steps)
  BY <1>1, <1>2 DEF IDs
<1>4. \A s \in steps : s.deps \subseteq ids
  BY <1>1, <1>2
<1> QED BY <1>3, <1>4 DEF steps

\* The steps of bootstrap before their dependencies are wired,
LEMMA BootstrapBaseIs ==
    ASSUME NEW o
    PROVE  /\ \A t \in BootstrapBase(o) :
                 t.deps \subseteq Present(o) /\ (IsNothing(t) \/ IsBooting(t, o))
           /\ HasBooting(BootstrapBase(o), o)
<1> DEFINE authorization == {c \in BootstrapCapabilities : Ready(o.policy, o.observed, c)}
           packages == PackageRequests(o.facts, authorization)
           boot == When("bootstrapBootMutation" \in authorization, BootRequests(o.facts))
           services == ServiceSteps(o.facts)
           pin == AURPin(o.policy, Chrome)
           sources == SourceSteps("bootstrap.chrome", "bootstrap", Chrome, pin, {}, "apply", "apply")
           chrome == ChromeRequests(o.policy, o.facts)
           lts == LTSStep(o.facts)
           zsh == ZshStep(o.facts)
           base == BootstrapBase(o)
<1>1. base = packages \cup boot \cup services \cup chrome \cup {lts, zsh}
  BY DEF BootstrapBase
<1>2. "bootstrapBootMutation" \in authorization <=> Edits(o)
  BY DEF BootstrapCapabilities, Edits
<1>3. /\ \A s \in packages :
           /\ s.deps = {}
           /\ \/ Updates(o) /\ MissingWanted(o) # {} /\ IsBootInstall(s, o) /\ s.disp # "blocked"
              \/ Removes(o) /\ RemovalDelta(o.facts) # {} /\ IsBootRemove(s, o)
              \/ Marked(o) # {} /\ IsBootMarks(s, o)
      /\ Updates(o) /\ MissingWanted(o) # {} => \E s \in packages : IsBootInstall(s, o) /\ s.disp # "blocked"
      /\ Removes(o) /\ RemovalDelta(o.facts) # {} =>
            \E s \in packages : IsBootRemove(s, o) /\ s.disp # "blocked"
      /\ Marked(o) # {} => \E s \in packages : IsBootMarks(s, o) /\ s.disp # "blocked"
  BY PackageRequestsAre
<1> HIDE DEF authorization
<1>4. boot = When(Edits(o), BootRequests(o.facts))
  BY <1>2 DEF When
<1>5. ASSUME NEW s \in services
      PROVE  s.deps = {} /\ \E u \in ServiceRequests(o.facts) : IsBootService(s, u)
  <2>1. PICK u \in ServiceRequests(o.facts) :
           s = BootstrapRequest(ServiceID(u), {Service(u)}, {}, {Pkg(ManagedService[u])})
    BY DEF ServiceSteps, ServiceID
  <2>2. s.deps = {} /\ IsBootService(s, u)
    BY <2>1, BootstrapRequestIs DEF IsBootService
  <2> QED BY <2>2
<1>6. \A u \in ServiceRequests(o.facts) : \E s \in services : IsBootService(s, u) /\ s.disp # "blocked"
  <2> SUFFICES ASSUME NEW u \in ServiceRequests(o.facts)
               PROVE  \E s \in services : IsBootService(s, u) /\ s.disp # "blocked"
    OBVIOUS
  <2> DEFINE s == BootstrapRequest(ServiceID(u), {Service(u)}, {}, {Pkg(ManagedService[u])})
  <2>1. s \in services
    BY DEF ServiceSteps, ServiceID
  <2>2. IsBootService(s, u) /\ s.disp # "blocked"
    BY BootstrapRequestIs DEF IsBootService
  <2> QED BY <2>1, <2>2
<1>7. chrome = When(Pkg(Chrome) \notin o.facts, sources)
  BY DEF ChromeRequests
<1>8. /\ \A s \in sources : IsSource(s, "bootstrap.chrome", Chrome, pin) /\ s.deps \subseteq IDs(sources)
      /\ HasSource(sources, "bootstrap.chrome", Chrome, pin)
  <2> HIDE DEF pin
  <2> QED BY SourceStepsAre, SourceWaits
<1>9. IsNothing(lts) /\ lts.deps = {}
  BY DEF LTSStep, Step, IsNothing
<1>10. IsZsh(zsh) /\ zsh.deps = {} /\ zsh.disp # "blocked"
  <2>1. /\ Is(zsh, "bootstrap.zsh", {}, {File("bootstrap.zsh")}, {}, {}, {File("bootstrap.zsh")})
        /\ zsh.disp # "blocked"
    BY StepIs DEF ZshStep
  <2>2. zsh.deps = {}
    BY DEF ZshStep, ManagedFileStep, ModuleRequestStep, Step
  <2> QED BY <2>1, <2>2 DEF IsZsh, ZshLines
<1> HIDE DEF packages, boot, services, chrome, sources, lts, zsh, base, pin
<1>11. ASSUME NEW t \in base PROVE t.deps \subseteq Present(o) /\ (IsNothing(t) \/ IsBooting(t, o))
  <2>1. CASE t \in packages
    BY <1>3, <2>1 DEF IsBooting
  <2>2. CASE t \in boot
    <3>1. /\ t.deps = {} /\ Edits(o)
          /\ \/ HookRemoved \notin o.facts /\ (IsHook(t) \/ IsImage(t))
             \/ SplashRemoved \notin o.facts /\ IsSplash(t)
             \/ SplashRemoved \notin o.facts /\ IsPublish(t) /\ (Generator \notin o.facts => t.disp = "blocked")
             \/ SplashRemoved \notin o.facts /\ Generator \in o.facts /\ IsMenu(t)
      BY <1>4, <2>2, BootRequestsAre DEF When
    <3> QED BY <3>1 DEF IsBooting
  <2>3. CASE t \in services
    BY <1>5, <2>3 DEF IsBooting
  <2>4. CASE t \in chrome
    <3>1. Pkg(Chrome) \notin o.facts /\ t \in sources /\ sources \subseteq base
      BY <1>1, <1>7, <2>4 DEF When
    <3>2. t.deps \subseteq Present(o)
      BY <1>8, <3>1 DEF Present, IDs, base
    <3> QED BY <1>8, <3>1, <3>2 DEF IsBooting, pin
  <2>5. CASE t = lts
    BY <1>9, <2>5
  <2>6. CASE t = zsh
    BY <1>10, <2>6 DEF IsBooting
  <2> QED BY <1>1, <2>1, <2>2, <2>3, <2>4, <2>5, <2>6
<1>12. HasBooting(base, o)
  <2>1. /\ Edits(o) /\ HookRemoved \notin o.facts => \E s \in boot : IsHook(s) /\ s.disp # "blocked"
        /\ Edits(o) /\ SplashRemoved \notin o.facts => \E s \in boot : IsSplash(s) /\ s.disp # "blocked"
        /\ Edits(o) /\ SplashRemoved \notin o.facts /\ Generator \in o.facts =>
              \E s \in boot : IsMenu(s) /\ s.disp # "blocked"
    <3>1. Edits(o) => boot = BootRequests(o.facts)
      BY <1>4 DEF When
    <3> QED BY <3>1, BootRequestsAre
  <2>2. Pkg(Chrome) \notin o.facts => HasSource(base, "bootstrap.chrome", Chrome, pin)
    <3>1. Pkg(Chrome) \notin o.facts => sources \subseteq base
      BY <1>1, <1>7 DEF When
    <3> QED BY <1>8, <3>1 DEF HasSource
  <2>3. packages \subseteq base /\ boot \subseteq base /\ zsh \in base /\ services \subseteq base
    BY <1>1
  <2> QED BY <1>3, <1>10, <1>6, <2>1, <2>2, <2>3 DEF HasBooting, pin
<1> QED BY <1>11, <1>12 DEF base

\* Waiting for more changes nothing else.
Waiting(t, s) ==
    /\ s.id = t.id /\ s.disp = t.disp /\ t.deps \subseteq s.deps
    /\ s.want = t.want /\ s.drop = t.drop /\ s.need = t.need /\ s.gives = t.gives
    /\ s.loses = t.loses

\* and after: wiring changes dependencies only.
LEMMA WaitingIsTheSame ==
    ASSUME NEW o, NEW s, NEW t, Waiting(t, s)
    PROVE  /\ IsNothing(t) => IsNothing(s)
           /\ IsBooting(t, o) => IsBooting(s, o)
           /\ (IsBootInstall(t, o) => IsBootInstall(s, o)) /\ (IsBootRemove(t, o) => IsBootRemove(s, o))
           /\ (IsBootMarks(t, o) => IsBootMarks(s, o)) /\ (IsHook(t) => IsHook(s))
           /\ (IsSplash(t) => IsSplash(s)) /\ (IsMenu(t) => IsMenu(s)) /\ (IsZsh(t) => IsZsh(s))
           /\ \A u : IsBootService(t, u) => IsBootService(s, u)
           /\ \A prefix, p, pin :
                 /\ IsFetch(t, prefix, p, pin) => IsFetch(s, prefix, p, pin)
                 /\ IsCheckout(t, prefix, p, pin) => IsCheckout(s, prefix, p, pin)
                 /\ IsWrite(t, prefix, p, pin) => IsWrite(s, prefix, p, pin)
                 /\ IsVerify(t, prefix, p, pin) => IsVerify(s, prefix, p, pin)
                 /\ IsInstall(t, prefix, p, pin) => IsInstall(s, prefix, p, pin)
<1>1. \A id, deps, want, drop, need, gives :
         Is(t, id, deps, want, drop, need, gives) => Is(s, id, deps, want, drop, need, gives)
  BY DEF Waiting, Is
<1>2. IsNothing(t) => IsNothing(s)
  BY DEF Waiting, IsNothing
<1>3. \A prefix, p, pin :
         /\ IsFetch(t, prefix, p, pin) => IsFetch(s, prefix, p, pin)
         /\ IsCheckout(t, prefix, p, pin) => IsCheckout(s, prefix, p, pin)
         /\ IsWrite(t, prefix, p, pin) => IsWrite(s, prefix, p, pin)
         /\ IsVerify(t, prefix, p, pin) => IsVerify(s, prefix, p, pin)
         /\ IsInstall(t, prefix, p, pin) => IsInstall(s, prefix, p, pin)
  BY <1>1 DEF IsFetch, IsCheckout, IsWrite, IsVerify, IsInstall
<1>4. /\ IsBootInstall(t, o) => IsBootInstall(s, o)
      /\ IsBootRemove(t, o) => IsBootRemove(s, o)
      /\ IsBootMarks(t, o) => IsBootMarks(s, o)
  <2>1. IsBootRemove(t, o) => IsBootRemove(s, o)
    BY DEF IsBootRemove, Waiting
  <2> QED BY <1>1, <2>1 DEF IsBootInstall, IsBootMarks
<1>5. /\ (IsHook(t) => IsHook(s)) /\ (IsImage(t) => IsImage(s))
      /\ (IsSplash(t) => IsSplash(s)) /\ (IsMenu(t) => IsMenu(s))
      /\ (IsPublish(t) => IsPublish(s)) /\ (IsZsh(t) => IsZsh(s))
  <2>1. (IsHook(t) => IsHook(s)) /\ (IsImage(t) => IsImage(s)) /\ (IsSplash(t) => IsSplash(s))
    BY <1>1 DEF IsHook, IsImage, IsSplash
  <2>2. (IsMenu(t) => IsMenu(s)) /\ (IsPublish(t) => IsPublish(s)) /\ (IsZsh(t) => IsZsh(s))
    BY <1>1 DEF IsMenu, IsPublish, IsZsh
  <2> QED BY <2>1, <2>2
<1>6. \A u : IsBootService(t, u) => IsBootService(s, u)
  BY <1>1 DEF IsBootService
<1>7. s.disp = t.disp
  BY DEF Waiting
<1>8. \A prefix, p, pin : IsSource(t, prefix, p, pin) => IsSource(s, prefix, p, pin)
  BY <1>3 DEF IsSource
<1>9. IsBooting(t, o) => IsBooting(s, o)
  BY <1>4, <1>5, <1>6, <1>7, <1>8 DEF IsBooting
<1> QED BY <1>2, <1>3, <1>4, <1>5, <1>6, <1>9

\* The steps of bootstrap, one by one.
LEMMA BootstrapStepsAre ==
    ASSUME NEW o, Bootstrap(o.policy, o.observed, o.facts).valid
    PROVE  /\ ~Boots(o) => BootstrapSteps(o) = {}
           /\ Boots(o) /\ Pkg(Chrome) \notin o.facts => ValidateAURLocalPin(AURPin(o.policy, Chrome))
           /\ \A s \in BootstrapSteps(o) :
                 /\ s.deps \subseteq IDs(BootstrapSteps(o))
                 /\ (IsNothing(s) /\ s.deps = {}) \/ (Waits(s, Present(o)) /\ (IsNothing(s) \/ IsBooting(s, o)))
           /\ Boots(o) => /\ HasBooting(BootstrapSteps(o), o)
                          /\ \A id \in Present(o) :
                                \E s \in BootstrapSteps(o) : s.id = id /\ Waits(s, Present(o))
<1> DEFINE base == BootstrapBase(o)
           present == Present(o)
           f(t) == [t EXCEPT !.deps = @ \cup BootstrapDependencies(present)[t.id]]
           blocked == BlockedSteps(o.policy, o.observed, "bootstrap", BootstrapCapabilities)
           steps == BootstrapSteps(o)
<1>1. CASE ~Boots(o)
  <2>1. steps = {}
    BY <1>1 DEF Boots, Bootstrap, Valid, BootstrapSteps
  <2> QED BY <1>1, <2>1
<1>2. CASE Boots(o)
  <2>1. /\ steps = {f(t) : t \in base} \cup blocked
        /\ Pkg(Chrome) \notin o.facts => ValidateAURLocalPin(AURPin(o.policy, Chrome))
    <3> DEFINE authorization == {c \in BootstrapCapabilities : Ready(o.policy, o.observed, c)}
    <3>1. BuildBootstrapModule(o.policy, o.facts, authorization) = {f(t) : t \in base}
      BY DEF BuildBootstrapModule, BootstrapBase, Present
    <3>2. /\ Bootstrap(o.policy, o.observed, o.facts)
               = Valid(BuildBootstrapModule(o.policy, o.facts, authorization) \cup blocked)
          /\ RequestInput(o.policy, o.observed, o.facts)
      BY <1>2 DEF Boots, Bootstrap, Invalid
    <3> HIDE DEF base, present, f, blocked, authorization
    <3>3. steps = {f(t) : t \in base} \cup blocked
      BY <3>1, <3>2 DEF Valid, BootstrapSteps
    <3> QED BY <3>2, <3>3 DEF RequestInput
  <2>2. ASSUME NEW t \in base PROVE Waiting(t, f(t)) /\ f(t).deps = t.deps \cup BootstrapDependencies(present)[t.id]
    <3>1. f(t) \in steps
      BY <2>1
    <3>2. Fits(f(t), "bootstrap", Grants(o.policy, o.observed))
      BY <3>1, BootstrapFits DEF Fit, BootstrapSteps
    <3>3. DOMAIN t = {"id", "module", "deps", "disp", "want", "drop", "gives", "need", "loses", "inverse"}
      BY <3>2 DEF Fits
    <3> QED BY <3>3 DEF Waiting
  <2>3. ASSUME NEW t \in base PROVE f(t) \in steps /\ f(t).id = t.id /\ Waits(f(t), present)
    <3>1. t.id \in present /\ t.deps \subseteq present /\ f(t).id = t.id
      BY <2>2, BootstrapBaseIs DEF Present, IDs, Waiting
    <3>2. f(t).deps = t.deps \cup BootstrapDependencies(present)[t.id]
      BY <2>2
    <3>3. f(t) \in steps
      BY <2>1
    <3> HIDE DEF f, steps, present
    <3> QED BY <3>1, <3>2, <3>3, BootstrapDependenciesAre
  <2> HIDE DEF f, steps, base
  <2>4. \A s \in blocked : IsNothing(s) /\ s.deps = {}
    <3>1. \A c : BlockedPolicyStep("bootstrap", c).deps = {}
      BY DEF BlockedPolicyStep, Step
    <3> QED BY <3>1, BlockedIsNothing DEF BlockedSteps
  <2>5. present \subseteq IDs(steps)
    BY <2>3 DEF Present, IDs, base
  <2>6. ASSUME NEW s \in steps
        PROVE  /\ s.deps \subseteq IDs(steps)
               /\ (IsNothing(s) /\ s.deps = {}) \/ (Waits(s, present) /\ (IsNothing(s) \/ IsBooting(s, o)))
    <3>1. CASE s \in blocked
      BY <2>4, <3>1
    <3>2. CASE \E t \in base : s = f(t)
      <4>1. PICK t \in base : s = f(t)
        BY <3>2
      <4>2. Waits(s, present) /\ s.deps \subseteq IDs(steps)
        BY <2>3, <2>5, <4>1 DEF Waits
      <4>3. IsNothing(t) \/ IsBooting(t, o)
        BY BootstrapBaseIs DEF base
      <4> QED BY <2>2, <4>1, <4>2, <4>3, WaitingIsTheSame
    <3> QED BY <2>1, <3>1, <3>2
  <2>7. HasBooting(base, o)
    BY BootstrapBaseIs DEF base
  <2>8. \A t \in base : f(t) \in steps /\ Waiting(t, f(t)) /\ f(t).disp = t.disp
    BY <2>2, <2>3 DEF Waiting
  <2>9. HasBooting(steps, o)
    <3> DEFINE pin == AURPin(o.policy, Chrome)
    <3> HIDE DEF pin
    <3>1. /\ (\E t \in base : IsBootInstall(t, o) /\ t.disp # "blocked")
               => \E s \in steps : IsBootInstall(s, o) /\ s.disp # "blocked"
          /\ (\E t \in base : IsBootRemove(t, o) /\ t.disp # "blocked")
               => \E s \in steps : IsBootRemove(s, o) /\ s.disp # "blocked"
          /\ (\E t \in base : IsBootMarks(t, o) /\ t.disp # "blocked")
               => \E s \in steps : IsBootMarks(s, o) /\ s.disp # "blocked"
      BY <2>8, WaitingIsTheSame
    <3>2. /\ (\E t \in base : IsHook(t) /\ t.disp # "blocked") => \E s \in steps : IsHook(s) /\ s.disp # "blocked"
          /\ (\E t \in base : IsSplash(t) /\ t.disp # "blocked") => \E s \in steps : IsSplash(s) /\ s.disp # "blocked"
          /\ (\E t \in base : IsMenu(t) /\ t.disp # "blocked") => \E s \in steps : IsMenu(s) /\ s.disp # "blocked"
          /\ (\E t \in base : IsZsh(t) /\ t.disp # "blocked") => \E s \in steps : IsZsh(s) /\ s.disp # "blocked"
      BY <2>8, WaitingIsTheSame
    <3>3. HasSource(base, "bootstrap.chrome", Chrome, pin) => HasSource(steps, "bootstrap.chrome", Chrome, pin)
      BY <2>8, WaitingIsTheSame DEF HasSource
    <3>4. \A u : (\E t \in base : IsBootService(t, u) /\ t.disp # "blocked")
                   => \E s \in steps : IsBootService(s, u) /\ s.disp # "blocked"
      BY <2>8, WaitingIsTheSame
    <3> QED BY <2>7, <3>1, <3>2, <3>3, <3>4 DEF HasBooting, pin
  <2>10. ASSUME NEW id \in present PROVE \E s \in steps : s.id = id /\ Waits(s, present)
    BY <2>3 DEF Present, IDs, base
  <2> QED BY <1>2, <2>1, <2>6, <2>9, <2>10 DEF steps
<1> QED BY <1>1, <1>2

\* What bootstrap's steps want, leave and ask for is clear.
LEMMA BootstrapNames ==
    /\ \A f \in {HookRemoved, ImageBuilt, SplashRemoved, MenuPublished} : f # MenuStaged
    /\ \A o : /\ \A f \in {HookRemoved, ImageBuilt, SplashRemoved, MenuPublished} : Plain(o, f)
              /\ Clear(o, Generator)
              /\ \A p : Plain(o, Explicit(p))
              /\ \A p \in Wanted \cup {Chrome} \cup Range(ManagedService) : Clear(o, Pkg(p))
              /\ \A u \in DOMAIN ManagedService : Plain(o, Service(u))
    /\ Chrome \notin Unwanted \cup {"paru"} /\ "paru" \notin Unwanted
<1>1. \A f \in {HookRemoved, ImageBuilt, SplashRemoved, MenuPublished} : f # MenuStaged
  <2>1. /\ HookRemoved[2] = "mkinitcpio.conf" /\ ImageBuilt[2] = "initramfs" /\ SplashRemoved[2] = "grub"
        /\ MenuPublished[2] = "grub.cfg" /\ MenuStaged[2] = "staged menu"
    BY DEF HookRemoved, ImageBuilt, SplashRemoved, MenuPublished, MenuStaged
  <2> QED BY <2>1
<1>2. {HookRemoved, ImageBuilt, SplashRemoved, MenuPublished} \subseteq BootFacts
  BY DEF BootFacts
<1>3. \A f \in BootFacts : f[1] \notin {"stock", "package"}
  BY FactsDiffer
<1>4. \A o : \A f \in {HookRemoved, ImageBuilt, SplashRemoved, MenuPublished} : Plain(o, f)
  BY <1>1, <1>2, <1>3, WhatIsClear DEF Plain
<1>5. \A o : Clear(o, Generator) /\ \A p : Plain(o, Explicit(p))
  BY WhatIsClear, FactsDiffer DEF Plain
<1>6. Chrome \notin Unwanted \cup {"paru"} /\ "paru" \notin Unwanted
  BY ConvergeAssumption
<1>7. \A o : \A p \in Wanted \cup {Chrome} \cup Range(ManagedService) : Clear(o, Pkg(p))
  <2>1. \A p \in Wanted \cup {Chrome} \cup Range(ManagedService) : p \notin Unwanted
    BY ConvergeAssumption
  <2> QED BY <2>1, WhatIsClear
<1>8. \A o : \A u \in DOMAIN ManagedService : Plain(o, Service(u))
  <2>1. \A u \in DOMAIN ManagedService : u # "vicinae"
    BY ConvergeAssumption
  <2> QED BY <2>1, WhatIsClear, FactsDiffer DEF Plain
<1> QED BY <1>1, <1>4, <1>5, <1>6, <1>7, <1>8

\* Which packages are missing, removed and marked.
LEMMA PackageSets ==
    ASSUME NEW o
    PROVE  /\ MissingWanted(o) \subseteq Wanted /\ RemovalDelta(o.facts) \subseteq Unwanted
           /\ \A p \in RemovalDelta(o.facts) : Pkg(p) \in o.facts
           /\ \A p \in Unneeded(o.facts, RemovalDelta(o.facts)) : Pkg(p) \in o.facts
           /\ Marked(o) \subseteq Wanted \cup {Chrome}
           /\ \A p \in Marked(o) : \/ Pkg(p) \in o.facts /\ Explicit(p) \notin o.facts
                                   \/ Updates(o) /\ p \in MissingWanted(o)
           /\ \A p \in Wanted \cup {Chrome} : Pkg(p) \in o.facts /\ p \notin Marked(o) => Explicit(p) \in o.facts
           /\ \A p \in Wanted : p \notin MissingWanted(o) => Pkg(p) \in o.facts
<1>1. MissingWanted(o) \subseteq Wanted /\ \A p \in Wanted : p \notin MissingWanted(o) => Pkg(p) \in o.facts
  BY DEF MissingWanted, InstalledIndex
<1>2. RemovalDelta(o.facts) \subseteq Unwanted /\ \A p \in RemovalDelta(o.facts) : Pkg(p) \in o.facts
  BY DEF RemovalDelta, InstalledIndex
<1>10. \A p \in Unneeded(o.facts, RemovalDelta(o.facts)) : Pkg(p) \in o.facts
  BY DEF Unneeded, InstalledIndex
<1> DEFINE listed == Wanted \cup {Chrome}
           missing == When(Updates(o), MissingWanted(o))
           unmarked == {p \in InstalledIndex(o.facts, listed) : Explicit(p) \notin o.facts}
<1>3. Marked(o) = missing \cup unmarked
  BY DEF Marked, ExplicitDelta
<1>4. missing \subseteq Wanted /\ \A p \in missing : Updates(o) /\ p \in MissingWanted(o)
  BY <1>1 DEF When
<1>5. unmarked \subseteq listed /\ \A p \in unmarked : Pkg(p) \in o.facts /\ Explicit(p) \notin o.facts
  BY DEF InstalledIndex
<1>6. \A p \in listed : Pkg(p) \in o.facts /\ p \notin unmarked => Explicit(p) \in o.facts
  BY DEF InstalledIndex
<1> HIDE DEF missing, unmarked
<1>7. Marked(o) \subseteq listed
  BY <1>3, <1>4, <1>5
<1>8. \A p \in Marked(o) : \/ Pkg(p) \in o.facts /\ Explicit(p) \notin o.facts
                           \/ Updates(o) /\ p \in MissingWanted(o)
  BY <1>3, <1>4, <1>5
<1>9. \A p \in listed : Pkg(p) \in o.facts /\ p \notin Marked(o) => Explicit(p) \in o.facts
  BY <1>3, <1>6
<1> QED BY <1>1, <1>2, <1>7, <1>8, <1>9, <1>10

\* Each step of bootstrap is tidy.
LEMMA BootstrapIsTidy ==
    ASSUME NEW o, Bootstrap(o.policy, o.observed, o.facts).valid
    PROVE  \A s \in BootstrapSteps(o) : Tidy(o, s)
<1> SUFFICES ASSUME NEW s \in BootstrapSteps(o) PROVE Tidy(o, s)
  OBVIOUS
<1>1. IsNothing(s) \/ IsBooting(s, o)
  BY BootstrapStepsAre
<1>2. Boots(o)
  BY BootstrapStepsAre
<1>3. \A p : Pkg(p)[1] = "package" /\ Explicit(p)[1] = "explicit"
  BY FactsDiffer
<1>12. s.module = "bootstrap"
  BY BootstrapFits DEF BootstrapSteps, Fit, Fits
<1>4. CASE IsBootInstall(s, o) /\ s.disp # "blocked"
  <2> DEFINE missing == MissingWanted(o)
  <2>1. s.id = "bootstrap.packages.install" /\ s.want = {Pkg(p) : p \in missing} /\ s.drop = {} /\ s.need = {}
        /\ s.gives = {Pkg(p) : p \in missing} \cup {Explicit(p) : p \in missing}
    BY <1>4 DEF IsBootInstall, Is, PackageInstall
  <2>6. s.loses = {}
    BY <1>4 DEF IsBootInstall, Is
  <2>2. missing \subseteq Wanted
    BY PackageSets
  <2> HIDE DEF missing
  <2>3. \A f \in s.gives : (\E p \in missing : f = Pkg(p)) \/ \E p \in missing : f = Explicit(p)
    BY <2>1
  <2>4. \A p \in missing : Clear(o, Pkg(p)) /\ Clear(o, Explicit(p))
    BY <2>2, BootstrapNames DEF Plain
  <2>5. ASSUME NEW f \in s.gives
        PROVE  /\ Clear(o, f) /\ f[1] # "stock" /\ (f = Pkg("paru") => f \in s.want)
               /\ \A p : f = Pkg(p) => Explicit(p) \in s.gives
    <3>1. CASE \E p \in missing : f = Pkg(p)
      <4>1. PICK p \in missing : f = Pkg(p)
        BY <3>1
      <4>2. \A q : f = Pkg(q) => q = p
        BY <4>1, FactsDiffer
      <4>3. Clear(o, f) /\ f[1] # "stock"
        BY <1>3, <2>4, <4>1
      <4>4. f \in s.want /\ Explicit(p) \in s.gives
        BY <2>1, <4>1
      <4> QED BY <4>2, <4>3, <4>4
    <3>2. CASE \E p \in missing : f = Explicit(p)
      BY <1>3, <2>4, <3>2
    <3> QED BY <2>3, <3>1, <3>2
  <2>7. DropsOwn(o, s) /\ LeavesClear(o, s)
    BY <1>4, <1>12, <2>1, <2>5 DEF DropsOwn, LeavesClear, Clear
  <2>8. s.want \subseteq s.gives
    BY <2>1
  <2>9. AsksClear(o, s) /\ Effective(s)
    BY <2>1, <2>8 DEF AsksClear, Asked, Verifies, Effective
  <2>10. ZshLines \notin s.want \cup s.gives \cup s.drop
    BY <2>1, <2>5, <2>8 DEF Clear
  <2> QED BY <2>5, <2>6, <2>7, <2>8, <2>9, <2>10 DEF Tidy, Clear
<1>5. CASE IsBootRemove(s, o)
  <2> DEFINE removed == RemovalDelta(o.facts)
  <2>1. s.id = "bootstrap.packages.remove" /\ s.want = {} /\ s.gives = {}
        /\ s.drop = {Pkg(p) : p \in removed} /\ s.need = {Pkg(p) : p \in removed}
    BY <1>5 DEF IsBootRemove, PackageRemove
  <2>2. removed \subseteq Unwanted /\ \A p \in s.loses : Pkg(p) \in o.facts
    BY <1>5, PackageSets DEF IsBootRemove
  <2> HIDE DEF removed
  <2>3. \A f \in s.drop : Gone(f) /\ ~Against(o, f) /\ f # MenuStaged
    <3>1. MenuStaged[1] = "boot"
      BY FactsDiffer DEF BootFacts
    <3>2. \A p : ~Against(o, Pkg(p)) /\ Pkg(p) # MenuStaged
      BY <1>3, <3>1, WhatIsClear
    <3> QED BY <2>1, <2>2, <3>2 DEF Gone
  <2>4. Asked(s) = s.drop
    BY <2>1 DEF Asked, Verifies
  <2>5. ZshLines \notin s.want \cup s.gives \cup s.drop
    BY <1>3, <2>1, ZshIsApart
  <2>6. TakesAlong(o, s)
    BY <1>12, <2>1, <2>2 DEF TakesAlong
  <2>7. DropsOwn(o, s) /\ LeavesClear(o, s) /\ Effective(s)
    BY <2>1, <2>3 DEF DropsOwn, LeavesClear, Effective
  <2>8. AsksClear(o, s)
    BY <2>1, <2>3, <2>4, <2>5 DEF AsksClear
  <2> QED BY <2>1, <2>5, <2>6, <2>7, <2>8 DEF Tidy
<1>6. CASE IsBootMarks(s, o)
  <2> DEFINE marked == Marked(o)
  <2>1. Is(s, PackageMarks, {}, {Explicit(p) : p \in marked}, {}, {Pkg(p) : p \in marked},
           {Explicit(p) : p \in marked})
    BY <1>6 DEF IsBootMarks
  <2>2. \A p \in marked : Clear(o, Pkg(p)) /\ Plain(o, Explicit(p))
    BY PackageSets, BootstrapNames
  <2> HIDE DEF marked
  <2>3. (\A f \in {Explicit(p) : p \in marked} : Plain(o, f)) /\ \A f \in {Pkg(p) : p \in marked} : Clear(o, f)
    BY <2>2
  <2> QED BY <2>1, <2>3, RequestIsTidy
<1>7. CASE IsHook(s) \/ IsImage(s) \/ IsSplash(s) \/ IsZsh(s)
  <2>1. \A f : Plain(o, f) => Clear(o, f)
    BY DEF Plain
  <2>2. CASE IsHook(s)
    BY <2>2, BootstrapNames, RequestIsTidy DEF IsHook
  <2>3. CASE IsImage(s)
    BY <2>1, <2>3, BootstrapNames, RequestIsTidy DEF IsImage
  <2>4. CASE IsSplash(s)
    BY <2>4, BootstrapNames, RequestIsTidy DEF IsSplash
  <2>5. CASE IsZsh(s)
    <3>1. WritesZsh(o, s)
      BY <1>12, <2>5 DEF IsZsh, Is, WritesZsh
    <3> QED BY <3>1, ZshIsTidy
  <2> QED BY <1>7, <2>2, <2>3, <2>4, <2>5
<1>8. CASE IsMenu(s) \/ IsPublish(s)
  <2>1. MenuStaged \in BootFacts /\ MenuStaged # Pkg("paru") /\ MenuPublished # Pkg("paru")
        /\ MenuStaged[1] = "boot" /\ MenuPublished[1] = "boot"
        /\ \A p : MenuStaged # Pkg(p) /\ MenuPublished # Pkg(p)
    BY <1>3, FactsDiffer DEF BootFacts
  <2>2. /\ ~Against(o, MenuStaged) /\ ~Gone(MenuStaged) /\ Clear(o, MenuPublished)
        /\ Clear(o, SplashRemoved) /\ Clear(o, Generator)
    BY <2>1, WhatIsClear, BootstrapNames DEF Plain
  <2>3. CASE IsMenu(s)
    <3>1. s.id = "bootstrap.boot.grub-generate" /\ s.want = {MenuStaged} /\ s.drop = {}
          /\ s.need = {SplashRemoved, Generator} /\ s.gives = {MenuStaged}
      BY <2>3 DEF IsMenu, Is
    <3>2. Asked(s) = s.need /\ Effective(s) /\ DropsOwn(o, s)
      BY <3>1 DEF Asked, Verifies, Effective, DropsOwn
    <3>3. LeavesClear(o, s) /\ AsksClear(o, s)
      BY <1>12, <2>1, <2>2, <3>1, <3>2 DEF LeavesClear, AsksClear, Clear
    <3>4. s.loses = {} /\ ZshLines \notin s.want \cup s.gives \cup s.drop
      BY <2>3, <3>1, ZshIsApart DEF IsMenu, Is
    <3> QED BY <2>2, <3>1, <3>2, <3>3, <3>4 DEF Tidy
  <2>4. CASE IsPublish(s)
    <3>1. s.id = "bootstrap.boot.grub-publish" /\ s.want = {MenuPublished} /\ s.drop = {MenuStaged}
          /\ s.need = {MenuStaged} /\ s.gives = {MenuPublished}
      BY <2>4 DEF IsPublish, Is
    <3>2. MenuPublished # MenuStaged
      BY BootstrapNames
    <3>3. Asked(s) = s.need /\ Effective(s) /\ DropsOwn(o, s)
      BY <1>12, <3>1, <3>2 DEF Asked, Verifies, Effective, DropsOwn
    <3>4. LeavesClear(o, s) /\ AsksClear(o, s)
      BY <2>1, <2>2, <3>1, <3>3, ZshIsApart DEF LeavesClear, AsksClear, Clear
    <3>5. s.loses = {} /\ ZshLines \notin s.want \cup s.gives \cup s.drop
      BY <2>2, <2>4, <3>1, ZshIsApart DEF IsPublish, Is, Clear
    <3> QED BY <2>2, <3>1, <3>3, <3>4, <3>5 DEF Tidy, Clear
  <2> QED BY <1>8, <2>3, <2>4
<1>9. CASE \E u \in ServiceRequests(o.facts) : IsBootService(s, u)
  <2>1. PICK u \in ServiceRequests(o.facts) : IsBootService(s, u)
    BY <1>9
  <2>2. u \in DOMAIN ManagedService /\ ManagedService[u] \in Range(ManagedService)
    BY DEF ServiceRequests, Range
  <2>3. (\A f \in {Service(u)} : Plain(o, f)) /\ \A f \in {Pkg(ManagedService[u])} : Clear(o, f)
    BY <2>2, BootstrapNames
  <2> QED BY <2>1, <2>3, RequestIsTidy DEF IsBootService
<1>10. CASE Pkg(Chrome) \notin o.facts /\ IsSource(s, "bootstrap.chrome", Chrome, AURPin(o.policy, Chrome))
  BY <1>2, <1>10, BootstrapStepsAre, BootstrapNames, SourceIsTidy
<1>11. CASE IsNothing(s)
  BY <1>11, NothingIsTidy
<1> QED BY <1>1, <1>4, <1>5, <1>6, <1>7, <1>8, <1>9, <1>10, <1>11 DEF IsBooting

\* A step whose command has an effect of its own asks for what it needs.
LEMMA AsksForItsNeed ==
    \A s, id, deps, want, drop, need, gives :
        Is(s, id, deps, want, drop, need, gives) /\ want \subseteq gives => Asked(s) = need
BY DEF Is, Asked, Verifies

\* Packages are installed before they are marked and before Chrome is
\* fetched.
LEMMA BootstrapOrder ==
    ASSUME NEW o, Bootstrap(o.policy, o.observed, o.facts).valid, Boots(o),
           NEW at, Follows(at, BootstrapSteps(o)), PackageInstall \in Present(o)
    PROVE  \A s \in BootstrapSteps(o) :
              s.id \in {PackageMarks, ChromeFetch} /\ Waits(s, Present(o)) => at[PackageInstall] < at[s.id]
<1> DEFINE steps == BootstrapSteps(o)
           present == Present(o)
           last == LastPackage(present)
           before == LastBefore(present)
<1>1. \A id \in present : \E t \in steps : t.id = id /\ Waits(t, present)
  BY BootstrapStepsAre
<1>2. ASSUME NEW s \in steps, NEW id \in present, id \in s.deps PROVE at[id] < at[s.id] /\ at[s.id] \in Nat
  <2>1. PICK t \in steps : t.id = id
    BY <1>1
  <2> QED BY <1>2, <2>1 DEF Follows
<1>3. \A id \in present : at[id] \in Nat
  BY <1>1 DEF Follows
<1> HIDE DEF steps, present
<1>4. before \in present /\ (before = PackageInstall \/ at[PackageInstall] < at[before])
  <2>1. CASE PackageRemove \in present
    <3>1. PICK r \in steps : r.id = PackageRemove /\ Waits(r, present)
      BY <1>1, <2>1
    <3>2. PackageInstall \in r.deps
      BY <3>1 DEF Waits, WaitsFor, present
    <3> QED BY <1>2, <2>1, <3>1, <3>2 DEF LastBefore, present
  <2>2. CASE PackageRemove \notin present
    BY <2>2 DEF LastBefore, present
  <2> QED BY <2>1, <2>2
<1> HIDE DEF before
<1>5. ASSUME NEW s \in steps, Waits(s, present), s.id = PackageMarks PROVE at[PackageInstall] < at[s.id]
  <2>1. before \in s.deps
    BY <1>4, <1>5 DEF Waits, WaitsFor, before
  <2>2. at[before] < at[s.id]
    BY <1>2, <1>4, <2>1
  <2>3. at[PackageInstall] \in Nat /\ at[before] \in Nat /\ at[s.id] \in Nat
    BY <1>2, <1>3, <1>4, <2>1 DEF present
  <2> QED BY <1>4, <2>2, <2>3
<1>6. last \in present /\ (last = PackageInstall \/ at[PackageInstall] < at[last])
  <2>1. CASE PackageMarks \in present
    <3>1. PICK m \in steps : m.id = PackageMarks /\ Waits(m, present)
      BY <1>1, <2>1
    <3> QED BY <1>5, <2>1, <3>1 DEF LastPackage
  <2>2. CASE PackageMarks \notin present
    BY <1>4, <2>2 DEF LastPackage, before
  <2> QED BY <2>1, <2>2
<1> HIDE DEF last
<1>7. ASSUME NEW s \in steps, Waits(s, present), s.id = ChromeFetch PROVE at[PackageInstall] < at[s.id]
  <2>1. last \in s.deps
    BY <1>6, <1>7 DEF Waits, WaitsFor, last
  <2>2. at[last] < at[s.id]
    BY <1>2, <1>6, <2>1
  <2>3. at[PackageInstall] \in Nat /\ at[last] \in Nat /\ at[s.id] \in Nat
    BY <1>2, <1>3, <1>6, <2>1 DEF present
  <2> QED BY <1>6, <2>2, <2>3
<1> QED BY <1>5, <1>7 DEF steps, present

\* Of what bootstrap asks for, the packages it installs come first.
LEMMA BootstrapSupplies ==
    ASSUME NEW o, Bootstrap(o.policy, o.observed, o.facts).valid,
           NEW at, Follows(at, BootstrapSteps(o))
    PROVE  /\ Supplies(at, BootstrapSteps(o), o.facts)
           /\ \A s, t \in BootstrapSteps(o) :
                 Pkg("paru") \in Asked(s) \ o.facts /\ t.id = PackageInstall /\ t.want # {}
                   => at[t.id] < at[s.id]
<1> DEFINE steps == BootstrapSteps(o)
           present == Present(o)
           pin == AURPin(o.policy, Chrome)
<1> SUFFICES ASSUME NEW s \in steps, NEW f \in Asked(s), f \notin o.facts
             PROVE  /\ f = Pkg("paru") => \A t \in steps : t.id = PackageInstall /\ t.want # {} => at[t.id] < at[s.id]
                    /\ s.disp = "blocked" \/ f = Pkg("paru") \/ Supplied(at, steps, s, f, o.facts)
  BY DEF Supplies, Supplied
<1>1. Boots(o) /\ ~IsNothing(s)
  BY BootstrapStepsAre, NothingIsTidy
<1>2. IsBooting(s, o) /\ Waits(s, present)
  BY <1>1, BootstrapStepsAre
<1>3. HasBooting(steps, o) /\ \A t \in steps : t.want # {} => Waits(t, present)
  BY <1>1, BootstrapStepsAre DEF IsNothing
<1>4. \A t \in steps : Waits(t, present) => t.id \in present /\ at[t.id] \in Nat
  BY DEF Waits, Follows
<1>5. \A x, y : Pkg(x)[1] = "package" /\ Fetched(x, y)[1] = "fetched" /\ Tree(x, y)[1] = "tree"
                /\ Patch(x, y)[1] = "patch"
  BY FactsDiffer
<1>6. SplashRemoved[1] = "boot" /\ HookRemoved[1] = "boot" /\ MenuStaged[1] = "boot" /\ Generator[1] = "tool"
  BY FactsDiffer DEF BootFacts
<1>7. \A t \in steps : t.id = PackageInstall /\ t.want # {} => PackageInstall \in present
  BY <1>3, <1>4
<1> HIDE DEF steps, present, pin
<1>8. CASE IsBootInstall(s, o) \/ IsHook(s) \/ IsSplash(s) \/ IsZsh(s)
  <2>1. Asked(s) = {}
    BY <1>8, AsksForItsNeed DEF IsBootInstall, IsHook, IsSplash, IsZsh
  <2> QED BY <2>1
<1>9. CASE IsBootRemove(s, o)
  <2>1. Asked(s) = {Pkg(p) : p \in RemovalDelta(o.facts)}
    BY <1>9 DEF IsBootRemove, Asked, Verifies
  <2> QED BY <2>1, PackageSets
<1>10. CASE IsBootMarks(s, o)
  <2>1. Asked(s) = {Pkg(p) : p \in Marked(o)} /\ s.id = PackageMarks
    BY <1>10, AsksForItsNeed DEF IsBootMarks, Is
  <2>2. PICK p \in Marked(o) : f = Pkg(p)
    BY <2>1
  <2>3. Updates(o) /\ p \in MissingWanted(o)
    BY <2>2, PackageSets
  <2>4. PackageInstall \in present => at[PackageInstall] < at[s.id]
    BY <1>1, <1>2, <2>1, BootstrapOrder DEF steps, present
  <2>5. PICK t \in steps : IsBootInstall(t, o) /\ t.disp # "blocked"
    BY <1>3, <2>3 DEF HasBooting
  <2>6. t.id = PackageInstall /\ f \in t.want
    BY <2>2, <2>3, <2>5 DEF IsBootInstall, Is
  <2> QED BY <1>7, <2>4, <2>5, <2>6 DEF Supplied
<1>11. CASE IsImage(s) /\ Edits(o) /\ HookRemoved \notin o.facts
  <2>1. Asked(s) = {HookRemoved} /\ s.id = "bootstrap.boot.mkinitcpio"
    BY <1>11, AsksForItsNeed DEF IsImage, Is
  <2>2. PICK t \in steps : IsHook(t) /\ t.disp # "blocked"
    BY <1>3, <1>11 DEF HasBooting
  <2>3. t.id = "bootstrap.boot.plymouth-edit" /\ t.want = {HookRemoved}
    BY <2>2 DEF IsHook, Is
  <2>4. t.id \in s.deps
    BY <1>2, <1>3, <1>4, <2>1, <2>3 DEF Waits, WaitsFor
  <2> QED BY <1>5, <1>6, <2>1, <2>2, <2>3, <2>4 DEF Supplied, Follows, steps
<1>12. CASE IsMenu(s) /\ Edits(o) /\ SplashRemoved \notin o.facts /\ Generator \in o.facts
  <2>1. Asked(s) = {SplashRemoved, Generator} /\ s.id = "bootstrap.boot.grub-generate"
    BY <1>12, AsksForItsNeed DEF IsMenu, Is
  <2>2. PICK t \in steps : IsSplash(t) /\ t.disp # "blocked"
    BY <1>3, <1>12 DEF HasBooting
  <2>3. t.id = "bootstrap.boot.grub-edit" /\ t.want = {SplashRemoved}
    BY <2>2 DEF IsSplash, Is
  <2>4. t.id \in s.deps
    BY <1>2, <1>3, <1>4, <2>1, <2>3 DEF Waits, WaitsFor
  <2>5. f = SplashRemoved
    BY <1>12, <2>1
  <2> QED BY <1>5, <1>6, <2>2, <2>3, <2>4, <2>5 DEF Supplied, Follows, steps
<1>13. CASE IsPublish(s) /\ Edits(o) /\ SplashRemoved \notin o.facts /\ (Generator \notin o.facts => s.disp = "blocked")
  <2>1. Asked(s) = {MenuStaged} /\ s.id = "bootstrap.boot.grub-publish"
    BY <1>13, AsksForItsNeed DEF IsPublish, Is
  <2>2. CASE Generator \in o.facts
    <3>1. PICK t \in steps : IsMenu(t) /\ t.disp # "blocked"
      BY <1>3, <1>13, <2>2 DEF HasBooting
    <3>2. t.id = "bootstrap.boot.grub-generate" /\ t.want = {MenuStaged}
      BY <3>1 DEF IsMenu, Is
    <3>3. t.id \in s.deps
      BY <1>2, <1>3, <1>4, <2>1, <3>2 DEF Waits, WaitsFor
    <3> QED BY <1>5, <1>6, <2>1, <3>1, <3>2, <3>3 DEF Supplied, Follows, steps
  <2>3. CASE Generator \notin o.facts
    BY <1>5, <1>6, <1>13, <2>1, <2>3
  <2> QED BY <2>2, <2>3
<1>14. CASE \E u \in ServiceRequests(o.facts) : IsBootService(s, u)
  <2>1. PICK u \in ServiceRequests(o.facts) : IsBootService(s, u)
    BY <1>14
  <2>2. Asked(s) = {Pkg(ManagedService[u])} /\ Pkg(ManagedService[u]) \in o.facts
    BY <2>1, AsksForItsNeed DEF IsBootService, ServiceRequests
  <2> QED BY <2>2
<1>15. CASE Pkg(Chrome) \notin o.facts /\ IsSource(s, "bootstrap.chrome", Chrome, AURPin(o.policy, Chrome))
  <2>1. HasSource(steps, "bootstrap.chrome", Chrome, AURPin(o.policy, Chrome))
    BY <1>3, <1>15 DEF HasBooting
  <2>2. f = Pkg("paru") \/ Supplied(at, steps, s, f, o.facts)
    <3> DEFINE c == AURPin(o.policy, Chrome)
    <3> HIDE DEF c
    <3> QED BY <1>15, <2>1, SourceSupplies DEF steps, c
  <2>3. ASSUME f = Pkg("paru"), NEW t \in steps, t.id = PackageInstall, t.want # {} PROVE at[t.id] < at[s.id]
    <3> DEFINE c == AURPin(o.policy, Chrome)
               prefix == "bootstrap.chrome"
    <3> HIDE DEF c
    <3>1. PICK s1 \in steps : IsFetch(s1, prefix, Chrome, c)
      BY <2>1 DEF HasSource, c
    <3>2. PICK s2 \in steps : IsCheckout(s2, prefix, Chrome, c)
      BY <2>1 DEF HasSource, c
    <3>3. PICK s3 \in steps : IsWrite(s3, prefix, Chrome, c)
      BY <2>1 DEF HasSource, c
    <3>4. PICK s4 \in steps : IsVerify(s4, prefix, Chrome, c)
      BY <2>1 DEF HasSource, c
    <3>5. IsInstall(s, prefix, Chrome, c)
      <4>1. IsFetch(s, prefix, Chrome, c) => f \notin Asked(s)
        BY AsksForItsNeed DEF IsFetch
      <4>2. IsCheckout(s, prefix, Chrome, c) \/ IsWrite(s, prefix, Chrome, c) => f # Pkg("paru")
        BY <1>5 DEF IsCheckout, IsWrite, Is, Asked, Verifies
      <4>3. IsVerify(s, prefix, Chrome, c) => f # Pkg("paru")
        BY <1>5 DEF IsVerify, Is, Asked, Verifies
      <4> QED BY <1>15, <2>3, <4>1, <4>2, <4>3 DEF IsSource, c
    <3>6. at[s1.id] < at[s2.id] /\ at[s2.id] < at[s3.id] /\ at[s3.id] < at[s4.id] /\ at[s4.id] < at[s.id]
      <4>1. s1.id \in s2.deps /\ s2.id \in s3.deps /\ s3.id \in s4.deps /\ s4.id \in s.deps
        BY <3>1, <3>2, <3>3, <3>4, <3>5 DEF IsFetch, IsCheckout, IsWrite, IsVerify, IsInstall, Is
      <4> QED BY <4>1 DEF Follows, steps
    <3>7. s1.id = ChromeFetch /\ s1.want # {}
      BY <3>1 DEF IsFetch, Is, ChromeFetch
    <3>9. at[PackageInstall] < at[s1.id]
      BY <1>1, <1>3, <1>7, <2>3, <3>1, <3>7, BootstrapOrder DEF steps, present
    <3>10. at[PackageInstall] \in Nat /\ at[s1.id] \in Nat /\ at[s2.id] \in Nat /\ at[s3.id] \in Nat
           /\ at[s4.id] \in Nat /\ at[s.id] \in Nat
      BY <2>3, <3>1, <3>2, <3>3, <3>4 DEF Follows, steps
    <3> QED BY <2>3, <3>6, <3>9, <3>10
  <2> QED BY <2>2, <2>3
<1> QED BY <1>2, <1>8, <1>9, <1>10, <1>11, <1>12, <1>13, <1>14, <1>15 DEF IsBooting

\* A complete run settles bootstrap.
LEMMA BootstrapSettles ==
    ASSUME NEW o, Bootstrap(o.policy, o.observed, o.facts).valid, NEW after,
           Finished(o, BootstrapSteps(o), after)
    PROVE  BootstrapSettled(Then(o, after))
<1> DEFINE steps == BootstrapSteps(o)
<1>1. /\ Boots(Then(o, after)) <=> Boots(o)
      /\ Updates(Then(o, after)) <=> Updates(o)
      /\ Removes(Then(o, after)) <=> Removes(o)
      /\ Edits(Then(o, after)) <=> Edits(o)
      /\ Shared(Then(o, after)) <=> Shared(o)
      /\ Then(o, after).facts = after
  BY DEF Boots, Updates, Removes, Edits, Shared, OwnsZsh, Then, Inputs
<1> SUFFICES ASSUME Boots(o)
             PROVE  /\ Updates(o) => \A p \in Wanted : Pkg(p) \in after
                    /\ Removes(o) => \A p \in Unwanted \ LTS : Pkg(p) \notin after
                    /\ \A p \in Wanted \cup {Chrome} : Pkg(p) \in after => Explicit(p) \in after
                    /\ Edits(o) => HookRemoved \in after /\ SplashRemoved \in after
                    /\ Pkg(Chrome) \in after /\ (~Shared(o) => ZshLines \in after)
  BY <1>1 DEF BootstrapSettled
<1>2. HasBooting(steps, o)
  BY BootstrapStepsAre
<1>3. \A s \in steps : s.disp # "blocked" =>
         (\A f \in s.want : Undone(o, f) \/ f \in after) /\ \A f \in s.drop : f \notin after
  BY DEF Finished, Achieved
<1>4. \A f \in o.facts : Clear(o, f) => f \in after
  BY DEF Finished
<1>5. /\ \A p \in Wanted \cup {Chrome} : ~Undone(o, Pkg(p)) /\ ~Undone(o, Explicit(p))
                                         /\ Clear(o, Pkg(p)) /\ Clear(o, Explicit(p))
      /\ \A f \in {HookRemoved, SplashRemoved} : ~Undone(o, f) /\ Clear(o, f)
  <2>1. \A f : Clear(o, f) => ~Undone(o, f)
    BY DEF Clear, Undone
  <2> QED BY <2>1, BootstrapNames DEF Plain
<1> HIDE DEF steps
<1>6. Updates(o) => \A p \in Wanted : Pkg(p) \in after
  <2> SUFFICES ASSUME Updates(o), NEW p \in Wanted PROVE Pkg(p) \in after
    OBVIOUS
  <2>1. CASE p \in MissingWanted(o)
    <3>1. PICK s \in steps : IsBootInstall(s, o) /\ s.disp # "blocked"
      BY <1>2, <2>1 DEF HasBooting
    <3>2. Pkg(p) \in s.want
      BY <2>1, <3>1 DEF IsBootInstall, Is
    <3> QED BY <1>3, <1>5, <3>1, <3>2
  <2>2. CASE p \notin MissingWanted(o)
    BY <1>4, <1>5, <2>2, PackageSets
  <2> QED BY <2>1, <2>2
<1>7. Removes(o) => \A p \in Unwanted \ LTS : Pkg(p) \notin after
  <2> SUFFICES ASSUME Removes(o), NEW p \in Unwanted \ LTS, Pkg(p) \in after PROVE FALSE
    OBVIOUS
  <2>1. Pkg(p) \in o.facts
    BY DEF Finished, Gone
  <2>2. p \in RemovalDelta(o.facts)
    BY <2>1 DEF RemovalDelta, InstalledIndex
  <2>3. PICK s \in steps : IsBootRemove(s, o) /\ s.disp # "blocked"
    BY <1>2, <2>2 DEF HasBooting
  <2>4. Pkg(p) \in s.drop
    BY <2>2, <2>3 DEF IsBootRemove
  <2> QED BY <1>3, <2>3, <2>4
<1>8. ASSUME NEW p \in Wanted \cup {Chrome}, Pkg(p) \in after PROVE Explicit(p) \in after
  <2>1. CASE Pkg(p) \notin o.facts
    <3>1. p # Driver
      BY ConvergeAssumption
    <3> QED BY <1>8, <2>1, <3>1 DEF Finished
  <2>2. CASE Pkg(p) \in o.facts /\ p \in Marked(o)
    <3>1. PICK s \in steps : IsBootMarks(s, o) /\ s.disp # "blocked"
      BY <1>2, <2>2 DEF HasBooting
    <3>2. Explicit(p) \in s.want
      BY <2>2, <3>1 DEF IsBootMarks, Is
    <3> QED BY <1>3, <1>5, <3>1, <3>2
  <2>3. CASE Pkg(p) \in o.facts /\ p \notin Marked(o)
    BY <1>4, <1>5, <2>3, PackageSets
  <2> QED BY <2>1, <2>2, <2>3
<1>9. Edits(o) => HookRemoved \in after
  <2>1. HookRemoved \notin o.facts /\ Edits(o) => \E s \in steps : IsHook(s) /\ s.disp # "blocked"
    BY <1>2 DEF HasBooting
  <2>2. \A s \in steps : IsHook(s) => HookRemoved \in s.want
    BY DEF IsHook, Is
  <2> QED BY <1>3, <1>4, <1>5, <2>1, <2>2
<1>10. Edits(o) => SplashRemoved \in after
  <2>1. SplashRemoved \notin o.facts /\ Edits(o) => \E s \in steps : IsSplash(s) /\ s.disp # "blocked"
    BY <1>2 DEF HasBooting
  <2>2. \A s \in steps : IsSplash(s) => SplashRemoved \in s.want
    BY DEF IsSplash, Is
  <2> QED BY <1>3, <1>4, <1>5, <2>1, <2>2
<1>11. Pkg(Chrome) \in after
  <2> DEFINE pin == AURPin(o.policy, Chrome)
  <2> HIDE DEF pin
  <2>1. Pkg(Chrome) \notin o.facts => \E s \in steps : IsInstall(s, "bootstrap.chrome", Chrome, pin) /\ s.disp # "blocked"
    BY <1>2 DEF HasBooting, HasSource, pin
  <2>2. \A s \in steps : IsInstall(s, "bootstrap.chrome", Chrome, pin) => Pkg(Chrome) \in s.want
    BY DEF IsInstall, Is
  <2> QED BY <1>3, <1>4, <1>5, <2>1, <2>2
<1>12. ~Shared(o) => ZshLines \in after
  <2>1. \E s \in steps : IsZsh(s) /\ s.disp # "blocked"
    BY <1>2 DEF HasBooting
  <2>2. \A s \in steps : IsZsh(s) => ZshLines \in s.want
    BY DEF IsZsh, Is
  <2>3. ~Shared(o) => ~Undone(o, ZshLines)
    BY ZshIsApart DEF Undone
  <2> QED BY <1>3, <2>1, <2>2, <2>3
<1> QED BY <1>6, <1>7, <1>8, <1>9, <1>10, <1>11, <1>12

\* Where bootstrap is settled no step of it is left but services.
LEMMA BootstrapRests ==
    ASSUME NEW o, Bootstrap(o.policy, o.observed, o.facts).valid, BootstrapSettled(o)
    PROVE  AtRest(o, BootstrapSteps(o))
<1> SUFFICES ASSUME NEW s \in BootstrapSteps(o), s.disp # "blocked"
             PROVE  Done(s, o.facts) \/ Serves(s) \/ (Shared(o) /\ WritesZsh(o, s))
  BY DEF AtRest
<1>1. Boots(o) /\ (IsNothing(s) \/ IsBooting(s, o))
  BY BootstrapStepsAre
<1>8. s.module = "bootstrap"
  BY BootstrapFits DEF BootstrapSteps, Fit, Fits
<1>2. /\ Updates(o) => \A p \in Wanted : Pkg(p) \in o.facts
      /\ Removes(o) => \A p \in Unwanted \ LTS : Pkg(p) \notin o.facts
      /\ \A p \in Wanted \cup {Chrome} : Pkg(p) \in o.facts => Explicit(p) \in o.facts
      /\ Edits(o) => HookRemoved \in o.facts /\ SplashRemoved \in o.facts
      /\ Pkg(Chrome) \in o.facts /\ (~Shared(o) => ZshLines \in o.facts)
  BY <1>1 DEF BootstrapSettled
<1>3. Updates(o) => MissingWanted(o) = {}
  BY <1>2 DEF MissingWanted, InstalledIndex
<1>4. Removes(o) => RemovalDelta(o.facts) = {}
  BY <1>2 DEF RemovalDelta, InstalledIndex
<1>5. Marked(o) = {}
  BY <1>2, <1>3, PackageSets
<1>6. CASE IsNothing(s)
  BY <1>6 DEF IsNothing, Done
<1>9. CASE IsZsh(s)
  <2>1. CASE Shared(o)
    <3>1. WritesZsh(o, s)
      BY <1>8, <1>9 DEF IsZsh, Is, WritesZsh
    <3> QED BY <2>1, <3>1
  <2>2. CASE ~Shared(o)
    BY <1>2, <1>9, <2>2 DEF IsZsh, Is, Done
  <2> QED BY <2>1, <2>2
<1>7. CASE \E u \in ServiceRequests(o.facts) : IsBootService(s, u)
  <2>1. PICK u \in ServiceRequests(o.facts) : IsBootService(s, u)
    BY <1>7
  <2>2. u \in DOMAIN ManagedService
    BY DEF ServiceRequests
  <2>3. /\ s.id = "bootstrap.service." \o u /\ s.loses = {} /\ s.drop = {}
        /\ s.want = {Service(u)} /\ s.gives = {Service(u)} /\ s.need = {Pkg(ManagedService[u])}
    BY <2>1 DEF IsBootService, Is, ServiceID
  <2> QED BY <1>8, <2>2, <2>3 DEF Serves
<1> QED BY <1>1, <1>2, <1>3, <1>4, <1>5, <1>6, <1>7, <1>9 DEF IsBooting

-------------------------------------------------------------------------------
(* The modules together *)

Six == {"bootstrap", "fingerprint", "devtools", "apps", "vicinae", "desktop"}

StepsOf(o, n) ==
    CASE n = "bootstrap"   -> BootstrapSteps(o)
      [] n = "fingerprint" -> FingerprintSteps(o)
      [] n = "devtools"    -> DevtoolsSteps(o)
      [] n = "apps"        -> AppsSteps(o)
      [] n = "vicinae"     -> VicinaeSteps(o)
      [] n = "desktop"     -> DesktopSteps(o)
EveryStep(o) == UNION {StepsOf(o, n) : n \in Six}

ValidAll(o) ==
    /\ Bootstrap(o.policy, o.observed, o.facts).valid /\ Fingerprint(o.policy, o.observed, o.facts).valid
    /\ Devtools(o.policy, o.observed, o.facts).valid /\ Apps(o.policy, o.observed, o.facts).valid
    /\ Vicinae(o.policy, o.observed, o.facts).valid /\ Desktop(o.policy, o.observed, o.facts).valid

Settled(o) ==
    /\ BootstrapSettled(o) /\ FingerprintSettled(o) /\ DevtoolsSettled(o)
    /\ AppsSettled(o) /\ VicinaeSettled(o) /\ DesktopSettled(o)

\* A module that is not enabled has no steps.
LEMMA DisabledHasNoSteps ==
    ASSUME NEW o, ValidAll(o), NEW n \in Six, ~ModuleEnabled(o.policy, n)
    PROVE  StepsOf(o, n) = {}
<1>1. CASE n = "bootstrap"
  BY <1>1, BootstrapStepsAre DEF ValidAll, StepsOf, Boots
<1>2. CASE n = "fingerprint"
  BY <1>2 DEF StepsOf, FingerprintSteps, Fingerprint, Valid
<1>3. CASE n = "devtools"
  BY <1>3 DEF StepsOf, DevtoolsSteps, Devtools, Valid
<1>4. CASE n = "apps"
  BY <1>4 DEF StepsOf, AppsSteps, Apps, Valid
<1>5. CASE n = "vicinae"
  BY <1>5, VicinaeIs DEF ValidAll, StepsOf, Launches
<1>6. CASE n = "desktop"
  BY <1>6 DEF StepsOf, DesktopSteps, Desktop, Valid
<1> QED BY <1>1, <1>2, <1>3, <1>4, <1>5, <1>6 DEF Six

\* So it is for every module: its steps are tidy, and but for bootstrap they
\* supply one another.
LEMMA EachIsTidy ==
    ASSUME NEW o, ValidAll(o), NEW n \in Six
    PROVE  /\ \A s \in StepsOf(o, n) : Tidy(o, s) /\ s.module = n
           /\ n # "bootstrap" => \A at : Follows(at, StepsOf(o, n)) => Supplies(at, StepsOf(o, n), o.facts)
<1>1. CASE n = "bootstrap"
  BY <1>1, BootstrapIsTidy, BootstrapFits DEF ValidAll, StepsOf, BootstrapSteps, Fit, Fits
<1>2. CASE n = "fingerprint"
  <2>1. StepsOf(o, n) = FingerprintSteps(o)
    BY <1>2 DEF StepsOf
  <2>2. \A s \in FingerprintSteps(o) : s.module = n
    BY <1>2, FingerprintFits DEF ValidAll, FingerprintSteps, Fit, Fits
  <2> QED BY <2>1, <2>2, FingerprintIsTidy, FingerprintSupplies DEF ValidAll
<1>3. CASE n = "devtools"
  <2>1. StepsOf(o, n) = DevtoolsSteps(o)
    BY <1>3 DEF StepsOf
  <2>2. \A s \in DevtoolsSteps(o) : s.module = n
    BY <1>3, DevtoolsFits DEF ValidAll, DevtoolsSteps, Fit, Fits
  <2> QED BY <2>1, <2>2, DevtoolsIsTidy, DevtoolsSupplies DEF ValidAll
<1>4. CASE n = "apps"
  <2>1. StepsOf(o, n) = AppsSteps(o)
    BY <1>4 DEF StepsOf
  <2>2. \A s \in AppsSteps(o) : s.module = n
    BY <1>4, AppsFit DEF ValidAll, AppsSteps, Fit, Fits
  <2> QED BY <2>1, <2>2, AppsIsTidy, AppsSupplies DEF ValidAll
<1>5. CASE n = "vicinae"
  <2>1. StepsOf(o, n) = VicinaeSteps(o)
    BY <1>5 DEF StepsOf
  <2>2. \A s \in VicinaeSteps(o) : s.module = n
    BY <1>5, VicinaeFits DEF ValidAll, VicinaeSteps, Fit, Fits
  <2> QED BY <2>1, <2>2, VicinaeIsTidy, VicinaeSupplies DEF ValidAll
<1>6. CASE n = "desktop"
  <2>1. StepsOf(o, n) = DesktopSteps(o)
    BY <1>6 DEF StepsOf
  <2>2. \A s \in DesktopSteps(o) : s.module = n
    BY <1>6, DesktopFits DEF ValidAll, DesktopSteps, Fit, Fits
  <2> QED BY <2>1, <2>2, DesktopIsTidy, DesktopSupplies DEF ValidAll
<1> QED BY <1>1, <1>2, <1>3, <1>4, <1>5, <1>6 DEF Six

\* Every step that a host is planned is one of these.
LEMMA ModulesAre ==
    ASSUME NEW policy, BuildModules(policy).valid
    PROVE  LET o    == Inputs(policy, evidence, host)
               mods == BuildModules(policy).steps
           IN  /\ ValidAll(o) /\ \A m \in mods : m.deps = {}
               /\ SelectedSteps(mods, EverySelection) = EveryStep(o) /\ AllSteps(mods) = EveryStep(o)
<1> DEFINE o == Inputs(policy, evidence, host)
           built == [bootstrap   |-> Bootstrap(policy, evidence, host),
                     fingerprint |-> Fingerprint(policy, evidence, host),
                     devtools    |-> Devtools(policy, evidence, host),
                     apps        |-> Apps(policy, evidence, host),
                     vicinae     |-> Vicinae(policy, evidence, host),
                     desktop     |-> Desktop(policy, evidence, host)]
           f == [n \in Six |-> [name |-> n, enabled |-> ModuleEnabled(policy, n), deps |-> {},
                                steps |-> built[n].steps]]
           mods == BuildModules(policy).steps
<1>1. o.policy = policy /\ o.observed = evidence /\ o.facts = host
  BY DEF Inputs
<1>2. mods = {f[n] : n \in Six} /\ \A n \in Six : built[n].valid
  <2>1. DOMAIN built = Six
    BY DEF Six
  <2>2. BuildModules(policy) # Invalid
    BY DEF Invalid
  <2>3. \A n \in DOMAIN built : built[n].valid
    BY <2>2 DEF BuildModules
  <2>4. BuildModules(policy) = Valid({[name |-> n, enabled |-> ModuleEnabled(policy, n), deps |-> {},
                                       steps |-> built[n].steps] : n \in DOMAIN built})
    BY <2>2 DEF BuildModules
  <2> HIDE DEF built
  <2> QED BY <2>1, <2>3, <2>4 DEF Valid
<1>3. ValidAll(o)
  BY <1>1, <1>2 DEF ValidAll, Six
<1>4. \A n \in Six : built[n].steps = StepsOf(o, n)
  BY <1>1 DEF Six, StepsOf, BootstrapSteps, FingerprintSteps, DevtoolsSteps, AppsSteps, VicinaeSteps,
              DesktopSteps
<1> HIDE DEF built, o
<1>5. \A n \in Six : /\ f[n].name = n /\ f[n].deps = {} /\ f[n].steps = StepsOf(o, n)
                     /\ f[n].enabled = ModuleEnabled(policy, n)
  BY <1>4
<1> HIDE DEF f, mods
<1>6. \A m \in mods : m.deps = {}
  BY <1>2, <1>5
<1>7. AllSteps(mods) = EveryStep(o)
  BY <1>2, <1>5 DEF AllSteps, EveryStep
<1>8. \A n \in Six : f[n].enabled => n \in Selected(mods, EverySelection)
  BY <1>2, <1>5 DEF Selected, EverySelection, Names
<1>9. SelectedSteps(mods, EverySelection) = EveryStep(o)
  <2> DEFINE some == {m \in mods : m.name \in Selected(mods, EverySelection)}
  <2>1. AllSteps(some) \subseteq EveryStep(o)
    BY <1>7 DEF AllSteps
  <2>2. ASSUME NEW s \in EveryStep(o) PROVE s \in AllSteps(some)
    <3>1. PICK n \in Six : s \in StepsOf(o, n)
      BY DEF EveryStep
    <3>2. f[n].enabled
      BY <1>1, <1>3, <1>5, <3>1, DisabledHasNoSteps DEF o
    <3>3. f[n] \in some /\ s \in f[n].steps
      BY <1>2, <1>5, <1>8, <3>1, <3>2
    <3> HIDE DEF some
    <3> QED BY <3>3 DEF AllSteps
  <2> QED BY <2>1, <2>2 DEF SelectedSteps
<1> QED BY <1>3, <1>6, <1>7, <1>9 DEF o, mods

\* What the steps of a complete run left is settled.
LEMMA EachSettles ==
    ASSUME NEW o, ValidAll(o), NEW after, Finished(o, EveryStep(o), after)
    PROVE  Settled(Then(o, after))
<1>1. ASSUME NEW steps, steps \subseteq EveryStep(o) PROVE Finished(o, steps, after)
  BY <1>1 DEF Finished, Achieved
<1>2. /\ BootstrapSteps(o) = StepsOf(o, "bootstrap") /\ FingerprintSteps(o) = StepsOf(o, "fingerprint")
      /\ DevtoolsSteps(o) = StepsOf(o, "devtools") /\ AppsSteps(o) = StepsOf(o, "apps")
      /\ VicinaeSteps(o) = StepsOf(o, "vicinae") /\ DesktopSteps(o) = StepsOf(o, "desktop")
  BY DEF StepsOf
<1>3. \A n \in Six : StepsOf(o, n) \subseteq EveryStep(o)
  BY DEF EveryStep
<1>4. /\ BootstrapSteps(o) \subseteq EveryStep(o) /\ FingerprintSteps(o) \subseteq EveryStep(o)
      /\ DevtoolsSteps(o) \subseteq EveryStep(o) /\ AppsSteps(o) \subseteq EveryStep(o)
      /\ VicinaeSteps(o) \subseteq EveryStep(o) /\ DesktopSteps(o) \subseteq EveryStep(o)
  BY <1>2, <1>3 DEF Six
<1>5. BootstrapSettled(Then(o, after)) /\ FingerprintSettled(Then(o, after)) /\ DevtoolsSettled(Then(o, after))
  BY <1>1, <1>4, BootstrapSettles, FingerprintSettles, DevtoolsSettles DEF ValidAll
<1>6. AppsSettled(Then(o, after)) /\ VicinaeSettled(Then(o, after)) /\ DesktopSettled(Then(o, after))
  BY <1>1, <1>4, AppsSettles, VicinaeSettles, DesktopSettles DEF ValidAll
<1> QED BY <1>5, <1>6 DEF Settled

\* A settled host is at rest, module by module.
LEMMA EachRests ==
    ASSUME NEW o, ValidAll(o), Settled(o)
    PROVE  AtRest(o, EveryStep(o))
<1> SUFFICES ASSUME NEW n \in Six PROVE AtRest(o, StepsOf(o, n))
  BY DEF AtRest, EveryStep
<1>1. CASE n = "bootstrap"
  BY <1>1, BootstrapRests DEF ValidAll, Settled, StepsOf
<1>2. CASE n = "fingerprint"
  BY <1>2, FingerprintRests DEF ValidAll, Settled, StepsOf
<1>3. CASE n = "devtools"
  BY <1>3, DevtoolsRests DEF ValidAll, Settled, StepsOf
<1>4. CASE n = "apps"
  BY <1>4, AppsRests DEF ValidAll, Settled, StepsOf
<1>5. CASE n = "vicinae"
  BY <1>5, VicinaeRests DEF ValidAll, Settled, StepsOf
<1>6. CASE n = "desktop"
  BY <1>6, DesktopRests DEF ValidAll, Settled, StepsOf
<1> QED BY <1>1, <1>2, <1>3, <1>4, <1>5, <1>6 DEF Six

-------------------------------------------------------------------------------
(* The order of a plan *)

\* Each step once, after those it depends on, and bootstrap's first.
OrderOf(o, order) ==
    /\ order \in Seq(EveryStep(o)) /\ Range(order) = EveryStep(o)
    /\ \A i, j \in DOMAIN order : order[i] = order[j] => i = j
    /\ \A s, t \in EveryStep(o) : s.id = t.id => s = t
    /\ \A i, j \in DOMAIN order : order[i].id \in order[j].deps => i < j
    /\ \A i, j \in DOMAIN order : order[i].module = "bootstrap" /\ order[j].module # "bootstrap" => i < j

\* The steps of a plan are those of the six modules.
LEMMA EveryStepIs ==
    ASSUME NEW o, ValidAll(o)
    PROVE  /\ \A s \in EveryStep(o) : Tidy(o, s) /\ s.module \in Six /\ s \in StepsOf(o, s.module)
           /\ \A n \in Six : StepsOf(o, n) \subseteq EveryStep(o)
           /\ StepsOf(o, "bootstrap") = BootstrapSteps(o)
<1>1. \A s \in EveryStep(o) : \E n \in Six : s \in StepsOf(o, n)
  BY DEF EveryStep
<1>2. \A n \in Six : StepsOf(o, n) \subseteq EveryStep(o)
  BY DEF EveryStep
<1>3. \A n \in Six : \A s \in StepsOf(o, n) : Tidy(o, s) /\ s.module = n
  BY EachIsTidy
<1>4. StepsOf(o, "bootstrap") = BootstrapSteps(o)
  BY DEF StepsOf
<1> QED BY <1>1, <1>2, <1>3, <1>4

\* A plan is an order of the steps of all modules, bootstrap's first.
LEMMA PlanIsAnOrder ==
    ASSUME NEW policy, BuildModules(policy).valid,
           BuildPlan(BuildModules(policy).steps, EverySelection).ok
    PROVE  LET o == Inputs(policy, evidence, host)
           IN  ValidAll(o) /\ OrderOf(o, BuildPlan(BuildModules(policy).steps, EverySelection).steps)
<1> DEFINE o == Inputs(policy, evidence, host)
           mods == BuildModules(policy).steps
           order == BuildPlan(mods, EverySelection).steps
           steps == EveryStep(o)
           before == Before(mods, steps)
<1>1. /\ ValidAll(o) /\ \A m \in mods : m.deps = {}
      /\ SelectedSteps(mods, EverySelection) = steps /\ AllSteps(mods) = steps
  BY ModulesAre
<1>2. WellFormed(mods)
  BY ModulesFit
<1> HIDE DEF o, mods
<1>3. /\ \A s, t \in steps : s.id = t.id => s = t
      /\ Ordered(before, order) /\ Range(order) = steps
  BY <1>1, <1>2, PlansAreOrdered DEF mods
<1>4. \A s \in steps : /\ s.module \in Six /\ s \in StepsOf(o, s.module)
                       /\ s.module = "bootstrap" => s \in BootstrapSteps(o)
  BY <1>1, EveryStepIs
<1>5. StepsOf(o, "bootstrap") = BootstrapSteps(o) /\ BootstrapSteps(o) \subseteq steps
  <2>1. "bootstrap" \in Six
    BY DEF Six
  <2> QED BY <1>1, <2>1, EveryStepIs
<1>6. \A n \in Six : n # "bootstrap" => ModuleRank("bootstrap") < ModuleRank(n)
  BY DEF Six, ModuleRank, CanonicalRank
<1>7. \A s, t \in steps : s.module = "bootstrap" /\ t.id \in s.deps => t.module = "bootstrap"
  <2> SUFFICES ASSUME NEW s \in steps, NEW t \in steps, s.module = "bootstrap", t.id \in s.deps
               PROVE  t.module = "bootstrap"
    OBVIOUS
  <2>1. s \in BootstrapSteps(o) /\ Bootstrap(o.policy, o.observed, o.facts).valid
    BY <1>1, <1>4 DEF ValidAll
  <2>2. t.id \in IDs(BootstrapSteps(o))
    BY <2>1, BootstrapStepsAre
  <2>3. t \in StepsOf(o, "bootstrap")
    BY <1>3, <1>5, <2>2 DEF IDs
  <2> QED BY <1>1, <2>3, EachIsTidy DEF Six
<1> HIDE DEF steps, before, order
<1>8. \A i, j \in DOMAIN order : order[i].module = "bootstrap" /\ order[j].module # "bootstrap" => i < j
  <2>1. \A s \in AllSteps(mods) : s.module # "bootstrap" => ModuleRank("bootstrap") < ModuleRank(s.module)
    BY <1>1, <1>4, <1>6
  <2>2. \A s, t \in AllSteps(mods) : s.module = "bootstrap" /\ t.id \in s.deps => t.module = "bootstrap"
    BY <1>1, <1>7
  <2>3. BuildPlan(mods, EverySelection).ok
    BY DEF mods
  <2> QED BY <1>1, <1>2, <2>1, <2>2, <2>3, PlansFollowTheRanks DEF order
<1>9. DOMAIN before = steps /\ \A s, t \in steps : t.id \in s.deps => t \in before[s]
  BY DEF before, Before, Precedes
<1>10. /\ order \in Seq(steps) /\ DOMAIN order = 1..Len(order) /\ Len(order) \in Nat
       /\ \A i, j \in DOMAIN order : order[i] = order[j] => i = j
       /\ \A j \in DOMAIN order : before[order[j]] \subseteq {order[i] : i \in 1..(j - 1)}
  BY <1>3, <1>9 DEF Ordered
<1>11. \A i, j \in DOMAIN order : order[i].id \in order[j].deps => i < j
  <2> SUFFICES ASSUME NEW i \in DOMAIN order, NEW j \in DOMAIN order, order[i].id \in order[j].deps
               PROVE  i < j
    OBVIOUS
  <2>1. order[i] \in steps /\ order[j] \in steps
    BY <1>10
  <2>2. PICK k \in 1..(j - 1) : order[i] = order[k]
    BY <1>9, <1>10, <2>1
  <2>3. k \in DOMAIN order
    BY <1>10, <2>2
  <2> QED BY <1>10, <2>2, <2>3
<1>12. OrderOf(o, order)
  BY <1>3, <1>8, <1>10, <1>11 DEF OrderOf, steps
<1> QED BY <1>1, <1>12 DEF o, order, mods

\* The place of each step.
Places(order) == [id \in {order[i].id : i \in DOMAIN order} |-> CHOOSE i \in DOMAIN order : order[i].id = id]

\* The places in a plan follow the dependencies.
LEMMA PlacesFollow ==
    ASSUME NEW o, NEW order, OrderOf(o, order)
    PROVE  /\ \A i \in DOMAIN order : Places(order)[order[i].id] = i
           /\ \A s \in EveryStep(o) : \E i \in DOMAIN order : s = order[i]
           /\ \A steps \in SUBSET EveryStep(o) : Follows(Places(order), steps)
<1>1. /\ Range(order) = EveryStep(o) /\ DOMAIN order = 1..Len(order) /\ Len(order) \in Nat
      /\ \A i \in DOMAIN order : order[i] \in EveryStep(o)
      /\ \A i, j \in DOMAIN order : order[i] = order[j] => i = j
      /\ \A s, t \in EveryStep(o) : s.id = t.id => s = t
  BY DEF OrderOf
<1>2. \A i \in DOMAIN order : Places(order)[order[i].id] = i
  <2>1. \A i, j \in DOMAIN order : order[i].id = order[j].id => i = j
    BY <1>1
  <2> QED BY <2>1 DEF Places
<1>3. \A s \in EveryStep(o) : \E i \in DOMAIN order : s = order[i]
  BY <1>1 DEF Range
<1>4. ASSUME NEW steps \in SUBSET EveryStep(o) PROVE Follows(Places(order), steps)
  <2>1. \A s \in steps : \E i \in DOMAIN order : s = order[i] /\ Places(order)[s.id] = i /\ i \in Nat
    BY <1>1, <1>2, <1>3
  <2>2. ASSUME NEW s \in steps, NEW t \in steps, t.id \in s.deps
        PROVE  Places(order)[t.id] < Places(order)[s.id]
    <3>1. PICK i \in DOMAIN order : s = order[i] /\ Places(order)[s.id] = i
      BY <2>1
    <3>2. PICK j \in DOMAIN order : t = order[j] /\ Places(order)[t.id] = j
      BY <2>1
    <3> QED BY <2>2, <3>1, <3>2 DEF OrderOf
  <2> QED BY <2>1, <2>2 DEF Follows
<1> QED BY <1>2, <1>3, <1>4

\* What a step asks for was there when it was planned, or an earlier step
\* wants it; paru is installed before whatever needs it, if a step installs it.
LEMMA AskedBefore ==
    ASSUME NEW o, ValidAll(o), NEW order, OrderOf(o, order), NEW pos \in DOMAIN order,
           NEW f \in Asked(order[pos]), f \notin o.facts
    PROVE  /\ order[pos].disp # "blocked" /\ f # Pkg("paru") =>
                \E j \in DOMAIN order : j < pos /\ order[j].disp # "blocked" /\ f \in order[j].want
           /\ f = Pkg("paru") =>
                \A i \in DOMAIN order : f \in order[i].gives =>
                    i < pos /\ order[i].disp # "blocked" /\ f \in order[i].want
<1> DEFINE at == Places(order)
           s == order[pos]
           n == s.module
<1>1. s \in EveryStep(o) /\ \A i \in DOMAIN order : order[i] \in EveryStep(o)
  BY DEF OrderOf
<1>2. n \in Six /\ s \in StepsOf(o, n) /\ StepsOf(o, n) \subseteq EveryStep(o)
  BY <1>1, EveryStepIs
<1>3. Follows(at, StepsOf(o, n)) /\ at[s.id] = pos
  BY <1>2, PlacesFollow
<1>4. StepsOf(o, "bootstrap") = BootstrapSteps(o) /\ Bootstrap(o.policy, o.observed, o.facts).valid
  BY EveryStepIs DEF ValidAll
<1> HIDE DEF at, n
<1>5. Supplies(at, StepsOf(o, n), o.facts)
  BY <1>2, <1>3, <1>4, BootstrapSupplies, EachIsTidy
<1>6. ASSUME s.disp # "blocked", f # Pkg("paru")
      PROVE  \E j \in DOMAIN order : j < pos /\ order[j].disp # "blocked" /\ f \in order[j].want
  <2>1. PICK t \in StepsOf(o, n) : t.disp # "blocked" /\ f \in t.want /\ at[t.id] < at[s.id]
    BY <1>2, <1>5, <1>6 DEF Supplies, Supplied
  <2>2. PICK j \in DOMAIN order : t = order[j]
    BY <1>2, PlacesFollow
  <2>3. at[t.id] = j
    BY <2>2, PlacesFollow DEF at
  <2> QED BY <1>3, <2>1, <2>2, <2>3
<1>7. ASSUME f = Pkg("paru"), NEW i \in DOMAIN order, f \in order[i].gives
      PROVE  i < pos /\ order[i].disp # "blocked" /\ f \in order[i].want
  <2>1. /\ order[i].id = PackageInstall /\ order[i].module = "bootstrap"
        /\ order[i].disp # "blocked" /\ f \in order[i].want
    BY <1>1, <1>7, EveryStepIs DEF Tidy, LeavesClear, PackageInstall
  <2>2. CASE n = "bootstrap"
    <3>1. order[i] \in BootstrapSteps(o) /\ s \in BootstrapSteps(o)
      BY <1>1, <1>2, <1>4, <2>1, <2>2, EveryStepIs
    <3>2. at[order[i].id] < at[s.id]
      BY <1>3, <1>4, <1>7, <2>1, <2>2, <3>1, BootstrapSupplies
    <3>3. at[order[i].id] = i
      BY PlacesFollow DEF at
    <3> QED BY <1>3, <2>1, <3>2, <3>3
  <2>3. CASE n # "bootstrap"
    BY <2>1, <2>3 DEF OrderOf, n
  <2> QED BY <2>1, <2>2, <2>3
<1> QED BY <1>6, <1>7

-------------------------------------------------------------------------------
(* How far a run has got *)

\* What a step may take along is packages that the plan saw and services, and
\* only the removal does.
LEMMA LossesAre ==
    ASSUME NEW o, NEW s, Tidy(o, s), NEW lost \in Losses(s)
    PROVE  /\ \A f \in lost : \/ \E p : f = Pkg(p) /\ f \in o.facts
                              \/ \E u : f = Service(u)
           /\ lost # {} => s.loses # {} /\ TakesAlong(o, s)
<1>1. PICK packages \in SUBSET s.loses : lost = LostWith(packages)
  BY DEF Losses
<1>2. \A f \in lost : (\E p \in packages : f = Pkg(p)) \/ \E u : f = Service(u)
  BY <1>1 DEF LostWith
<1>3. s.loses # {} => TakesAlong(o, s)
  BY DEF Tidy
<1>4. \A p \in packages : s.loses # {} /\ Pkg(p) \in o.facts
  BY <1>1, <1>3 DEF TakesAlong
<1>5. lost # {} => packages # {}
  BY <1>1 DEF LostWith
<1> QED BY <1>2, <1>3, <1>4, <1>5

\* A step that takes nothing along loses nothing.
LEMMA NothingLost ==
    ASSUME NEW s, s.loses = {}
    PROVE  Losses(s) = {{}}
<1>1. LostWith({}) = {}
  BY DEF LostWith
<1> QED BY <1>1 DEF Losses

\* A step has at least its effect, and at most what it gives besides.
LEMMA EffectIs ==
    ASSUME NEW s, NEW now
    PROVE  /\ \A f \in now : f \in s.drop \/ f \in Effect(s, now)
           /\ \A f \in Effect(s, now) : f \in s.gives \/ (f \in now /\ f \notin s.drop)
           /\ \A f \in s.gives : f \in s.want => f \in Effect(s, now)
           /\ \A p : Explicit(p) \in s.gives /\ Pkg(p) \notin now => Explicit(p) \in Effect(s, now)
<1>1. \A p : Explicit(p)[2] = p
  BY DEF Explicit
<1> QED BY <1>1 DEF Effect, Leaves

\* No step before the removal wants what goes along: bootstrap installs and
\* builds what was not there, and starts services after it.
LEMMA LostIsUnwanted ==
    ASSUME NEW o, ValidAll(o), NEW order, OrderOf(o, order), NEW i \in DOMAIN order, NEW k \in DOMAIN order,
           i < k, NEW lost \in Losses(order[k]), NEW f \in lost, f \in order[i].want
    PROVE  FALSE
<1> DEFINE s == order[i]
           r == order[k]
           present == Present(o)
<1>1. s \in EveryStep(o) /\ r \in EveryStep(o) /\ i \in Nat /\ k \in Nat
  BY DEF OrderOf
<1>2. Tidy(o, r)
  BY <1>1, EveryStepIs
<1>3. r.loses # {} /\ TakesAlong(o, r)
  BY <1>2, LossesAre
<1>4. r.module = "bootstrap" /\ r.id = PackageRemove
  BY <1>3 DEF TakesAlong, PackageRemove
<1>5. s.module = "bootstrap"
  <2>1. ~(k < i)
    BY <1>1
  <2> QED BY <1>4, <2>1 DEF OrderOf
<1>6. s \in BootstrapSteps(o) /\ r \in BootstrapSteps(o)
  BY <1>1, <1>4, <1>5, EveryStepIs
<1>7. ~IsNothing(s) /\ ~IsNothing(r)
  BY <1>3 DEF IsNothing
<1>8. /\ IsBooting(s, o) /\ Waits(s, present) /\ Waits(r, present)
      /\ Boots(o) /\ \A id \in present : \E t \in BootstrapSteps(o) : t.id = id /\ Waits(t, present)
  BY <1>6, <1>7, BootstrapStepsAre DEF ValidAll
<1> HIDE DEF s, r, present
<1>9. f \in s.want
  BY DEF s
<1>10. CASE \E p : f = Pkg(p) /\ f \in o.facts
  <2>1. PICK p : f = Pkg(p) /\ Pkg(p) \in o.facts
    BY <1>10
  <2>2. ~IsBootInstall(s, o)
    <3>1. \A q \in MissingWanted(o) : Pkg(q) \notin o.facts
      BY DEF MissingWanted, InstalledIndex
    <3>2. IsBootInstall(s, o) => s.want = {Pkg(q) : q \in MissingWanted(o)}
      BY DEF IsBootInstall, Is
    <3> QED BY <1>9, <2>1, <3>1, <3>2
  <2>3. \A q : Pkg(q)[1] = "package" /\ Explicit(q)[1] = "explicit" /\ Service(q)[1] = "service"
    BY FactsDiffer
  <2>4. f[1] = "package"
    BY <2>1, <2>3
  <2>5. ~IsBootRemove(s, o) /\ ~IsBootMarks(s, o)
    <3>1. IsBootMarks(s, o) => s.want = {Explicit(q) : q \in Marked(o)}
      BY DEF IsBootMarks, Is
    <3>2. IsBootRemove(s, o) => s.want = {}
      BY DEF IsBootRemove
    <3> QED BY <1>9, <2>3, <2>4, <3>1, <3>2
  <2>6. ~IsHook(s) /\ ~IsImage(s) /\ ~IsSplash(s) /\ ~IsPublish(s) /\ ~IsMenu(s) /\ ~IsZsh(s)
    <3>1. IsHook(s) \/ IsImage(s) \/ IsSplash(s) \/ IsPublish(s) \/ IsMenu(s) \/ IsZsh(s)
             => \A g \in s.want : g \in {HookRemoved, ImageBuilt, SplashRemoved, MenuPublished, MenuStaged, ZshLines}
      BY DEF IsHook, IsImage, IsSplash, IsPublish, IsMenu, IsZsh, Is
    <3>2. \A g \in {HookRemoved, ImageBuilt, SplashRemoved, MenuPublished, MenuStaged, ZshLines} :
             g[1] # "package"
      <4>1. {HookRemoved, ImageBuilt, SplashRemoved, MenuPublished, MenuStaged} \subseteq BootFacts
        BY DEF BootFacts
      <4>2. ZshLines[1] # "package"
        BY ZshIsApart
      <4> QED BY <4>1, <4>2, FactsDiffer
    <3> QED BY <1>9, <2>4, <3>1, <3>2
  <2>7. \A u : ~IsBootService(s, u)
    <3>1. \A u : IsBootService(s, u) => s.want = {Service(u)}
      BY DEF IsBootService, Is
    <3> QED BY <1>9, <2>3, <2>4, <3>1
  <2>8. CASE Pkg(Chrome) \notin o.facts /\ IsSource(s, "bootstrap.chrome", Chrome, AURPin(o.policy, Chrome))
    <3> DEFINE pin == AURPin(o.policy, Chrome)
    <3> HIDE DEF pin
    <3>1. \/ s.want = {Fetched(Chrome, pin.sourceCommit)} \/ s.want = {Tree(Chrome, pin.sourceCommit)}
          \/ s.want = {Patch(Chrome, pin.patchSHA256)} \/ s.want = {Pkg(Chrome)}
      BY <2>8 DEF IsSource, IsFetch, IsCheckout, IsWrite, IsVerify, IsInstall, Is, pin
    <3>2. \A y : /\ Fetched(Chrome, y)[1] = "fetched" /\ Tree(Chrome, y)[1] = "tree"
                 /\ Patch(Chrome, y)[1] = "patch"
      BY FactsDiffer
    <3> QED BY <1>9, <2>1, <2>4, <2>8, <3>1, <3>2
  <2> QED BY <1>8, <2>2, <2>5, <2>6, <2>7, <2>8 DEF IsBooting
<1>11. CASE \E u : f = Service(u)
  <2>1. f[1] = "service"
    BY <1>11, FactsDiffer
  <2>2. ~IsBootInstall(s, o) /\ ~IsBootRemove(s, o) /\ ~IsBootMarks(s, o)
    <3>1. \A q : Pkg(q)[1] = "package" /\ Explicit(q)[1] = "explicit"
      BY FactsDiffer
    <3>2. /\ IsBootMarks(s, o) => s.want = {Explicit(q) : q \in Marked(o)}
          /\ IsBootRemove(s, o) => s.want = {}
          /\ IsBootInstall(s, o) => s.want = {Pkg(q) : q \in MissingWanted(o)}
      BY DEF IsBootMarks, IsBootRemove, IsBootInstall, Is
    <3> QED BY <1>9, <2>1, <3>1, <3>2
  <2>3. ~IsHook(s) /\ ~IsImage(s) /\ ~IsSplash(s) /\ ~IsPublish(s) /\ ~IsMenu(s) /\ ~IsZsh(s)
    <3>1. IsHook(s) \/ IsImage(s) \/ IsSplash(s) \/ IsPublish(s) \/ IsMenu(s) \/ IsZsh(s)
             => \A g \in s.want : g \in {HookRemoved, ImageBuilt, SplashRemoved, MenuPublished, MenuStaged, ZshLines}
      BY DEF IsHook, IsImage, IsSplash, IsPublish, IsMenu, IsZsh, Is
    <3>2. \A g \in {HookRemoved, ImageBuilt, SplashRemoved, MenuPublished, MenuStaged, ZshLines} :
             g[1] # "service"
      <4>1. {HookRemoved, ImageBuilt, SplashRemoved, MenuPublished, MenuStaged} \subseteq BootFacts
        BY DEF BootFacts
      <4>2. ZshLines[1] # "service"
        BY ZshIsApart
      <4> QED BY <4>1, <4>2, FactsDiffer
    <3> QED BY <1>9, <2>1, <3>1, <3>2
  <2>4. ~IsSource(s, "bootstrap.chrome", Chrome, AURPin(o.policy, Chrome))
    <3> DEFINE pin == AURPin(o.policy, Chrome)
    <3> HIDE DEF pin
    <3> SUFFICES ASSUME IsSource(s, "bootstrap.chrome", Chrome, pin) PROVE FALSE
      BY DEF pin
    <3>1. \/ s.want = {Fetched(Chrome, pin.sourceCommit)} \/ s.want = {Tree(Chrome, pin.sourceCommit)}
          \/ s.want = {Patch(Chrome, pin.patchSHA256)} \/ s.want = {Pkg(Chrome)}
      BY DEF IsSource, IsFetch, IsCheckout, IsWrite, IsVerify, IsInstall, Is
    <3>2. \A y : /\ Fetched(Chrome, y)[1] = "fetched" /\ Tree(Chrome, y)[1] = "tree"
                 /\ Patch(Chrome, y)[1] = "patch"
      BY FactsDiffer
    <3>3. Pkg(Chrome)[1] = "package"
      BY FactsDiffer
    <3> QED BY <1>9, <2>1, <3>1, <3>2, <3>3
  <2>5. PICK u \in ServiceRequests(o.facts) : IsBootService(s, u)
    BY <1>8, <2>2, <2>3, <2>4 DEF IsBooting
  <2>6. s.id = ServiceID(u) /\ u \in DOMAIN ManagedService
    BY <2>5 DEF IsBootService, Is, ServiceRequests
  <2>7. PackageRemove \in present
    BY <1>4, <1>8 DEF Waits, r
  <2>8. PackageMarks \notin present => r.id \in s.deps
    BY <1>4, <1>8, <2>6, <2>7 DEF Waits, WaitsFor, LastPackage, LastBefore, r
  <2>9. CASE PackageMarks \notin present
    <3>1. k < i
      BY <2>8, <2>9 DEF OrderOf, r, s
    <3> QED BY <1>1, <3>1
  <2>10. CASE PackageMarks \in present
    <3>1. PICK t \in BootstrapSteps(o) : t.id = PackageMarks /\ Waits(t, present)
      BY <1>8, <2>10
    <3>2. t.id \in s.deps
      BY <1>8, <2>6, <2>10, <3>1 DEF Waits, WaitsFor, LastPackage
    <3>3. r.id \in t.deps
      BY <1>4, <2>7, <3>1 DEF Waits, WaitsFor, LastBefore, r
    <3>4. BootstrapSteps(o) \subseteq EveryStep(o)
      BY EveryStepIs DEF Six
    <3>5. PICK m \in DOMAIN order : t = order[m]
      BY <3>1, <3>4, PlacesFollow
    <3>6. m < i /\ k < m
      BY <3>2, <3>3, <3>5 DEF OrderOf, r, s
    <3>7. m \in Nat
      BY <3>5 DEF OrderOf
    <3> QED BY <1>1, <3>6, <3>7
  <2> QED BY <2>9, <2>10
<1> QED BY <1>2, <1>10, <1>11, LossesAre DEF r

\* The lines of ~/.zshrc are rewritten before they are put back, by steps of
\* both modules.
LEMMA ZshInOrder ==
    ASSUME NEW o, ValidAll(o), NEW order, OrderOf(o, order), NEW i \in DOMAIN order, NEW j \in DOMAIN order,
           ZshLines \in order[i].gives, ZshLines \in order[j].drop
    PROVE  i < j /\ Shared(o)
<1> DEFINE s == order[i]
           t == order[j]
<1>1. s \in EveryStep(o) /\ t \in EveryStep(o)
  BY DEF OrderOf
<1>2. WritesZsh(o, s) /\ WritesZsh(o, t)
  BY <1>1, EveryStepIs DEF Tidy
<1>3. t.module = "devtools" /\ OwnsZsh(o) /\ ZshLines \notin o.facts
  BY <1>2 DEF WritesZsh
<1>4. ZshFile # ZshLines
  BY <1>3, ZshIsApart DEF OwnsZsh, ZshFile
<1>5. s.module = "bootstrap"
  BY <1>2, <1>3, <1>4 DEF WritesZsh
<1>6. Boots(o)
  <2>1. s \in BootstrapSteps(o)
    BY <1>1, <1>5, EveryStepIs
  <2> QED BY <2>1, BootstrapStepsAre DEF ValidAll
<1>7. i < j
  BY <1>3, <1>5 DEF OrderOf
<1> QED BY <1>3, <1>6, <1>7 DEF Shared, Boots

\* Where a run is that has taken the steps before pos: what was there or wanted
\* is still there unless a step took it away, which is then gone, or it went
\* along with a package and no step wants it; and nothing came but what the
\* steps may leave.
Took(order, pos, i) == i \in DOMAIN order /\ i < pos /\ order[i].disp # "blocked"
Kept(o, order, pos, lost, now) ==
    \A f : \/ f \in now
           \/ /\ f \in o.facts => f \in lost
              /\ \A i : Took(order, pos, i) => f \notin order[i].want
           \/ \E i : Took(order, pos, i) /\ f \in order[i].drop
Dropped(order, pos, now) == \A i : Took(order, pos, i) => order[i].drop \cap now = {}
Gained(o, now) ==
    \A f \in now \ o.facts :
        /\ ~Against(o, f) /\ ~Gone(f) /\ f[1] # "stock"
        /\ \A p : f = Pkg(p) => p = Driver \/ Explicit(p) \in now
GoneAlong(lost) == \A f \in lost : f[1] \in {"package", "service"}
Progress(o, order, pos, lost, now) ==
    /\ Kept(o, order, pos, lost, now) /\ Dropped(order, pos, now) /\ Gained(o, now)
    /\ GoneAlong(lost)

\* A run begins with all the plan saw in place.
LEMMA RunBegins ==
    ASSUME NEW o, NEW order, OrderOf(o, order)
    PROVE  Progress(o, order, 1, {}, o.facts)
<1>1. \A i : ~Took(order, 1, i)
  <2>1. DOMAIN order = 1..Len(order)
    BY DEF OrderOf
  <2> QED BY <2>1 DEF Took
<1>2. GoneAlong({})
  BY DEF GoneAlong
<1> QED BY <1>1, <1>2 DEF Progress, Kept, Dropped, Gained

\* The menu is staged before it is published.
LEMMA MenuInOrder ==
    ASSUME NEW o, ValidAll(o), NEW order, OrderOf(o, order), NEW i \in DOMAIN order, NEW j \in DOMAIN order,
           MenuStaged \in order[i].gives, MenuStaged \in order[j].drop
    PROVE  i < j
<1> DEFINE present == Present(o)
<1>1. order[i] \in EveryStep(o) /\ order[j] \in EveryStep(o)
  BY DEF OrderOf
<1>2. order[i].id = "bootstrap.boot.grub-generate" /\ order[i].module = "bootstrap"
  BY <1>1, EveryStepIs DEF Tidy, LeavesClear
<1>3. ~Against(o, MenuStaged) /\ ~Gone(MenuStaged)
  BY WhatIsClear DEF BootFacts
<1>4. order[j].id = "bootstrap.boot.grub-publish" /\ order[j].module = "bootstrap"
  BY <1>1, <1>3, EveryStepIs, ZshIsApart DEF Tidy, DropsOwn
<1>5. order[i] \in BootstrapSteps(o) /\ order[j] \in BootstrapSteps(o)
  BY <1>1, <1>2, <1>4, EveryStepIs
<1>6. ~IsNothing(order[i]) /\ ~IsNothing(order[j])
  BY DEF IsNothing
<1>7. Waits(order[i], present) /\ Waits(order[j], present)
  BY <1>5, <1>6, BootstrapStepsAre DEF ValidAll
<1> HIDE DEF present
<1>8. "bootstrap.boot.grub-generate" \in order[j].deps
  BY <1>2, <1>4, <1>7 DEF Waits, WaitsFor
<1> QED BY <1>2, <1>8 DEF OrderOf

\* Only what is there to be taken away is taken away.
LEMMA NotTaken ==
    ASSUME NEW o, ValidAll(o), NEW order, OrderOf(o, order), NEW i \in DOMAIN order,
           NEW f, f \in order[i].drop
    PROVE  /\ Against(o, f) \/ Gone(f) \/ f = MenuStaged \/ f = ZshLines
           /\ ~Clear(o, f) /\ f # Pkg("paru")
           /\ \A p : f # Explicit(p)
           /\ ~Against(o, f) => \/ Gone(f) /\ order[i].id = "bootstrap.packages.remove"
                                \/ f = MenuStaged /\ order[i].id = "bootstrap.boot.grub-publish"
                                \/ f = ZshLines
<1>1. order[i] \in EveryStep(o)
  BY DEF OrderOf
<1>2. DropsOwn(o, order[i])
  BY <1>1, EveryStepIs DEF Tidy
<1>3. Clear(o, Pkg("paru"))
  <2>1. "paru" \notin Unwanted
    BY ConvergeAssumption
  <2> QED BY <2>1, WhatIsClear
<1>4. \A p : Clear(o, Explicit(p))
  <2>1. \A p : Explicit(p)[1] = "explicit"
    BY FactsDiffer
  <2> QED BY <2>1, WhatIsClear
<1> QED BY <1>2, <1>3, <1>4 DEF DropsOwn, Clear

\* What a step asks for is there when it is its turn, or went along with a
\* package, or it is paru and no step of the plan installs it.
LEMMA AskedIsThere ==
    ASSUME NEW o, ValidAll(o), NEW order, OrderOf(o, order), NEW pos \in DOMAIN order, NEW lost, NEW now,
           Progress(o, order, pos, lost, now), order[pos].disp # "blocked",
           NEW f \in Asked(order[pos]), f \notin now, f \notin lost
    PROVE  f = Pkg("paru") /\ \A i \in DOMAIN order : f \notin order[i].gives
<1> DEFINE s == order[pos]
<1>1. s \in EveryStep(o) /\ pos \in Nat
  BY DEF OrderOf
<1>2. AsksClear(o, s)
  BY <1>1, EveryStepIs DEF Tidy
<1>3. ASSUME NEW j, Took(order, pos, j), f \in order[j].drop PROVE FALSE
  <2>1. j \in DOMAIN order /\ j < pos /\ order[j] \in EveryStep(o)
    BY <1>3 DEF Took, OrderOf
  <2>2. order[j].id # s.id
    <3>1. order[j].id = s.id => order[j] = s
      BY <1>1, <2>1 DEF OrderOf
    <3>2. order[j] = s => j = pos
      BY <2>1 DEF OrderOf
    <3> QED BY <1>1, <2>1, <3>1, <3>2
  <2>3. ~Against(o, f) /\ f # ZshLines
    BY <1>2 DEF AsksClear
  <2>4. \/ Gone(f) /\ order[j].id = "bootstrap.packages.remove"
        \/ f = MenuStaged /\ order[j].id = "bootstrap.boot.grub-publish"
    BY <1>3, <2>1, <2>3, NotTaken
  <2> QED BY <1>2, <2>2, <2>4 DEF AsksClear
<1>4. f \notin o.facts /\ \A i : Took(order, pos, i) => f \notin order[i].want
  BY <1>3 DEF Progress, Kept
<1>5. f = Pkg("paru")
  BY <1>4, AskedBefore DEF Took
<1> QED BY <1>4, <1>5, AskedBefore DEF Took

\* A command has the effect that its step wants, but for a patch.
LEMMA EffectHolds ==
    ASSUME NEW o, ValidAll(o), NEW order, OrderOf(o, order), NEW pos \in DOMAIN order, NEW lost, NEW now,
           Progress(o, order, pos, lost, now), order[pos].disp # "blocked", ~Done(order[pos], now)
    PROVE  /\ (order[pos].need \ now) \ lost # {} =>
                /\ (order[pos].need \ now) \ lost = {Pkg("paru")}
                /\ \A i \in DOMAIN order : Pkg("paru") \notin order[i].gives
           /\ \A gone \in Losses(order[pos]) :
                Done(order[pos], Effect(order[pos], now) \ gone) \/ Mispinned(order[pos])
<1> DEFINE s == order[pos]
<1>1. s \in EveryStep(o)
  BY DEF OrderOf
<1>2. Effective(s) /\ Tidy(o, s)
  BY <1>1, EveryStepIs DEF Tidy
<1>3. \A f \in Asked(s) : f \notin now /\ f \notin lost =>
         f = Pkg("paru") /\ \A i \in DOMAIN order : f \notin order[i].gives
  BY AskedIsThere
<1>4. GoneAlong(lost)
  BY DEF Progress
<1> HIDE DEF s
<1>5. ~Done(s, now)
  BY DEF s
<1>6. Mispinned(s) \/ ~Verifies(s)
  <2> SUFFICES ASSUME Verifies(s), ~Mispinned(s) PROVE FALSE
    OBVIOUS
  <2>1. s.drop = {} /\ \A f \in s.want : f[1] = "patch"
    BY <1>2 DEF Effective, Verifies
  <2>2. Pkg("paru")[1] = "package"
    BY FactsDiffer
  <2>3. \A f \in s.want : f # Pkg("paru") /\ f \notin lost
    BY <1>4, <2>1, <2>2 DEF GoneAlong
  <2>4. s.want \subseteq now
    BY <1>3, <2>3 DEF Asked
  <2> QED BY <1>5, <2>1, <2>4 DEF Done
<1>7. ~Verifies(s)
  BY <1>6 DEF Mispinned, Verifies
<1>8. \A f \in s.need : f \notin now /\ f \notin lost =>
         f = Pkg("paru") /\ \A i \in DOMAIN order : f \notin order[i].gives
  BY <1>3, <1>7 DEF Asked
<1>9. (s.need \ now) \ lost # {} => /\ (s.need \ now) \ lost = {Pkg("paru")}
                                    /\ \A i \in DOMAIN order : Pkg("paru") \notin order[i].gives
  BY <1>8
<1>10. ASSUME NEW gone \in Losses(s), ~Mispinned(s) PROVE Done(s, Effect(s, now) \ gone)
  <2>1. s.want \subseteq s.gives /\ s.drop \cap s.gives = {}
    BY <1>2, <1>7, <1>10 DEF Effective
  <2>2. s.want \subseteq Effect(s, now) /\ s.drop \cap Effect(s, now) = {}
    BY <2>1, EffectIs
  <2>3. gone # {} => s.want = {}
    BY <1>2, LossesAre DEF TakesAlong
  <2> QED BY <2>2, <2>3 DEF Done
<1> QED BY <1>9, <1>10 DEF s

\* A step is taken: it was done, or is done by its command.
LEMMA StepProgresses ==
    ASSUME NEW o, ValidAll(o), NEW order, OrderOf(o, order), NEW pos \in DOMAIN order, NEW lost, NEW now,
           Progress(o, order, pos, lost, now), NEW then, NEW gone,
           \/ gone = {} /\ then = now /\ (order[pos].disp = "blocked" \/ Done(order[pos], now))
           \/ /\ gone \in Losses(order[pos]) /\ then = Effect(order[pos], now) \ gone
              /\ order[pos].disp # "blocked" /\ Done(order[pos], then)
    PROVE  Progress(o, order, pos + 1, lost \cup gone, then)
<1> DEFINE s == order[pos]
<1>1. s \in EveryStep(o) /\ pos \in Nat /\ DOMAIN order \subseteq Nat
  BY DEF OrderOf
<1>2. DropsOwn(o, s) /\ LeavesClear(o, s) /\ Tidy(o, s)
  BY <1>1, EveryStepIs DEF Tidy
<1>3. \A i : Took(order, pos + 1, i) <=> Took(order, pos, i) \/ (i = pos /\ s.disp # "blocked")
  BY <1>1 DEF Took
<1>4. CASE gone = {} /\ then = now /\ s.disp = "blocked"
  <2>1. \A i : Took(order, pos + 1, i) <=> Took(order, pos, i)
    BY <1>3, <1>4
  <2>2. lost \cup gone = lost
    BY <1>4
  <2> QED BY <1>4, <2>1, <2>2 DEF Progress, Kept, Dropped
<1>5. CASE gone = {} /\ then = now /\ s.disp # "blocked" /\ Done(s, now)
  <2>1. s.want \subseteq now /\ s.drop \cap now = {}
    BY <1>5 DEF Done
  <2>2. Kept(o, order, pos + 1, lost, now)
    BY <1>3, <2>1 DEF Progress, Kept
  <2>3. Dropped(order, pos + 1, now)
    BY <1>3, <2>1 DEF Progress, Dropped
  <2>4. lost \cup gone = lost
    BY <1>5
  <2> QED BY <1>5, <2>2, <2>3, <2>4 DEF Progress
<1>6. CASE /\ gone \in Losses(s) /\ then = Effect(s, now) \ gone
           /\ s.disp # "blocked" /\ Done(s, then)
  <2>1. s.want \subseteq then /\ s.drop \cap then = {}
    BY <1>6 DEF Done
  <2>2. \A f \in then : f \in s.gives \/ f \in now
    BY <1>6, EffectIs
  <2>3. \A f \in then : f \in s.gives => ~Against(o, f)
    BY <1>2, <2>1 DEF LeavesClear
  <2>4. \A f \in now : f \in s.drop \/ f \in gone \/ f \in then
    BY <1>6, EffectIs
  <2>5. \A p : Explicit(p) \in s.gives /\ Pkg(p) \notin now => Explicit(p) \in then \/ Explicit(p) \in gone
    BY <1>6, EffectIs
  <2>6. \A f \in gone : \/ \E p : f = Pkg(p) /\ f \in o.facts
                        \/ \E u : f = Service(u)
    BY <1>2, <1>6, LossesAre
  <2>7. \A f \in gone : f[1] \in {"package", "service"}
    BY <2>6, FactsDiffer
  <2>8. \A p : Explicit(p) \notin gone
    BY <2>7, FactsDiffer
  <2>9. \A f \in gone : \A i : Took(order, pos, i) => f \notin order[i].want
    <3> SUFFICES ASSUME NEW f \in gone, NEW i, Took(order, pos, i), f \in order[i].want PROVE FALSE
      OBVIOUS
    <3> QED BY <1>6, LostIsUnwanted DEF Took
  <2> HIDE DEF s
  <2>10. Kept(o, order, pos + 1, lost \cup gone, then)
    <3> SUFFICES ASSUME NEW f, f \notin then,
                        ~\E i : Took(order, pos + 1, i) /\ f \in order[i].drop
                 PROVE  /\ f \in o.facts => f \in lost \cup gone
                        /\ \A i : Took(order, pos + 1, i) => f \notin order[i].want
      BY DEF Kept
    <3>1. f \notin s.drop /\ f \notin s.want
      BY <1>3, <1>6, <2>1 DEF s
    <3>2. ~\E i : Took(order, pos, i) /\ f \in order[i].drop
      BY <1>3
    <3>3. CASE f \in gone
      BY <1>3, <2>9, <3>1, <3>3 DEF s
    <3>4. CASE f \notin gone
      <4>1. f \notin now
        BY <2>4, <3>1, <3>4
      <4>2. /\ f \in o.facts => f \in lost
            /\ \A i : Took(order, pos, i) => f \notin order[i].want
        BY <3>2, <4>1 DEF Progress, Kept
      <4> QED BY <1>3, <3>1, <4>2 DEF s
    <3> QED BY <3>3, <3>4
  <2>11. Dropped(order, pos + 1, then)
    <3> SUFFICES ASSUME NEW i, Took(order, pos, i), NEW f \in order[i].drop, f \in then PROVE FALSE
      BY <1>3, <2>1 DEF Dropped, s
    <3>1. i \in DOMAIN order /\ i < pos
      BY DEF Took
    <3>2. f \in s.gives
      BY <2>2 DEF Progress, Dropped
    <3>3. f = MenuStaged \/ f = ZshLines
      BY <1>2, <2>3, <3>1, <3>2, NotTaken DEF LeavesClear
    <3>4. pos < i
      BY <3>1, <3>2, <3>3, MenuInOrder, ZshInOrder DEF s
    <3> QED BY <1>1, <3>1, <3>4
  <2>12. Gained(o, then)
    <3> SUFFICES ASSUME NEW f \in then, f \notin o.facts
                 PROVE  /\ ~Against(o, f) /\ ~Gone(f) /\ f[1] # "stock"
                        /\ \A p : f = Pkg(p) => p = Driver \/ Explicit(p) \in then
      BY DEF Gained
    <3>1. \A p : Explicit(p) \notin s.drop
      BY NotTaken DEF s
    <3>2. CASE f \in now
      <4>1. /\ ~Against(o, f) /\ ~Gone(f) /\ f[1] # "stock"
            /\ \A p : f = Pkg(p) => p = Driver \/ Explicit(p) \in now
        BY <3>2 DEF Progress, Gained
      <4> QED BY <2>4, <2>8, <3>1, <4>1
    <3>3. CASE f \in s.gives /\ f \notin now
      <4>1. ~Against(o, f) /\ ~Gone(f) /\ f[1] # "stock"
        BY <1>2, <2>3, <3>3 DEF LeavesClear
      <4>2. \A p : f = Pkg(p) => p = Driver \/ Explicit(p) \in s.gives
        BY <1>2, <3>3 DEF LeavesClear
      <4> QED BY <2>5, <2>8, <3>3, <4>1, <4>2
    <3> QED BY <2>2, <3>2, <3>3
  <2>13. GoneAlong(lost \cup gone)
    BY <2>7 DEF Progress, GoneAlong
  <2> QED BY <2>10, <2>11, <2>12, <2>13 DEF Progress
<1> QED BY <1>4, <1>5, <1>6

\* At its end a run has done what it was to do, and nothing else if nothing
\* went along.
LEMMA RunEnds ==
    ASSUME NEW o, ValidAll(o), NEW order, OrderOf(o, order), NEW pos \in Nat, pos > Len(order), NEW lost, NEW now,
           Progress(o, order, pos, lost, now)
    PROVE  Achieved(o, EveryStep(o), now) /\ (lost = {} => Finished(o, EveryStep(o), now))
<1>1. \A s \in EveryStep(o) : s.disp # "blocked" => \E i : Took(order, pos, i) /\ s = order[i]
  <2>1. DOMAIN order = 1..Len(order) /\ Len(order) \in Nat
    BY DEF OrderOf
  <2>2. \A s \in EveryStep(o) : \E i \in DOMAIN order : s = order[i]
    BY PlacesFollow
  <2> QED BY <2>1, <2>2 DEF Took
<1>2. \A f, i : Took(order, pos, i) /\ f \in order[i].drop =>
         Against(o, f) \/ Gone(f) \/ f = MenuStaged \/ f = ZshLines
  BY NotTaken DEF Took
<1>3. ASSUME NEW s \in EveryStep(o), s.disp # "blocked", NEW f \in s.want PROVE Undone(o, f) \/ f \in now
  <2> SUFFICES ASSUME f \notin now PROVE Undone(o, f)
    OBVIOUS
  <2>1. ~Against(o, f) /\ ~Gone(f)
    BY EveryStepIs DEF Tidy
  <2>2. PICK k : Took(order, pos, k) /\ s = order[k]
    BY <1>1, <1>3
  <2>3. PICK i : Took(order, pos, i) /\ f \in order[i].drop
    BY <2>2 DEF Progress, Kept
  <2>4. f = MenuStaged \/ f = ZshLines
    BY <1>2, <2>1, <2>3
  <2>5. f = ZshLines => Shared(o)
    <3>1. f = ZshLines => ZshLines \in s.gives
      BY EveryStepIs DEF Tidy, WritesZsh
    <3> QED BY <2>2, <2>3, <3>1, ZshInOrder DEF Took
  <2> QED BY <2>4, <2>5 DEF Undone
<1>4. ASSUME NEW s \in EveryStep(o), s.disp # "blocked", NEW f \in s.drop PROVE f \notin now
  BY <1>1, <1>4 DEF Progress, Dropped
<1>5. Achieved(o, EveryStep(o), now)
  BY <1>3, <1>4 DEF Achieved
<1>6. lost = {} => \A f \in o.facts : Clear(o, f) => f \in now
  BY <1>2 DEF Progress, Kept, Clear
<1> QED BY <1>5, <1>6 DEF Finished, Progress, Gained

-------------------------------------------------------------------------------
(* What is settled stays so *)

\* Nothing has come but services that bootstrap manages, and nothing has gone,
\* but for the lines of ~/.zshrc where two steps write them.
Unsettled(o, f) == f = ZshLines /\ Shared(o)
OnlyServices(o, after) ==
    /\ \A f \in o.facts : Unsettled(o, f) \/ f \in after
    /\ \A f \in after : \/ f \in o.facts \/ Unsettled(o, f)
                        \/ \E u \in DOMAIN ManagedService : f = Service(u)
SameBut(o, after) == \A f : Unsettled(o, f) \/ (f \in o.facts <=> f \in after)

\* Each service that bootstrap manages runs once its package is there.
Served(o) ==
    Boots(o) => \A u \in DOMAIN ManagedService :
                    Pkg(ManagedService[u]) \in o.facts => Service(u) \in o.facts

\* No step is against a service that bootstrap manages.
LEMMA ServicesAreClear ==
    \A u \in DOMAIN ManagedService :
        /\ Service(u)[1] = "service" /\ Service(u) # Service("vicinae")
        /\ \A o : Clear(o, Service(u))
<1>1. "vicinae" \notin DOMAIN ManagedService
  BY ConvergeAssumption
<1>2. \A u : Service(u) = Service("vicinae") => u = "vicinae"
  BY DEF Service
<1>3. \A u \in DOMAIN ManagedService : u # "vicinae"
  BY <1>1
<1> QED BY <1>2, <1>3, FactsDiffer, WhatIsClear

\* A settled host stays so when services are started and ~/.zshrc is written.
LEMMA SettledStays ==
    ASSUME NEW o, Settled(o), NEW after, OnlyServices(o, after)
    PROVE  Settled(Then(o, after))
<1> DEFINE n == Then(o, after)
<1>1. n.policy = o.policy /\ n.observed = o.observed
  BY DEF Then, Inputs
<1>2. /\ \A f \in o.facts : f # ZshLines => f \in after
      /\ ~Shared(o) => \A f \in o.facts : f \in after
      /\ \A f : f[1] # "service" /\ f \notin o.facts /\ f # ZshLines => f \notin after
      /\ Service("vicinae") \notin o.facts => Service("vicinae") \notin after
  <2>1. ZshLines # Service("vicinae")
    BY ZshIsApart, FactsDiffer
  <2> QED BY <2>1, ServicesAreClear DEF OnlyServices, Unsettled
<1>3. n.facts = after
  BY DEF Then, Inputs
<1>4. /\ \A f \in o.facts : f # ZshLines => f \in n.facts
      /\ ~Shared(o) => \A f \in o.facts : f \in n.facts
      /\ \A f : f[1] # "service" /\ f \notin o.facts /\ f # ZshLines => f \notin n.facts
      /\ Service("vicinae") \notin o.facts => Service("vicinae") \notin n.facts
  BY <1>2, <1>3
<1>12. \A f : f[1] # "file" => f # ZshLines
  BY ZshIsApart
<1> HIDE DEF n
<1>5. BootstrapSettled(n)
  <2>1. /\ Boots(n) <=> Boots(o)
        /\ Updates(n) <=> Updates(o)
        /\ Removes(n) <=> Removes(o)
        /\ Edits(n) <=> Edits(o)
        /\ Shared(n) <=> Shared(o)
    BY <1>1 DEF Boots, Updates, Removes, Edits, Shared, OwnsZsh
  <2>2. \A p : /\ Pkg(p) \in n.facts <=> Pkg(p) \in o.facts
               /\ Explicit(p) \in o.facts => Explicit(p) \in n.facts
    BY <1>4, <1>12, FactsDiffer
  <2>3. /\ HookRemoved \in o.facts => HookRemoved \in n.facts
        /\ SplashRemoved \in o.facts => SplashRemoved \in n.facts
    <3>1. {HookRemoved, SplashRemoved} \subseteq BootFacts
      BY DEF BootFacts
    <3> QED BY <1>4, <1>12, <3>1, FactsDiffer
  <2> QED BY <1>4, <2>1, <2>2, <2>3 DEF Settled, BootstrapSettled
<1>6. FingerprintSettled(n)
  <2>1. Fingered(n) <=> Fingered(o)
    BY <1>1 DEF Fingered
  <2>2. \A f \in TheDriver : f # ZshLines
    BY <1>12, FactsDiffer DEF TheDriver
  <2>3. \A m \in PAMFiles : File(PAMID(m)) # ZshLines
    BY ZshIsApart
  <2> QED BY <1>4, <2>1, <2>2, <2>3 DEF Settled, FingerprintSettled
<1>7. DevtoolsSettled(n)
  <2>1. Pkg("mise") # ZshLines /\ Toolchain # ZshLines
    BY <1>12, FactsDiffer
  <2>2. \A m \in BuildDevtoolsFiles : File(DevtoolsFileID(m)) # ZshLines
    BY ZshIsApart
  <2> QED BY <1>1, <1>4, <2>1, <2>2 DEF Settled, DevtoolsSettled
<1>8. AppsSettled(n)
  <2>1. \A a : TheIcon(n, a) = TheIcon(o, a) /\ OtherIcons(n, a) = OtherIcons(o, a)
    BY <1>1 DEF TheIcon, OtherIcons
  <2>2. \A a : TheIcon(o, a)[1] = "icon" /\ \A f \in OtherIcons(o, a) : f[1] = "icon"
    BY FactsDiffer DEF OtherIcons, TheIcon
  <2>3. HasApps(n) <=> HasApps(o)
    BY <1>1 DEF HasApps
  <2>4. \A x : Pkg(x) # ZshLines /\ Explicit(x) # ZshLines /\ Disabled(x) # ZshLines
               /\ Service(x) # ZshLines /\ Group(x) # ZshLines
    BY <1>12, FactsDiffer
  <2>5. \A f \in AppFiles : File(f) # ZshLines
    BY ZshIsApart DEF AppFiles
  <2>6. \A a : TheIcon(o, a) # ZshLines /\ \A f \in OtherIcons(o, a) : f # ZshLines
    BY <1>12, <2>2
  <2> QED BY <1>4, <2>1, <2>2, <2>3, <2>4, <2>5, <2>6 DEF Settled, AppsSettled
<1>9. VicinaeSettled(n)
  <2>1. StockVersions(n.facts) = StockVersions(o.facts)
    <3>1. \A v : Stock(v) \in n.facts <=> Stock(v) \in o.facts
      BY <1>4, <1>12, FactsDiffer
    <3> QED BY <3>1 DEF StockVersions
  <2>2. Chosen(n) = Chosen(o)
    BY <2>1 DEF Chosen
  <2>3. Launches(n) <=> Launches(o)
    BY <1>1 DEF Launches
  <2>4. \A f \in Overrides : f[1] = "override" /\ f # ZshLines
    BY <1>12, FactsDiffer DEF Overrides
  <2>5. File(Custom)[1] # "service" /\ \A f \in {Environment, Custom} : File(f) # ZshLines
    BY ZshIsApart, FactsDiffer
  <2>6. Pkg(VicinaePackage) # ZshLines /\ Service("vicinae") # ZshLines
    BY <1>12, FactsDiffer
  <2>7. Chosen(o)[1] = "override" /\ Chosen(o) # ZshLines
    BY <1>12, FactsDiffer DEF Chosen
  <2>8. \A f \in Overrides : f \notin o.facts => f \notin n.facts
    BY <1>4, <2>4
  <2> HIDE DEF Environment, Custom
  <2>9. CASE o.observed.remove
    BY <1>1, <1>4, <2>3, <2>5, <2>8, <2>9 DEF Settled, VicinaeSettled
  <2>10. CASE ~o.observed.remove
    BY <1>1, <1>4, <2>1, <2>2, <2>3, <2>5, <2>6, <2>7, <2>8, <2>10 DEF Settled, VicinaeSettled
  <2> QED BY <2>9, <2>10
<1>10. DesktopSettled(n)
  <2>1. Legacy[1] # "service" /\ Legacy # ZshLines
    BY <1>12, FactsDiffer
  <2>2. IsWorkstation(n) <=> IsWorkstation(o)
    BY <1>1 DEF IsWorkstation
  <2>3. \A f \in DesktopWants : f # ZshLines
    BY <1>12, FactsDiffer DEF DesktopWants
  <2>4. File(Session) # ZshLines /\ \A f \in DesktopFiles : File(f) # ZshLines
    BY ZshIsApart, FactsDiffer DEF DesktopFiles, Range
  <2>5. \A c : HostValues(c) # ZshLines
    BY <1>12, FactsDiffer
  <2> QED BY <1>1, <1>4, <2>1, <2>2, <2>3, <2>4, <2>5 DEF Settled, DesktopSettled
<1> QED BY <1>5, <1>6, <1>7, <1>8, <1>9, <1>10 DEF Settled, n

\* The services that run do not mind ~/.zshrc.
LEMMA ServedStays ==
    ASSUME NEW o, Served(o), NEW after, SameBut(o, after)
    PROVE  Served(Then(o, after))
<1>1. Then(o, after).facts = after /\ (Boots(Then(o, after)) <=> Boots(o))
  BY DEF Boots, Then, Inputs
<1>2. \A x : Pkg(x) # ZshLines /\ Service(x) # ZshLines
  BY ZshIsApart, FactsDiffer
<1> QED BY <1>1, <1>2 DEF Served, SameBut, Unsettled

\* The steps that are left to a settled host.
ServiceIDs == {"bootstrap.service." \o u : u \in DOMAIN ManagedService}

\* A settled host is left nothing but the services, and once served nothing,
\* but for ~/.zshrc.
LEMMA OnlyServicesAreLeft ==
    ASSUME NEW o, ValidAll(o), Settled(o), NEW order, OrderOf(o, order), NEW now, OnlyServices(o, now),
           NEW i \in DOMAIN order, order[i].disp # "blocked", ~Done(order[i], now),
           NEW gone \in Losses(order[i])
    PROVE  /\ gone = {} /\ OnlyServices(o, Effect(order[i], now))
           /\ order[i].id \in ServiceIDs \/ (Shared(o) /\ order[i].id \in ZshSteps)
           /\ Served(o) /\ SameBut(o, now) /\ order[i].need \subseteq now =>
                 /\ SameBut(o, Effect(order[i], now))
                 /\ Shared(o) /\ order[i].id \in ZshSteps
<1> DEFINE s == order[i]
<1>1. s \in EveryStep(o)
  BY DEF OrderOf
<1>2. Tidy(o, s)
  BY <1>1, EveryStepIs
<1>3. \A u \in DOMAIN ManagedService : Service(u) \notin s.drop
  BY NotTaken, ServicesAreClear
<1>4. s.disp # "blocked" /\ ~Done(s, now)
  OBVIOUS
<1>5. s.module = "bootstrap" => Boots(o)
  <2>1. s.module = "bootstrap" => s \in BootstrapSteps(o)
    BY <1>1, EveryStepIs
  <2> QED BY <2>1, BootstrapStepsAre DEF ValidAll
<1> HIDE DEF s
<1>6. Serves(s) \/ (Shared(o) /\ WritesZsh(o, s))
  <2>1. Done(s, o.facts) \/ Serves(s) \/ (Shared(o) /\ WritesZsh(o, s))
    BY <1>1, <1>4, EachRests DEF AtRest
  <2>2. ASSUME Done(s, o.facts) PROVE Shared(o) /\ WritesZsh(o, s)
    <3>1. PICK f : (f \in s.want /\ f \notin now) \/ (f \in s.drop /\ f \in now)
      BY <1>4 DEF Done
    <3>2. Unsettled(o, f)
      BY <1>3, <2>2, <3>1 DEF Done, OnlyServices
    <3> QED BY <1>2, <3>1, <3>2 DEF Tidy, Unsettled
  <2> QED BY <2>1, <2>2
<1>7. s.loses = {}
  BY <1>6 DEF Serves, WritesZsh
<1>8. gone = {}
  BY <1>7, NothingLost DEF s
<1>9. CASE Shared(o) /\ WritesZsh(o, s)
  <2>1. s.drop \subseteq {ZshLines} /\ s.gives \subseteq {ZshLines, ZshFile} /\ s.id \in ZshSteps
    BY <1>9 DEF WritesZsh, ZshSteps
  <2>2. ZshFile \in o.facts /\ ZshFile # ZshLines
    <3>1. ModuleEnabled(o.policy, "devtools") /\ Zshrc \in BuildDevtoolsFiles
      BY <1>9 DEF Shared, OwnsZsh
    <3> QED BY <3>1, ZshIsApart DEF Settled, DevtoolsSettled, ZshFile
  <2>3. ASSUME NEW f, f # ZshLines PROVE f \in Effect(s, now) <=> f \in now
    <3>1. ZshFile \in now
      BY <2>2 DEF OnlyServices, Unsettled
    <3> QED BY <2>1, <2>3, <3>1, EffectIs
  <2>5. OnlyServices(o, Effect(s, now))
    BY <1>9, <2>3 DEF OnlyServices, Unsettled
  <2>6. SameBut(o, now) => SameBut(o, Effect(s, now))
    BY <1>9, <2>3 DEF SameBut, Unsettled
  <2> QED BY <1>8, <1>9, <2>1, <2>5, <2>6 DEF s
<1>10. CASE Serves(s)
  <2>1. PICK u \in DOMAIN ManagedService :
           /\ s.id = "bootstrap.service." \o u
           /\ s.want = {Service(u)} /\ s.gives = {Service(u)} /\ s.drop = {}
           /\ s.need = {Pkg(ManagedService[u])}
    BY <1>10 DEF Serves
  <2>2. \A f : f \in Effect(s, now) <=> f \in now \/ f = Service(u)
    BY <2>1, EffectIs
  <2>3. OnlyServices(o, Effect(s, now))
    BY <2>2 DEF OnlyServices
  <2>4. s.id \in ServiceIDs
    BY <2>1 DEF ServiceIDs
  <2>5. ASSUME Served(o), SameBut(o, now), s.need \subseteq now PROVE FALSE
    <3>1. \A x : ~Unsettled(o, Pkg(x)) /\ ~Unsettled(o, Service(x))
      BY ZshIsApart, FactsDiffer DEF Unsettled
    <3>2. Pkg(ManagedService[u]) \in o.facts
      BY <2>1, <2>5, <3>1 DEF SameBut
    <3>3. Boots(o)
      BY <1>5, <1>10 DEF Serves
    <3>4. Service(u) \in now
      BY <2>5, <3>1, <3>2, <3>3 DEF Served, SameBut
    <3> QED BY <1>4, <2>1, <3>4 DEF Done
  <2> QED BY <1>8, <2>3, <2>4, <2>5 DEF s
<1> QED BY <1>6, <1>9, <1>10

\* At the end of a run of a settled host its services run.
LEMMA RunServes ==
    ASSUME NEW o, ValidAll(o), NEW now, OnlyServices(o, now), Finished(o, EveryStep(o), now)
    PROVE  Served(Then(o, now))
<1>1. Boots(Then(o, now)) <=> Boots(o)
  BY DEF Boots, Then, Inputs
<1>2. Then(o, now).facts = now
  BY DEF Then, Inputs
<1>6. \A x : ~Unsettled(o, Pkg(x)) /\ ~Unsettled(o, Service(x))
  BY ZshIsApart, FactsDiffer DEF Unsettled
<1>3. ASSUME Boots(o), NEW u \in DOMAIN ManagedService, Pkg(ManagedService[u]) \in now
      PROVE  Service(u) \in now
  <2>1. Pkg(ManagedService[u]) \in o.facts
    BY <1>3, <1>6, ServicesAreClear, FactsDiffer DEF OnlyServices
  <2>2. CASE Service(u) \in o.facts
    BY <1>6, <2>2 DEF OnlyServices
  <2>3. CASE Service(u) \notin o.facts
    <3>1. u \in ServiceRequests(o.facts)
      BY <2>1, <2>3 DEF ServiceRequests
    <3>2. HasBooting(BootstrapSteps(o), o)
      BY <1>3, BootstrapStepsAre DEF ValidAll
    <3>3. PICK s \in BootstrapSteps(o) : IsBootService(s, u) /\ s.disp # "blocked"
      BY <3>1, <3>2 DEF HasBooting
    <3>4. s \in EveryStep(o) /\ Service(u) \in s.want
      <4>1. BootstrapSteps(o) \subseteq EveryStep(o)
        BY EveryStepIs DEF Six
      <4> QED BY <3>3, <4>1 DEF IsBootService, Is
    <3>5. Service(u)[1] # "boot" /\ Service(u) # ZshLines
      BY ServicesAreClear, ZshIsApart
    <3> QED BY <3>3, <3>4, <3>5, WantedIsThere
  <2> QED BY <2>2, <2>3
<1> QED BY <1>1, <1>2, <1>3 DEF Served

-------------------------------------------------------------------------------
(* Repeated runs *)

Here == Inputs(HostPolicy, evidence, host)

\* A run that nothing disturbed since the last one, or the last two, were
\* complete.
Undisturbed(o) ==
    /\ calm # 0 => /\ Settled(o) /\ OnlyServices(o, host) /\ run.lost = {}
                   /\ run.changed \subseteq ServiceIDs \cup When(Shared(o), ZshSteps)
    /\ calm = 2 => /\ Served(o) /\ SameBut(o, host)
                   /\ run.changed \subseteq When(Shared(o), ZshSteps)
RunsFrom(facts) ==
    LET o == Inputs(HostPolicy, evidence, facts)
    IN  /\ ValidAll(o) /\ OrderOf(o, run.steps) /\ Progress(o, run.steps, run.pos, run.lost, host)
        /\ Undisturbed(o)

CalmInv ==
    /\ calm \in {0, 1, 2}
    /\ calm # 0 => Settled(Here)
    /\ calm = 2 => Served(Here)
ReadyInv ==
    run.phase = "planned" /\ scenario.graphs = {} /\ run.plan.ok =>
        ValidAll(Here) /\ OrderOf(Here, run.plan.steps)
OngoingInv == run.phase = "running" => \E facts : RunsFrom(facts)

CInv == CalmInv /\ ReadyInv /\ OngoingInv

\* What the plans of a host are made from has not changed but for its facts.
LEMMA HereStays ==
    ASSUME UNCHANGED <<world, repository, evidence>>
    PROVE  /\ HostPolicy' = HostPolicy /\ scenario' = scenario
           /\ host' = host => Here' = Here
           /\ Here' = Then(Here, host') /\ Here.facts = host
<1>1. HostPolicy' = HostPolicy /\ scenario' = scenario
  BY DEF HostPolicy, scenario
<1> QED BY <1>1 DEF Here, Then, Inputs

\* The end of a run, and a disturbance.
LEMMA StoppedInv ==
    ASSUME run' = Idle, CInv,
           \/ calm' = 0
           \/ UNCHANGED <<world, repository, evidence, host, calm>>
    PROVE  CInv'
<1>1. CalmInv'
  <2>1. CASE calm' = 0
    BY <2>1 DEF CalmInv
  <2>2. CASE UNCHANGED <<world, repository, evidence, host, calm>>
    BY <2>2, HereStays DEF CInv, CalmInv
  <2> QED BY <2>1, <2>2
<1>2. ReadyInv' /\ OngoingInv'
  BY DEF ReadyInv, OngoingInv, Idle
<1> QED BY <1>1, <1>2 DEF CInv

\* A plan that is made is an order of what the factories return.
LEMMA PlanHostCInv == CInv /\ PlanHost => CInv'
<1> SUFFICES ASSUME CInv, PlanHost PROVE CInv'
  OBVIOUS
<1> DEFINE built == IF HostPolicy.ok THEN BuildModules(HostPolicy) ELSE Invalid
<1>1. /\ UNCHANGED <<world, repository, evidence, host, calm>>
      /\ run' = IF built.valid THEN Planned(built.steps, EverySelection) ELSE Idle
  BY DEF PlanHost
<1>2. CASE ~built.valid
  BY <1>1, <1>2, StoppedInv
<1>3. CASE built.valid
  <2>1. built = BuildModules(HostPolicy)
    BY <1>3 DEF Invalid
  <2> HIDE DEF built
  <2>2. run'.phase = "planned" /\ run'.plan = BuildPlan(built.steps, EverySelection)
    BY <1>1, <1>3 DEF Planned
  <2>3. run'.plan.ok => ValidAll(Here) /\ OrderOf(Here, run'.plan.steps)
    BY <1>3, <2>1, <2>2, PlanIsAnOrder DEF Here
  <2>4. ReadyInv' /\ OngoingInv'
    BY <1>1, <2>2, <2>3, HereStays DEF ReadyInv, OngoingInv
  <2>5. CalmInv'
    BY <1>1, HereStays DEF CInv, CalmInv
  <2> QED BY <2>4, <2>5 DEF CInv
<1> QED BY <1>2, <1>3

\* A graph is not a plan of this host.
LEMMA PlanGraphCInv == CInv /\ PlanGraph => CInv'
<1> SUFFICES ASSUME CInv, PlanGraph PROVE CInv'
  OBVIOUS
<1>1. UNCHANGED <<world, repository, evidence, host, calm>> /\ run'.phase = "planned" /\ scenario.graphs # {}
  BY DEF PlanGraph, Planned
<1>2. CalmInv'
  BY <1>1, HereStays DEF CInv, CalmInv
<1>3. ReadyInv' /\ OngoingInv'
  BY <1>1, HereStays DEF ReadyInv, OngoingInv
<1> QED BY <1>2, <1>3 DEF CInv

\* A run begins from the host that its plan saw.
LEMMA StartCInv == CInv /\ Start => CInv'
<1> SUFFICES ASSUME CInv, Start PROVE CInv'
  OBVIOUS
<1>1. UNCHANGED <<world, repository, evidence, host, calm>> /\ run.phase = "planned"
  BY DEF Start
<1>2. CASE ~(run.plan.ok /\ scenario.graphs = {})
  BY <1>1, <1>2, StoppedInv DEF Start
<1>3. CASE run.plan.ok /\ scenario.graphs = {}
  <2>1. run' = [phase |-> "running", steps |-> run.plan.steps, pos |-> 1, changed |-> {}, lost |-> {}]
    BY <1>3 DEF Start
  <2>2. /\ run'.phase = "running" /\ run'.steps = run.plan.steps /\ run'.pos = 1
        /\ run'.changed = {} /\ run'.lost = {}
    BY <2>1
  <2>3. ValidAll(Here) /\ OrderOf(Here, run'.steps)
    BY <1>1, <1>3, <2>2 DEF CInv, ReadyInv
  <2>4. Progress(Here, run'.steps, run'.pos, run'.lost, Here.facts)
    BY <2>2, <2>3, RunBegins
  <2>5. Here.facts = host /\ OnlyServices(Here, host) /\ SameBut(Here, host)
    BY DEF Here, Inputs, OnlyServices, SameBut
  <2>6. /\ calm # 0 => /\ Settled(Here) /\ OnlyServices(Here, host) /\ run'.lost = {}
                       /\ run'.changed \subseteq ServiceIDs \cup When(Shared(Here), ZshSteps)
        /\ calm = 2 => /\ Served(Here) /\ SameBut(Here, host)
                       /\ run'.changed \subseteq When(Shared(Here), ZshSteps)
    BY <2>2, <2>5 DEF CInv, CalmInv
  <2>7. RunsFrom(host)'
    BY <1>1, <2>3, <2>4, <2>5, <2>6, HereStays DEF RunsFrom, Undisturbed, Here
  <2>8. ReadyInv' /\ OngoingInv'
    BY <2>2, <2>7 DEF ReadyInv, OngoingInv
  <2>9. CalmInv'
    BY <1>1, HereStays DEF CInv, CalmInv
  <2> QED BY <2>8, <2>9 DEF CInv
<1> QED BY <1>2, <1>3

\* Both writers of ~/.zshrc are of the plan when both modules are enabled.
LEMMA SharedIs ==
    ASSUME NEW o, ValidAll(o), OrderOf(o, run.steps), Shared(o)
    PROVE  ZshIsShared
<1>1. \A s \in EveryStep(o) : \E i \in DOMAIN run.steps : s = run.steps[i]
  BY PlacesFollow
<1>2. BootstrapSteps(o) \subseteq EveryStep(o) /\ DevtoolsSteps(o) \subseteq EveryStep(o)
  BY DEF EveryStep, StepsOf, Six
<1>3. \E s \in BootstrapSteps(o) : s.id = "bootstrap.zsh"
  <2>1. HasBooting(BootstrapSteps(o), o)
    BY BootstrapStepsAre DEF ValidAll, Shared, Boots
  <2>2. PICK s \in BootstrapSteps(o) : IsZsh(s)
    BY <2>1 DEF HasBooting
  <2> QED BY <2>2 DEF IsZsh, Is
<1>4. \E s \in DevtoolsSteps(o) : s.id = DevtoolsFileID(Zshrc)
  <2>1. Zshrc \in BuildDevtoolsFiles /\ ModuleEnabled(o.policy, "devtools")
    BY DEF Shared, OwnsZsh
  <2>2. PICK s \in DevtoolsSteps(o) : IsDevtoolsFile(o, s, Zshrc)
    BY <2>1, DevtoolsStepsAre DEF ValidAll
  <2> QED BY <2>2 DEF IsDevtoolsFile
<1>5. ASSUME NEW id \in ZshSteps PROVE id \in {run.steps[i].id : i \in DOMAIN run.steps}
  <2>1. PICK s \in EveryStep(o) : s.id = id
    BY <1>2, <1>3, <1>4 DEF ZshSteps
  <2> QED BY <1>1, <2>1
<1> QED BY <1>5 DEF ZshIsShared

\* A step of a plan is behind the run.
LEMMA TakenCInv ==
    ASSUME IInv, CInv, Running, UNCHANGED <<world, repository, evidence, calm>>, NEW gone,
           \/ /\ host' = host /\ (Current.disp = "blocked" \/ Done(Current, host)) /\ gone = {}
              /\ run' = [run EXCEPT !.pos = @ + 1]
           \/ /\ ToExecute /\ Current.need \subseteq host /\ gone \in Losses(Current)
              /\ host' = Effect(Current, host) \ gone /\ Done(Current, host')
              /\ run' = [run EXCEPT !.pos = @ + 1, !.changed = @ \cup {Current.id},
                                    !.lost = @ \cup gone]
    PROVE  CInv'
<1>1. /\ run.phase = "running" /\ DOMAIN run = {"phase", "steps", "pos", "changed", "lost"}
      /\ run.pos \in Nat \ {0} /\ run.pos <= Len(run.steps)
  BY DEF IInv, RunningInv, Running
<1>2. /\ run'.phase = "running" /\ run'.steps = run.steps /\ run'.pos = run.pos + 1
      /\ run'.lost = run.lost \cup gone
      /\ \/ run'.changed = run.changed /\ host' = host /\ gone = {}
         \/ /\ run'.changed = run.changed \cup {Current.id}
            /\ ToExecute /\ Current.need \subseteq host /\ gone \in Losses(Current)
            /\ host' = Effect(Current, host) \ gone
  BY <1>1
<1>3. PICK facts : RunsFrom(facts)
  BY <1>1 DEF CInv, OngoingInv
<1> DEFINE o == Inputs(HostPolicy, evidence, facts)
<1>4. /\ ValidAll(o) /\ OrderOf(o, run.steps) /\ Progress(o, run.steps, run.pos, run.lost, host)
      /\ Undisturbed(o)
  BY <1>3 DEF RunsFrom
<1>5. o' = o
  BY HereStays
<1>6. Here = Then(o, host) /\ Here' = Then(o, host')
  BY HereStays DEF Here, Then, Inputs
<1> HIDE DEF o
<1>7. run.pos \in DOMAIN run.steps
  <2>1. DOMAIN run.steps = 1..Len(run.steps)
    BY <1>4 DEF OrderOf
  <2> QED BY <1>1, <2>1
<1>8. Progress(o, run'.steps, run'.pos, run'.lost, host')
  <2>1. \/ gone = {} /\ host' = host /\ (Current.disp = "blocked" \/ Done(Current, host))
        \/ /\ gone \in Losses(Current) /\ host' = Effect(Current, host) \ gone
           /\ Current.disp # "blocked" /\ Done(Current, host')
    BY DEF ToExecute
  <2>2. Progress(o, run.steps, run.pos + 1, run.lost \cup gone, host')
    BY <1>4, <1>7, <2>1, StepProgresses DEF Current
  <2> QED BY <1>2, <2>2
<1>9. Undisturbed(o)'
  <2>1. CASE host' = host /\ run'.changed = run.changed /\ gone = {}
    <3>1. run'.lost = run.lost
      BY <1>2, <2>1
    <3> QED BY <1>4, <1>5, <2>1, <3>1 DEF Undisturbed
  <2>2. CASE /\ run'.changed = run.changed \cup {Current.id}
             /\ ToExecute /\ Current.need \subseteq host /\ gone \in Losses(Current)
             /\ host' = Effect(Current, host) \ gone
    <3>1. CASE calm = 0
      BY <3>1 DEF Undisturbed
    <3>2. CASE calm # 0
      <4>1. /\ Settled(o) /\ OnlyServices(o, host) /\ run.lost = {}
            /\ run.changed \subseteq ServiceIDs \cup When(Shared(o), ZshSteps)
            /\ calm = 2 => /\ Served(o) /\ SameBut(o, host)
                           /\ run.changed \subseteq When(Shared(o), ZshSteps)
        BY <1>4, <3>2 DEF Undisturbed
      <4>2. Current.disp # "blocked" /\ ~Done(Current, host)
        BY <2>2 DEF ToExecute
      <4>3. /\ gone = {} /\ OnlyServices(o, Effect(Current, host))
            /\ Current.id \in ServiceIDs \/ (Shared(o) /\ Current.id \in ZshSteps)
            /\ Served(o) /\ SameBut(o, host) /\ Current.need \subseteq host =>
                  /\ SameBut(o, Effect(Current, host))
                  /\ Shared(o) /\ Current.id \in ZshSteps
        BY <1>4, <1>7, <2>2, <4>1, <4>2, OnlyServicesAreLeft DEF Current
      <4>4. host' = Effect(Current, host) /\ run'.lost = {}
        BY <1>2, <2>2, <4>1, <4>3
      <4>5. Shared(o) => When(Shared(o), ZshSteps) = ZshSteps
        BY DEF When
      <4>6. run'.changed \subseteq ServiceIDs \cup When(Shared(o), ZshSteps)
        BY <2>2, <4>1, <4>3, <4>5
      <4>7. calm = 2 => /\ Served(o) /\ SameBut(o, host')
                        /\ run'.changed \subseteq When(Shared(o), ZshSteps)
        BY <2>2, <4>1, <4>3, <4>4, <4>5
      <4>8. calm' = calm
        OBVIOUS
      <4> QED BY <1>5, <4>1, <4>3, <4>4, <4>6, <4>7, <4>8 DEF Undisturbed
    <3> QED BY <3>1, <3>2
  <2> QED BY <1>2, <2>1, <2>2
<1>10. RunsFrom(facts)'
  BY <1>2, <1>4, <1>5, <1>8, <1>9, HereStays DEF RunsFrom, o
<1>11. CalmInv'
  <2>1. CASE calm = 0
    BY <2>1 DEF CalmInv
  <2>2. CASE calm # 0
    <3>1. Settled(o) /\ OnlyServices(o, host') /\ (calm = 2 => Served(o) /\ SameBut(o, host'))
      BY <1>5, <1>9, <2>2 DEF Undisturbed
    <3>2. Settled(Here')
      BY <1>6, <3>1, SettledStays
    <3>3. calm = 2 => Served(Here')
      BY <1>6, <3>1, ServedStays
    <3> QED BY <3>2, <3>3 DEF CInv, CalmInv
  <2> QED BY <2>1, <2>2
<1> QED BY <1>2, <1>10, <1>11 DEF CInv, ReadyInv, OngoingInv

\* What a run does to the host, for every run that a host is planned.
LEMMA RunIs ==
    ASSUME IInv, CInv, run.phase = "running"
    PROVE  \E o : /\ Here = Then(o, host) /\ ValidAll(o) /\ OrderOf(o, run.steps)
                  /\ Progress(o, run.steps, run.pos, run.lost, host) /\ Undisturbed(o)
                  /\ run.pos \in Nat /\ DOMAIN run.steps = 1..Len(run.steps)
                  /\ Running => run.pos \in DOMAIN run.steps
<1>1. PICK facts : RunsFrom(facts)
  BY DEF CInv, OngoingInv
<1> DEFINE o == Inputs(HostPolicy, evidence, facts)
<1>2. /\ ValidAll(o) /\ OrderOf(o, run.steps) /\ Progress(o, run.steps, run.pos, run.lost, host)
      /\ Undisturbed(o)
  BY <1>1 DEF RunsFrom
<1>3. Here = Then(o, host)
  BY DEF Here, Then, Inputs
<1> HIDE DEF o
<1>4. DOMAIN run.steps = 1..Len(run.steps) /\ run.pos \in Nat \ {0}
  BY <1>2 DEF OrderOf, IInv, RunningInv
<1>5. Running => run.pos \in DOMAIN run.steps
  BY <1>4 DEF Running
<1> QED BY <1>2, <1>3, <1>4, <1>5

\* A complete run leaves a settled host, and the next a served one.
LEMMA CompleteCInv == IInv /\ CInv /\ Complete => CInv'
<1> SUFFICES ASSUME IInv, CInv, Complete PROVE CInv'
  OBVIOUS
<1>1. /\ run.phase = "running" /\ run.pos > Len(run.steps) /\ run' = Idle
      /\ UNCHANGED <<world, repository, evidence, host>>
      /\ calm' = IF run.lost # {} THEN 0 ELSE IF calm = 2 THEN 2 ELSE calm + 1
  BY DEF Complete
<1>2. CASE run.lost # {}
  BY <1>1, <1>2, StoppedInv
<1>3. CASE run.lost = {}
  <2>1. PICK o : /\ Here = Then(o, host) /\ ValidAll(o) /\ OrderOf(o, run.steps)
                 /\ Progress(o, run.steps, run.pos, run.lost, host) /\ Undisturbed(o) /\ run.pos \in Nat
    BY <1>1, RunIs
  <2>2. Finished(o, EveryStep(o), host)
    BY <1>1, <1>3, <2>1, RunEnds
  <2>3. Here' = Here
    BY <1>1, HereStays
  <2>4. Settled(Here)
    BY <2>1, <2>2, EachSettles
  <2>5. calm # 0 => Served(Here)
    BY <2>1, <2>2, RunServes DEF Undisturbed
  <2>6. CalmInv'
    BY <1>1, <1>3, <2>3, <2>4, <2>5 DEF CInv, CalmInv
  <2>7. ReadyInv' /\ OngoingInv'
    BY <1>1 DEF ReadyInv, OngoingInv, Idle
  <2> QED BY <2>6, <2>7 DEF CInv
<1> QED BY <1>2, <1>3

\* A check leaves everything as it is.
LEMMA SameCInv ==
    ASSUME CInv, UNCHANGED <<world, repository, evidence, host, run, calm>>
    PROVE  CInv'
<1>1. CalmInv' /\ ReadyInv'
  BY HereStays DEF CInv, CalmInv, ReadyInv
<1>2. ASSUME NEW facts, RunsFrom(facts) PROVE RunsFrom(facts)'
  BY <1>2, HereStays DEF RunsFrom, Undisturbed
<1>3. OngoingInv'
  BY <1>2 DEF CInv, OngoingInv
<1> QED BY <1>1, <1>3 DEF CInv

\* Each step keeps the invariant.
LEMMA NextCInv == IInv /\ CInv /\ [Next]_vars => CInv'
<1> SUFFICES ASSUME IInv, CInv, [Next]_vars PROVE CInv'
  OBVIOUS
<1>1. CASE PlanHost
  BY <1>1, PlanHostCInv
<1>2. CASE PlanGraph
  BY <1>2, PlanGraphCInv
<1>3. CASE Start
  BY <1>3, StartCInv
<1>4. CASE Skip
  BY <1>4, TakenCInv DEF Skip
<1>5. CASE Mutate
  <2>1. PICK gone \in Losses(Current) :
           /\ host' = Effect(Current, host) \ gone
           /\ run' = IF Done(Current, host')
                     THEN [run EXCEPT !.pos = @ + 1, !.changed = @ \cup {Current.id},
                                      !.lost = @ \cup gone]
                     ELSE Idle
    BY <1>5 DEF Mutate
  <2>2. /\ ToExecute /\ Current.need \subseteq host /\ Running
        /\ UNCHANGED <<world, repository, evidence, calm>>
    BY <1>5 DEF Mutate, ToExecute
  <2>3. CASE Done(Current, host')
    BY <2>1, <2>2, <2>3, TakenCInv
  <2>4. CASE ~Done(Current, host')
    <3>1. run' = Idle
      BY <2>1, <2>4
    <3>2. CASE calm = 0
      BY <2>2, <3>1, <3>2, StoppedInv
    <3>3. CASE calm # 0
      <4>1. PICK o : /\ Here = Then(o, host) /\ ValidAll(o) /\ OrderOf(o, run.steps) /\ Undisturbed(o)
                     /\ Progress(o, run.steps, run.pos, run.lost, host) /\ run.pos \in DOMAIN run.steps
        BY <2>2, RunIs DEF Running
      <4>2. Settled(o) /\ OnlyServices(o, host) /\ (calm = 2 => Served(o) /\ SameBut(o, host))
        BY <3>3, <4>1 DEF Undisturbed
      <4>3. Current.disp # "blocked" /\ ~Done(Current, host)
        BY <2>2 DEF ToExecute
      <4>4. /\ gone = {} /\ OnlyServices(o, Effect(Current, host))
            /\ Served(o) /\ SameBut(o, host) => SameBut(o, Effect(Current, host))
        BY <2>2, <4>1, <4>2, <4>3, OnlyServicesAreLeft DEF Current
      <4>5. OnlyServices(o, host') /\ (calm = 2 => Served(o) /\ SameBut(o, host'))
        <5>1. host' = Effect(Current, host)
          BY <2>1, <4>4
        <5> QED BY <4>2, <4>4, <5>1
      <4>6. Here' = Then(o, host')
        BY <2>2, <4>1, HereStays DEF Then, Inputs
      <4>7. CalmInv'
        BY <2>2, <4>2, <4>5, <4>6, SettledStays, ServedStays DEF CInv, CalmInv
      <4>8. ReadyInv' /\ OngoingInv'
        BY <3>1 DEF ReadyInv, OngoingInv, Idle
      <4> QED BY <4>7, <4>8 DEF CInv
    <3> QED BY <3>2, <3>3
  <2> QED BY <2>3, <2>4
<1>6. CASE CommandFails
  BY <1>6, StoppedInv DEF CommandFails
<1>7. CASE Fault
  BY <1>7, StoppedInv DEF Fault
<1>8. CASE Complete
  BY <1>8, CompleteCInv
<1>9. CASE Drift
  BY <1>9, StoppedInv DEF Drift
<1>10. CASE Check
  <2>1. UNCHANGED <<world, repository, evidence, host, run, calm>>
    BY <1>10 DEF Check
  <2> QED BY <2>1, SameCInv
<1>11. CASE UNCHANGED vars
  BY <1>11, SameCInv DEF vars
<1> QED BY <1>1, <1>2, <1>3, <1>4, <1>5, <1>6, <1>7, <1>8, <1>9, <1>10, <1>11 DEF Next

LEMMA InitCInv == Init => CInv
BY DEF Init, Idle, CInv, CalmInv, ReadyInv, OngoingInv

\* Hence it always holds.
LEMMA RunsInvariance == Spec => [](IInv /\ CInv)
BY InitInv, InitCInv, NextInv, NextCInv, PTL DEF Spec

\* A command of a run fails only for paru where no step of the plan installs
\* it, or for what the removal took along; a step that does not hold carries a
\* patch that is not its pin's; and what the steps of a complete run wanted is
\* there at its end, but for the staged menu and the lines of a shared
\* ~/.zshrc.
THEOREM CleanRunsAreClean == Spec => CleanRunsSucceed
<1>1. IInv /\ CInv /\ CommandFails /\ (Current.need \ host) \ run.lost # {} =>
            /\ (Current.need \ host) \ run.lost = {Pkg("paru")}
            /\ \A i \in DOMAIN run.steps : Pkg("paru") \notin run.steps[i].gives
  <2> SUFFICES ASSUME IInv, CInv, CommandFails, (Current.need \ host) \ run.lost # {}
               PROVE  /\ (Current.need \ host) \ run.lost = {Pkg("paru")}
                      /\ \A i \in DOMAIN run.steps : Pkg("paru") \notin run.steps[i].gives
    OBVIOUS
  <2>1. Running /\ Current.disp # "blocked" /\ ~Done(Current, host)
    BY DEF CommandFails, ToExecute
  <2>2. PICK o : /\ ValidAll(o) /\ OrderOf(o, run.steps) /\ Progress(o, run.steps, run.pos, run.lost, host)
                 /\ run.pos \in DOMAIN run.steps
    BY <2>1, RunIs DEF Running
  <2> QED BY <2>1, <2>2, EffectHolds DEF Current
<1>2. IInv /\ CInv /\ Mutate => Done(Current, host') \/ Mispinned(Current)
  <2> SUFFICES ASSUME IInv, CInv, Mutate PROVE Done(Current, host') \/ Mispinned(Current)
    OBVIOUS
  <2>1. Running /\ Current.disp # "blocked" /\ ~Done(Current, host)
    BY DEF Mutate, ToExecute
  <2>2. PICK gone \in Losses(Current) : host' = Effect(Current, host) \ gone
    BY DEF Mutate
  <2>3. PICK o : /\ ValidAll(o) /\ OrderOf(o, run.steps) /\ Progress(o, run.steps, run.pos, run.lost, host)
                 /\ run.pos \in DOMAIN run.steps
    BY <2>1, RunIs DEF Running
  <2>4. Done(Current, Effect(Current, host) \ gone) \/ Mispinned(Current)
    BY <2>1, <2>2, <2>3, EffectHolds DEF Current
  <2> QED BY <2>2, <2>4
<1>3. IInv /\ CInv /\ Complete => \A i \in DOMAIN run.steps : run.steps[i].disp # "blocked" =>
                                      /\ run.steps[i].want \ host \subseteq
                                            {MenuStaged} \cup When(ZshIsShared, {ZshLines})
                                      /\ run.steps[i].drop \cap host = {}
  <2> SUFFICES ASSUME IInv, CInv, Complete, NEW i \in DOMAIN run.steps, run.steps[i].disp # "blocked"
               PROVE  /\ run.steps[i].want \ host \subseteq {MenuStaged} \cup When(ZshIsShared, {ZshLines})
                      /\ run.steps[i].drop \cap host = {}
    OBVIOUS
  <2>1. run.phase = "running" /\ run.pos > Len(run.steps)
    BY DEF Complete
  <2>2. PICK o : /\ ValidAll(o) /\ OrderOf(o, run.steps) /\ Progress(o, run.steps, run.pos, run.lost, host)
                 /\ run.pos \in Nat
    BY <2>1, RunIs
  <2>3. Achieved(o, EveryStep(o), host) /\ run.steps[i] \in EveryStep(o)
    BY <2>1, <2>2, RunEnds DEF OrderOf
  <2>4. \A f : Undone(o, f) => f \in {MenuStaged} \cup When(ZshIsShared, {ZshLines})
    BY <2>2, SharedIs DEF Undone, When
  <2>5. \A f \in run.steps[i].want : Undone(o, f) \/ f \in host
    BY <2>3 DEF Achieved
  <2>6. \A f \in run.steps[i].drop : f \notin host
    BY <2>3 DEF Achieved
  <2> QED BY <2>4, <2>5, <2>6
<1> DEFINE Clean == /\ CommandFails =>
                         LET missing == (Current.need \ host) \ run.lost
                         IN missing # {} => /\ missing = {Pkg("paru")}
                                            /\ \A i \in DOMAIN run.steps : Pkg("paru") \notin run.steps[i].gives
                    /\ Mutate => Done(Current, host') \/ Mispinned(Current)
                    /\ Complete => \A i \in DOMAIN run.steps :
                         run.steps[i].disp # "blocked" =>
                            /\ run.steps[i].want \ host \subseteq
                                  {MenuStaged} \cup When(ZshIsShared, {ZshLines})
                            /\ run.steps[i].drop \cap host = {}
<1>4. IInv /\ CInv => Clean
  BY <1>1, <1>2, <1>3
<1>5. CleanRunsSucceed <=> [][Clean]_vars
  BY DEF CleanRunsSucceed
<1> HIDE DEF Clean
<1> QED BY <1>4, <1>5, RunsInvariance, PTL

\* After complete runs that nothing disturbed, applying again changes nothing
\* but services after the first, and ~/.zshrc where two modules write it,
\* whatever the policy, the evidence and the host.
THEOREM AppliesConverge == Spec => []Converges
<1>1. ASSUME IInv, CInv PROVE Converges
  <2> SUFFICES ASSUME run.phase = "running", calm > 0
               PROVE  run.changed \subseteq When(calm = 1, ServiceIDs) \cup When(ZshIsShared, ZshSteps)
    BY DEF Converges, ServiceIDs
  <2>1. PICK o : ValidAll(o) /\ OrderOf(o, run.steps) /\ Undisturbed(o)
    BY <1>1, RunIs
  <2>2. When(Shared(o), ZshSteps) \subseteq When(ZshIsShared, ZshSteps)
    BY <2>1, SharedIs DEF When
  <2>3. calm = 1 \/ calm = 2
    BY <1>1 DEF CInv, CalmInv
  <2>4. CASE calm = 1
    <3>1. When(calm = 1, ServiceIDs) = ServiceIDs
      BY <2>4 DEF When
    <3>2. run.changed \subseteq ServiceIDs \cup When(Shared(o), ZshSteps)
      BY <2>1, <2>4 DEF Undisturbed
    <3> QED BY <2>2, <3>1, <3>2
  <2>5. CASE calm = 2
    BY <2>1, <2>2, <2>5 DEF Undisturbed
  <2> QED BY <2>3, <2>4, <2>5
<1> QED BY <1>1, RunsInvariance, PTL
=============================================================================
