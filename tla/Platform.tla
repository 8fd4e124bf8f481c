------------------------------- MODULE Platform ------------------------------
(***************************************************************************)
(* What the CachyOS factories share: the facts a host is described by, the *)
(* authority a risky step needs, managed files, and packages built from a  *)
(* pinned source tree.                                                     *)
(*                                                                         *)
(* A host is a set of facts.  A factory reads the host (its observation),  *)
(* the policy and the evidence, and returns the steps of its module or     *)
(* Invalid when it refuses the whole plan.                                 *)
(***************************************************************************)
EXTENDS Planner, Catalog

CONSTANTS
    PatchOf,    \* hash of the patch each commit of a package source carries
    Patches     \* the hashes a pin may name

Pkg(p)      == <<"package", p>>
Explicit(p) == <<"explicit", p>>
Service(u)  == <<"service", u>>         \* enabled and running
File(f)     == <<"file", f>>            \* has the desired contents and mode
Commits     == DOMAIN PatchOf
Fetched(p, c) == <<"fetched", p, c>>    \* the clone has the commit
Tree(p, c)    == <<"tree", p, c>>       \* the commit is checked out
Patch(p, h)   == <<"patch", p, h>>      \* the patch file has this hash

When(condition, steps) == IF condition THEN steps ELSE {}

Invalid == [valid |-> FALSE]
Valid(steps) == [valid |-> TRUE, steps |-> steps]

ConvergedDisposition(b) == IF b THEN "satisfied" ELSE "apply"
Done(s, host) == s.want \subseteq host /\ s.drop \cap host = {}

\* A step that mutates unless the observation already has what it wants.
ModuleRequestStep(id, module, deps, want, need, host) ==
    [Step(id, module, deps, ConvergedDisposition(want \subseteq host), want, {})
       EXCEPT !.need = need, !.inverse = TRUE]
ManagedFileStep(id, module, deps, host) ==
    ModuleRequestStep(id, module, deps, {File(id)}, {}, host)

\* A file that exists with other contents has to be adopted first.
PlannerInverse(id, evidence) == id \notin evidence.unowned

-----------------------------------------------------------------------------
\* Ready evidence taken for authority.
CapabilityEvidenceUngranted(policy, evidence, capability) ==
    IF capability \in DOMAIN evidence.caps THEN evidence.caps[capability] ELSE "unknown"

\* The evidence for a capability the host's own policy grants.
CapabilityEvidence(policy, evidence, capability) ==
    IF ~Allows(policy, capability) THEN "denied"
    ELSE IF capability \notin DOMAIN evidence.caps THEN "unknown"
    ELSE evidence.caps[capability]

ValidEvidence == {"ready", "blocked", "unknown"}

BlockedPolicyStep(module, capability) ==
    Step("policy." \o capability, module, {}, "blocked", {}, {})

\* The blocked steps of those capabilities that are granted and not ready.
BlockedSteps(policy, evidence, module, capabilities) ==
    {BlockedPolicyStep(module, c) : c \in
        {d \in capabilities :
            CapabilityEvidence(policy, evidence, d) \in {"blocked", "unknown"}}}
Ready(policy, evidence, capability) ==
    CapabilityEvidence(policy, evidence, capability) = "ready"
Readable(policy, evidence, capabilities) ==
    \A c \in capabilities :
        Allows(policy, c) => CapabilityEvidence(policy, evidence, c) \in ValidEvidence

ModuleEnabled(policy, name) ==
    name \in DOMAIN policy.desired.modules /\ policy.desired.modules[name]

DeclaresRole(policy, role) == role \in Range(policy.roles)

\* An asset is [kind, owner, capability, name], of a "host", a "role" or
\* "legacy": templates of a host belong to a capability it grants, templates
\* of a role to one it declares, overlays to the host.
ValidateAssetOwnership(policy) ==
    /\ \A a \in policy.desired.templates :
          /\ a.kind = "host" => a.owner = policy.name /\ Allows(policy, a.capability)
          /\ a.kind = "role" => DeclaresRole(policy, a.owner)
          /\ a.kind # "legacy"
    /\ \A a \in policy.desired.overlays : a.owner = policy.name

OwnedHostTemplates(policy, capability) ==
    {a \in policy.desired.templates :
        a.kind = "host" /\ a.owner = policy.name /\ a.capability = capability}
OwnedRoleTemplates(policy, role) ==
    IF DeclaresRole(policy, role)
    THEN {a \in policy.desired.templates : a.kind = "role" /\ a.owner = role} ELSE {}

-----------------------------------------------------------------------------
\* Packages built from a source tree at the commit the catalog pins.
AURPin(policy, name) == policy.desired.pins.aurLocal[name]
HasAURPin(policy, name) == name \in DOMAIN policy.desired.pins.aurLocal
ValidateAURLocalPin(pin) == pin.sourceCommit \in Commits /\ pin.patchSHA256 \in Patches

\* The five steps every such package is planned as: tree and patch say how
\* the checkout and the patch are disposed of, after what the clone waits for.
SourceSteps(prefix, module, p, pin, after, tree, patch) ==
    LET c == pin.sourceCommit
        h == pin.patchSHA256
        New(op, deps, disp, want, drop, need, gives) ==
            [Step(prefix \o op, module, deps, disp, want, drop)
               EXCEPT !.need = need, !.gives = gives, !.inverse = TRUE]
    IN {New(".fetch", after, "apply", {Fetched(p, c)}, {}, {}, {Fetched(p, c)}),
        New(".checkout", {prefix \o ".fetch"}, tree, {Tree(p, c)},
            {Tree(p, d) : d \in Commits \ {c}}, {Fetched(p, c)}, {Tree(p, c)}),
        \* git writes the patch of the commit, whatever the pin says of it
        New(".patch.materialize", {prefix \o ".checkout"}, patch, {Patch(p, h)},
            {Patch(p, g) : g \in Patches \ {h}}, {Fetched(p, c)}, {Patch(p, PatchOf[c])}),
        New(".patch.verify", {prefix \o ".patch.materialize"}, patch, {Patch(p, h)},
            {}, {Patch(p, PatchOf[c])}, {}),
        \* paru builds whatever is checked out
        New(".install", {prefix \o ".patch.verify"}, "apply", {Pkg(p)},
            {}, {Pkg("paru"), Tree(p, c), Patch(p, h)}, {Pkg(p), Explicit(p)})}
=============================================================================
