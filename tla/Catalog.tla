------------------------------- MODULE Catalog -------------------------------
(***************************************************************************)
(* The catalog: a host's policy is the merge of the global document, the   *)
(* documents of its roles in the order it declares them, and its own.      *)
(*                                                                         *)
(* A document is a function whose domain is the set of the fields that are *)
(* present in the YAML.  modules, checkoutPins and each kind of pin are    *)
(* maps, merged key by key; roles, riskPolicy, templates and overlays are  *)
(* whole values.  A pin is a function of the fields it gives.              *)
(***************************************************************************)
EXTENDS Integers, Sequences, SequencesExt

CONSTANT Assets     \* paths embedded in the binary

KnownModules == {"bootstrap", "fingerprint", "devtools", "apps", "vicinae",
                 "desktop", "verify"}

RiskCapabilities == {"fingerprintPam", "fixedDisplays", "fixedInputDevices",
    "literalHomePaths", "bootstrapSystemUpdate", "bootstrapPackageRemoval",
    "bootstrapBootMutation", "cosmicPrune"}

\* The pin sources with typed values, and the fields each value needs.
RequiredFields == [aurLocal        |-> {"sourceCommit", "patchSHA256"},
                   remoteArtifacts |-> {"url", "sha256"},
                   pacmanArtifacts |-> {"package", "version", "source", "sha256"},
                   checkoutPins    |-> {"remote", "branch", "commit"}]

-----------------------------------------------------------------------------
\* The last document that has the field decides: omission inherits, an
\* explicit empty value replaces.
LastValue(docs, field, default) ==
    LET present == SelectSeq(docs, LAMBDA d : field \in DOMAIN d)
    IN  IF present = <<>> THEN default ELSE Last(present)[field]

\* A present map adds its keys and replaces, as a whole, the value of a key
\* an earlier layer defined; it removes none.
MergeMaps(docs, field) ==
    LET maps == {docs[i][field] : i \in {j \in DOMAIN docs : field \in DOMAIN docs[j]}}
        Last2(key) == Last(SelectSeq(docs, LAMBDA d : /\ field \in DOMAIN d
                                                      /\ key \in DOMAIN d[field]))
    IN  [key \in UNION {DOMAIN m : m \in maps} |-> Last2(key)[field][key]]

MissingPinField(docs) ==
    \E i \in DOMAIN docs : \E source \in DOMAIN RequiredFields \cap DOMAIN docs[i] :
       \E name \in DOMAIN docs[i][source] :
          DOMAIN docs[i][source][name] # RequiredFields[source]

MergeDocuments(docs) ==
    [kind      |-> Last(docs).kind,
     modules   |-> MergeMaps(docs, "modules"),
     roles     |-> LastValue(docs, "roles", <<>>),
     templates |-> LastValue(docs, "templates", {}),
     overlays  |-> LastValue(docs, "overlays", {}),
     pins      |-> [source \in DOMAIN RequiredFields |-> MergeMaps(docs, source)]]

Validate(catalog) ==
    /\ catalog.kind # "host" => catalog.roles = <<>>
    /\ DOMAIN catalog.modules \subseteq KnownModules
    /\ catalog.templates \cup catalog.overlays \subseteq Assets

ValidateRepositoryLayer(doc, want) ==
    /\ doc.kind = want
    /\ want # "host" => {"roles", "riskPolicy"} \cap DOMAIN doc = {}

-----------------------------------------------------------------------------
\* What a host resolves to; its risks are those of its own document, never
\* what the merge makes of the layers.
Resolve(repository, name) ==
    LET host  == repository.hosts[name]
        roles == IF "roles" \in DOMAIN host THEN host.roles ELSE <<>>
        docs  == <<repository.global>>
                 \o [i \in DOMAIN roles |-> repository.roles[roles[i]]] \o <<host>>
        risks == IF "riskPolicy" \in DOMAIN host THEN host.riskPolicy ELSE {}
    IN  IF \/ name \notin DOMAIN repository.hosts
           \/ ~ValidateRepositoryLayer(repository.global, "global")
           \/ ~ValidateRepositoryLayer(host, "host")
           \/ ~IsInjective(roles) \/ ~(Range(roles) \subseteq DOMAIN repository.roles)
           \/ \E r \in Range(roles) : ~ValidateRepositoryLayer(repository.roles[r], "role")
           \/ MissingPinField(docs)
           \/ ~Validate(MergeDocuments(docs))
        THEN [ok |-> FALSE]
        ELSE [ok |-> TRUE, name |-> name, roles |-> roles, risks |-> risks,
              desired |-> MergeDocuments(docs)]

Allows(policy, capability) == capability \in policy.risks
=============================================================================
