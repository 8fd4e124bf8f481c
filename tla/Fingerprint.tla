----------------------------- MODULE Fingerprint -----------------------------
(***************************************************************************)
(* The fingerprint module: a driver package built from embedded packaging  *)
(* and verified before it is installed, and the PAM files that let it      *)
(* authenticate.  None of it is planned without the host's authority.      *)
(***************************************************************************)
EXTENDS Platform

CONSTANT PAMFiles       \* names of the overlays

Driver == "libfprint-egismoc-sdcp-git"
AtPin  == <<"driver", "at pin">>        \* commit and pkgrel of the resolved pin

\* Each operation of the build needs what the one before it leaves.
BuildOperations ==
    <<"fingerprint.build.root", "fingerprint.build.pkgbuild.write",
      "fingerprint.build.patch.write", "fingerprint.build.inputs.verify",
      "fingerprint.package.build", "fingerprint.package.artifact.verify">>
InstallOperation == "fingerprint.package.install"
Built(op) == <<"built", op>>

BuildRequests(host) ==
    LET Need(i) == IF i = 1 THEN {} ELSE {Built(BuildOperations[i - 1])}
        Dep(i)  == IF i = 1 THEN {} ELSE {BuildOperations[i - 1]}
        last    == Last(BuildOperations)
    IN {[Step(BuildOperations[i], "fingerprint", Dep(i), "apply",
              {Built(BuildOperations[i])}, {}) EXCEPT !.need = Need(i)] :
          i \in DOMAIN BuildOperations}
       \cup {[Step(InstallOperation, "fingerprint", {last}, "apply", {Pkg(Driver), AtPin}, {})
                EXCEPT !.need = {Built(last)}, !.inverse = TRUE]}

\* The same step stands for a driver that is there at the pin, without inverse.
FingerprintPackageStep ==
    Step(InstallOperation, "fingerprint", {}, "satisfied", {Pkg(Driver), AtPin}, {})

PAMID(name) == "fingerprint.pam." \o name
PAMFileSteps(host) ==
    {[ManagedFileStep(PAMID(f), "fingerprint", {InstallOperation}, host)
        EXCEPT !.need = {Pkg(Driver), AtPin}] : f \in PAMFiles}

\* The resolved pin must be the embedded packaging's, the driver to replace
\* must have an artifact to go back to, and every PAM file an owner.
ValidateFingerprint(evidence, host) ==
    /\ "fingerprint pin" \notin evidence.faulty
    /\ Pkg(Driver) \in host /\ AtPin \notin host => "rollback artifact" \notin evidence.faulty
    /\ \A f \in PAMFiles : PlannerInverse(PAMID(f), evidence)

BuildFingerprintPlan(host) ==
    (IF {Pkg(Driver), AtPin} \subseteq host THEN {FingerprintPackageStep} ELSE BuildRequests(host))
    \cup PAMFileSteps(host)

Fingerprint(policy, evidence, host) ==
    IF ~ModuleEnabled(policy, "fingerprint") THEN Valid({})
    ELSE IF ~Readable(policy, evidence, {"fingerprintPam"}) THEN Invalid
    ELSE IF ~Ready(policy, evidence, "fingerprintPam")
         THEN Valid(BlockedSteps(policy, evidence, "fingerprint", {"fingerprintPam"}))
    ELSE IF ValidateFingerprint(evidence, host) THEN Valid(BuildFingerprintPlan(host))
    ELSE Invalid
=============================================================================
