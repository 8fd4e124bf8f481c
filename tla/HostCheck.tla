------------------------------ MODULE HostCheck ------------------------------
(***************************************************************************)
(* The check command: an inventory of what the host should be, the         *)
(* snapshot an observer takes of it, and the findings that make the exit   *)
(* status.  It takes no lock and writes nothing.                           *)
(*                                                                         *)
(* Each kind of the inventory is a set of records with a name; the         *)
(* snapshot gives, for each kind, a sequence of observations of names.     *)
(* None is a value that was not given.                                     *)
(***************************************************************************)
EXTENDS Integers, Sequences, FiniteSets, SequencesExt

None == ""
OnlyIf(condition, findings) == IF condition THEN findings ELSE {}

Observed(observations, name) == {i \in DOMAIN observations : observations[i].name = name}
ByName(items, name) == CHOOSE item \in items : item.name = name
NamesIn(items) == {item.name : item \in items}

\* Without an inventory of its own, a kind is checked for what was observed.
CheckedNames(expected, observations) ==
    IF expected # {} THEN NamesIn(expected) ELSE NamesIn(Range(observations))

\* Of several observations of a name, the last one counts.
IndexLast(observations, name) ==
    {observations[i] : i \in {j \in Observed(observations, name) :
                                \A k \in Observed(observations, name) : k <= j}}

\* One observation of each name, no more and no less.
Index(observations, name) ==
    IF Cardinality(Observed(observations, name)) = 1
    THEN {observations[i] : i \in Observed(observations, name)} ELSE {}

Finding(kind, name, class) == [kind |-> kind, name |-> name, class |-> class]

Seen(observations, name) == CHOOSE v \in Index(observations, name) : TRUE

\* The class is that of what was seen, "none" when that is what is wanted.
Evaluate(kind, observations, name, class) ==
    Finding(kind, name, IF Index(observations, name) = {} THEN "unknown" ELSE class)

-----------------------------------------------------------------------------
\* An observation that states nothing is judged by what it carries.
FileState(observed) ==
    IF observed.state # None THEN observed.state
    ELSE IF observed.live # None THEN "observed" ELSE "missing"

\* Drift from the last receipt is told from drift of the desired state, and
\* both from a file nobody owns.
ClassifyManagedFile(expected, observed) ==
    CASE FileState(observed) = "missing" ->
           IF expected.after # None THEN "post-apply"
           ELSE IF expected.desired = None THEN "unknown" ELSE "desired-state"
      [] FileState(observed) = "observed" /\ observed.live # None ->
           IF ~expected.owned /\ ~observed.owned THEN "unmanaged-conflict"
           ELSE IF expected.after \notin {None, observed.live} THEN "post-apply"
           ELSE IF expected.desired = None THEN "unknown"
           ELSE IF observed.live # expected.desired THEN "desired-state" ELSE "none"
      [] OTHER -> "unknown"

EvaluateManagedFiles(expected, observed) ==
    {Evaluate("managed-file", observed, n,
              ClassifyManagedFile(ByName(expected, n), Seen(observed, n))) :
       n \in NamesIn(expected)}

EvaluateValidators(expected, observed) ==
    {Evaluate("validator", observed, n,
              LET status == Seen(observed, n).status
              IN CASE status = "passed" -> "none"
                   [] status = "failed" -> "desired-state"
                   [] OTHER -> "unknown") :
       n \in CheckedNames(expected, observed)}

\* A package without a status is judged by its presence and its version.
EvaluatePackages(expected, observed) ==
    {Evaluate("package", observed, n,
              LET v == Seen(observed, n)
              IN IF v.status = "unknown" THEN "unknown"
                 ELSE IF \/ v.status = "failed" \/ ~v.present
                         \/ expected # {} /\ ByName(expected, n).version \notin {None, v.version}
                 THEN "desired-state" ELSE "none") :
       n \in CheckedNames(expected, observed)}

EvaluateServices(expected, observed) ==
    {Evaluate("service", observed, n,
              LET v == Seen(observed, n)
              IN IF v.status = "unknown" THEN "unknown"
                 ELSE IF \/ v.status = "failed" \/ ~v.installed
                         \/ expected # {} /\ ByName(expected, n).enabled /\ ~v.enabled
                         \/ expected # {} /\ ByName(expected, n).active /\ ~v.active
                 THEN "desired-state" ELSE "none") :
       n \in CheckedNames(expected, observed)}

\* Boot and PAM files: by hash when they are expected, else by status alone.
EvaluateConfigurations(kind, expected, observed) ==
    {Evaluate(kind, observed, n,
              LET v == Seen(observed, n)
              IN IF v.status = "unknown" THEN "unknown"
                 ELSE IF v.status = "failed" THEN "desired-state"
                 ELSE IF expected = {} THEN IF v.status = "passed" THEN "none" ELSE "unknown"
                 ELSE IF None \in {ByName(expected, n).desired, v.live} THEN "unknown"
                 ELSE IF v.live # ByName(expected, n).desired THEN "desired-state" ELSE "none") :
       n \in CheckedNames(expected, observed)}

\* A failed unit the observer lists is a finding; a list it did not take is
\* an empty list.
EvaluateFailedUnits(observed) ==
    {Finding("failed-unit", u, IF u = None THEN "unknown" ELSE "desired-state") :
       u \in Range(observed)}

EvaluatePacmanIntegrity(checks, observed) ==
    {Evaluate("pacman-integrity", observed, n,
              LET v == Seen(observed, n)
              IN IF v.status = "unknown" THEN "unknown"
                 ELSE IF v.status = "failed" \/ (v.status = None /\ ~v.clean)
                 THEN "desired-state" ELSE "none") :
       n \in CheckedNames(checks, observed)}

\* Replacement configurations and fingers not enrolled are warnings.
EvaluateFingerprint(expected, observed) ==
    OnlyIf((expected \/ observed # None) /\ observed # "present", {"fingerprint-enrollment"})
EvaluatePacnew(observed) == OnlyIf(observed # <<>>, {"pacnew"})

-----------------------------------------------------------------------------
Report(findings, warnings) ==
    LET drift == {f \in findings : f.class # "none"}
    IN [findings |-> drift, warnings |-> warnings, exit |-> IF drift = {} THEN 0 ELSE 1]

EvaluateCheck(request, snapshot) ==
    Report(EvaluateManagedFiles(request.files, snapshot.files)
           \cup EvaluateValidators(request.validators, snapshot.validators)
           \cup EvaluatePackages(request.packages, snapshot.packages)
           \cup EvaluateServices(request.services, snapshot.services)
           \cup EvaluateConfigurations("boot", request.boot, snapshot.boot)
           \cup EvaluateConfigurations("pam", request.pam, snapshot.pam)
           \cup EvaluateFailedUnits(snapshot.failedUnits)
           \cup EvaluatePacmanIntegrity(request.pacman, snapshot.pacman),
           EvaluateFingerprint(request.fingerprint, snapshot.fingerprint)
           \cup EvaluatePacnew(snapshot.pacnew))

\* Without a snapshot everything the inventory names is unknown; enrolled
\* fingers alone stay a warning.
FailClosedReport(request) ==
    LET Unknown(kind, items) == {Finding(kind, n, "unknown") : n \in NamesIn(items)}
        findings == Unknown("managed-file", request.files)
                    \cup Unknown("validator", request.validators)
                    \cup Unknown("package", request.packages)
                    \cup Unknown("service", request.services)
                    \cup Unknown("boot", request.boot) \cup Unknown("pam", request.pam)
                    \cup Unknown("pacman-integrity", request.pacman)
                    \cup OnlyIf(request.failedUnits, {Finding("failed-unit", "failed-units", "unknown")})
                    \cup OnlyIf(request.pacnew, {Finding("pacnew", "pacnew", "unknown")})
        warnings == OnlyIf(request.fingerprint, {"fingerprint-enrollment"})
    IN Report(findings \cup OnlyIf(findings = {} /\ warnings = {},
                                  {Finding("observation", "check-observer", "unknown")}),
              warnings)

CheckReport(request, failed, snapshot) ==
    IF failed THEN FailClosedReport(request) ELSE EvaluateCheck(request, snapshot)
=============================================================================
