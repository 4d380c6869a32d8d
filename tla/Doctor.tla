------------------------------- MODULE Doctor -------------------------------
(***************************************************************************)
(* `aru doctor` over the life of a project (internal/doctor/doctor.go,      *)
(* baseline.go and doctor.go).  An author edits the project, leaves a file   *)
(* in the middle of an edit so that it does not parse, mends it, follows    *)
(* the report; between two changes the command is run, and a pipeline runs  *)
(* it with --strict and the baseline the team wrote.                        *)
(***************************************************************************)
EXTENDS DoctorRules, DoctorStructure

CONSTANTS
    Project,    \* the project the author starts from
    Edits,      \* what one edit changes: [path, text, field], see Edited
    Breakable,  \* the files an edit may leave unparsable
    MaxEdits,   \* bound: edits
    MaxChanges  \* bound: edits, broken files and changes of profile

ASSUME ProjectAssumption == IsProject(Project)

VARIABLES
    p,          \* the project on disk
    report,     \* what the last run printed
    baseline,   \* doctor-baseline.json, or NoBaseline
    passed,     \* how the last run ended
    change,     \* what happened since that run
    edits       \* how many of these changes there have been, for the bounds

vars == <<p, report, baseline, passed, change, edits>>

----------------------------------------------------------------------------
(* analyze: the report of a project is what every rule answers, on what     *)
(* parses.                                                                 *)
ProfileFindings(q) ==
    TheProfileIsDeclared(q) \cup QueriesReachOneAggregate(q) \cup TransactionsStayInsideOneAggregate(q)

\* The rules that conclude from what no file declares and that look at the files
\* that do not parse before they do; constructorsAreWired among them.  Those that
\* conclude so and do not look are in the groups below: see Unasked.
AskingFindings(q) ==
    TheOutboxTableTravels(q) \cup MigrationsMustReachTheBinary(q)
    \cup ConfiguredEnginesAreLinked(q) \cup ConstructorsAreWired(q) \cup RequestValidatesByHand(q)
    \cup PermissionsNotUsed(q)

AccessFindings(q) ==
    RepositoryNeedsPolicy(q) \cup RepositoryMethodNeedsGrant(q) \cup ActionsAreConstants(q)
    \cup EnumRulesAreDerived(q) \cup PolicyMustBeOpened(q) \cup PoliciesDeclareTheirWrites(q)
    \cup ControllerMustNotReachData(q) \cup ControllerMustNotReachTheRepository(q)
    \cup TenantMustComeFromTheGrant(q) \cup SystemGrantIsAudited(q) \cup NoBuiltSQL(q)
    \cup SensitiveFieldNeedsRedaction(q) \cup SessionMustRotateOnLogin(q)
    \cup CsrfExemptionsVerifyASignature(q) \cup TenantMustScopeTheSQL(q)
    \cup ResourceNotReauthorized(q)

ShapeFindings(q) ==
    ViewDataMustBeAStruct(q) \cup ViewMustExist(q) \cup DeclaredPermissionsMatchTheCode(q)
    \cup ViewsKeepNoStateInTheBrowser(q) \cup RawOutputIsAComponent(q)
    \cup NoRetiredModuleIsImported(q) \cup ImportsAreCanonical(q)
    \cup AddedColumnsMustBeNullable(q) \cup MigrationsMustBeReversible(q)
    \cup ModelQueryIsCurrent(q) \cup ModelCoreStaysInTheModels(q)
    \cup SkillsFollowTheirOrigin(q) \cup DistributedSkillsArePresent(q)
    \cup GeneratedSkillsAreRetired(q)

PlaceFindings(q) ==
    InputIsBoundNotRead(q) \cup TheServiceValidates(q) \cup JSONIsWrittenByTheFramework(q)
    \cup ARejectedFormIsARedirect(q) \cup TheSessionIsLoadedByTheGuard(q)
    \cup RedirectsNameARoute(q) \cup MarkupIsAView(q) \cup ServicesSpeakNoHTTP(q)
    \cup ServicesAreFlat(q) \cup ServiceFilesStayReadable(q) \cup ControllersStaySmall(q)
    \cup OperationsAreRoutes(q) \cup ExternalCallsGoThroughAClient(q) \cup EntityRulesArePure(q)
    \cup FragmentsArePartials(q) \cup HelpersComeFromTheCatalog(q) \cup SQLLivesInRepositories(q)
    \cup SubjectsComeFromStoredAccess(q) \cup BootstrapIsOnlyApp(q) \cup ProgramsAreNotUnderCmd(q)
    \cup CommandsLiveInConsoleCommands(q) \cup ScriptsAreNotPrograms(q)
    \cup OrderIsNotChosenByTheRequest(q)

SuiteFindings(q) ==
    TestsAreWhereTheyCanRun(q) \cup TestsDoNotSleep(q) \cup TestsSignInForReal(q)
    \cup LocatorsSpeakAsTheUser(q) \cup ConformanceIsCalledNotCopied(q) \cup JourneysRunInCI(q)
    \cup SkipsSayWhy(q) \cup TestsNameNoDriver(q)

\* Mutant: a profile has rules of its own in the place of the others.
FindingsOfOneProfile(q) ==
    UnreadableFiles(q) \cup AccessFindings(q) \cup AskingFindings(q) \cup PlaceFindings(q)
    \cup SuiteFindings(q)
    \cup (IF q.profile = "performance" THEN ProfileFindings(q) ELSE ShapeFindings(q))

Findings(q) ==
    UnreadableFiles(q) \cup AccessFindings(q) \cup AskingFindings(q) \cup ShapeFindings(q)
    \cup PlaceFindings(q) \cup SuiteFindings(q) \cup ProfileFindings(q)

----------------------------------------------------------------------------
(* The baseline: warnings counted by file and rule.                         *)

NoBaseline == [profile |-> "none", counts |-> <<>>]

\* What is not in a Go file is counted under what it is about.
FileOf(q, x) == IF x.file = 0 THEN [dir |-> <<x.about>>, stem |-> "", suffix |-> "", test |-> FALSE]
                ELSE q.path[x.file]

CountWarnings(r) ==
    LET warnings == {x \in r : x.severity = "warning"}
        KeyOf(x) == <<x.file[2], x.rule>>
    IN  [k \in {KeyOf(x) : x \in warnings} |-> Cardinality({x \in warnings : KeyOf(x) = k})]

NewBaseline(q, r) == [profile |-> q.profile, counts |-> CountWarnings(r)]

Allowed(b, k) == IF k \in DOMAIN b.counts THEN b.counts[k] ELSE 0
Above(b, r) ==
    LET found == CountWarnings(r) IN {k \in DOMAIN found : found[k] > Allowed(b, k)}

\* A printed finding says where it is: the path the file had when it was read.
Placed(q, x) == [rule |-> x.rule, severity |-> x.severity, file |-> <<x.file, FileOf(q, x)>>,
                 about |-> x.about]
Printed(q)   == {Placed(q, x) : x \in Findings(q)}

Errors(r) == {x \in r : x.severity = "error"}

\* How a strict run ends: with no error, and with no warning the baseline does
\* not hold.
Passes(b, r) ==
    Errors(r) = {} /\ (r = {} \/ (b # NoBaseline /\ Above(b, r) = {}))

----------------------------------------------------------------------------
(* The command.                                                            *)

\* The baseline is read first, and refused on the other profile.
Comparable == baseline = NoBaseline \/ baseline.profile = p.profile

RunDoctor ==
    /\ change # "read" /\ Comparable
    /\ change' = "read" /\ UNCHANGED <<p, baseline, edits>>
    /\ report' = Printed(p)
    /\ passed' = Passes(baseline, report')

RunRefused ==
    /\ change \notin {"read", "refused"} /\ ~Comparable
    /\ passed' = FALSE /\ change' = "refused"
    /\ UNCHANGED <<p, report, baseline, edits>>

\* --write-baseline writes whatever the run found, and the run then passes
\* unless it found an error.
WriteBaseline ==
    /\ change # "read" /\ (baseline = NoBaseline \/ ~Comparable)
    /\ change' = "read" /\ UNCHANGED <<p, edits>>
    /\ report' = Printed(p)
    /\ baseline' = NewBaseline(p, report')
    /\ passed' = (Errors(report') = {})

----------------------------------------------------------------------------
(* The author.                                                             *)

\* The function g where it is defined, and q elsewhere.
Over(g, q) == [k \in DOMAIN g \cup DOMAIN q |-> IF k \in DOMAIN g THEN g[k] ELSE q[k]]

Edited(q, e) ==
    Over(e.field, [q EXCEPT !.files = @ \cup DOMAIN e.text,
                            !.path = Over(e.path, @), !.text = Over(e.text, @)])

Settled == change \in {"read", "refused"}

Edit ==
    /\ Settled /\ edits < MaxEdits
    /\ \E e \in Edits : /\ DOMAIN e.text \cap p.bad = {}
                        /\ p' = Edited(p, e) /\ p' # p
    /\ change' = "edit" /\ edits' = edits + 1
    /\ UNCHANGED <<report, baseline, passed>>

\* The file is in the middle of an edit: it is there, and declares nothing
\* anybody can read.
Broken(q, f) == [q EXCEPT !.files = @ \ {f}, !.bad = @ \cup {f}]

Break ==
    /\ Settled /\ edits < MaxChanges
    /\ \E f \in Breakable \cap p.files : p' = Broken(p, f)
    /\ change' = IF change = "read" THEN "break" ELSE "edit"
    /\ edits' = edits + 1
    /\ UNCHANGED <<report, baseline, passed>>

\* The other profile is asked for.
ChangeProfile ==
    /\ Settled /\ edits < MaxChanges /\ p.profile = "conventional"
    /\ p' = [p EXCEPT !.profile = "performance"]
    /\ change' = IF change = "read" THEN "profile" ELSE "edit"
    /\ edits' = edits + 1
    /\ UNCHANGED <<report, baseline, passed>>

----------------------------------------------------------------------------
(* Following the report.  A finding says where the code it is about belongs, *)
(* and everything else is put right where it is.                            *)

Commands == <<"app", "Console", "Commands">>

\* Where the Why of a rule sends the file.
Home(q, x) ==
    CASE x.rule = "client-outside-clients"         -> <<"app", "Clients">>
      [] x.rule = "raw-sql-outside-repository"     -> <<"app", "Repositories">>
      [] x.rule = "service-subpackage"             ->
            IF CallsOut(q, x.file) THEN <<"app", "Clients">> ELSE <<"app", "Services">>
      [] x.rule = "program-under-cmd" /\ x.about = "command"     -> Commands
      [] x.rule = "program-under-scripts"          ->
            IF x.about = "journey" THEN <<"tests", "E2E">> ELSE Commands
      [] x.rule = "bootstrap-file-beside-app" /\ x.about # "the_console_kernel" ->
            IF x.about = "app/Providers" THEN <<"app", "Providers">> ELSE Commands
      [] x.rule = "test-outside-the-tests-tree"    -> <<"tests", "Unit">>
      [] OTHER                                     -> <<>>

\* What the finding says goes away: the kernel does it, or a document command.
Retired(x) == \/ x.rule = "bootstrap-file-beside-app" /\ x.about = "the_console_kernel"
              \/ x.rule = "program-under-cmd" /\ x.about = "openapi"
              \/ x.rule = "test-copied-conformance"

Moved(q, f, dir) ==
    [q EXCEPT !.path[f] = [@ EXCEPT !.dir = dir, !.test = @ \/ dir = <<"tests", "E2E">>]]

\* A finding that is about no Go file is put right in the file it names: the
\* manifest declares what the code uses, the rest is as it was.
Asked(q) == Over([k \in {"env", "views", "ci", "skills", "stale"} |-> Project[k]], q)
Declared(q, x) ==
    CASE x.rule = "permission-not-declared" -> [q EXCEPT !.manifest.declares = @ \cup {x.about}]
      [] x.rule = "permission-not-used"     -> [q EXCEPT !.manifest.declares = @ \ {x.about}]
      [] x.rule = "profile-not-declared"    -> [q EXCEPT !.manifest.profiles = @ \cup {q.profile}]
      [] OTHER                              -> Asked(q)

\* The files a finding asks to be put right: the ones beside the code it is
\* about, and the providers when something is to be registered there.
PutRight(q, x) ==
    {f \in q.files :
        \/ q.path[f].dir = q.path[x.file].dir
        \/ /\ x.rule \in {"outbox-not-registered", "migrations-not-linked", "generated-not-wired"}
           /\ Category(q, f) = "Providers"}

Remedy(q, x) ==
    IF x.rule = "repository-without-policy"
    THEN [q EXCEPT !.files = @ \cup (Project.files \ q.bad)]
    ELSE IF x.rule = "file-does-not-parse"
    THEN [q EXCEPT !.files = @ \cup {x.file}, !.bad = @ \ {x.file}]
    ELSE IF x.file = 0 \/ x.rule \in {"e2e-not-run-in-ci", "model-query-stale", "view-does-not-exist"}
    THEN Declared(q, x)
    ELSE IF Retired(x) THEN [q EXCEPT !.files = @ \ {x.file}]
    ELSE IF Home(q, x) # <<>> THEN Moved(q, x.file, Home(q, x))
    ELSE IF x.rule = "test-is-not-run" THEN [q EXCEPT !.path[x.file] = [@ EXCEPT !.suffix = "", !.test = TRUE]]
    ELSE [q EXCEPT !.text = Over([f \in PutRight(q, x) |-> Project.text[f]], @)]

\* A migration without a Down may be declared irreversible instead: its finding
\* says so.
DeclaredIrreversible(q, x) ==
    /\ x.rule = "rollback-does-nothing"
    /\ \E m \in Funcs(q, x.file) : NameOf(m) = x.about /\ m.name = "Irreversible"

Irreversible(q, x) ==
    [q EXCEPT !.text[x.file] = @ \cup
        {[kind |-> "func", stem |-> x.about, suffix |-> "", name |-> "Irreversible",
          marks |-> {}, body |-> <<>>, sql |-> {}]}]

\* The ways a finding names; one that was followed names none.
Remedies(q, x) ==
    IF DeclaredIrreversible(q, x) THEN {}
    ELSE {Remedy(q, x)} \cup (IF x.rule = "rollback-does-nothing" THEN {Irreversible(q, x)} ELSE {})

\* A finding of the report, as it was found.
Found(x) == [x EXCEPT !.file = @[1]]

\* What is already as the finding asks is left: what it is about is in a file that
\* does not parse.
Fix ==
    /\ change = "read"
    /\ \E x \in report : p' \in Remedies(p, Found(x)) /\ p' # p
    /\ change' = "fix"
    /\ UNCHANGED <<report, baseline, passed, edits>>

----------------------------------------------------------------------------
Init ==
    /\ p = Project
    /\ report = Printed(Project)
    /\ baseline = NoBaseline /\ passed = (report = {})
    /\ change = "read" /\ edits = 0

Next == RunDoctor \/ RunRefused \/ WriteBaseline \/ Edit \/ Break \/ ChangeProfile \/ Fix

\* The author keeps following the report and running the command, one way or the
\* other: where both are possible, either does what the fairness of the other asks.
Spec == Init /\ [][Next]_vars /\ WF_vars(RunDoctor \/ WriteBaseline) /\ WF_vars(Fix)

----------------------------------------------------------------------------
TypeOK ==
    /\ p.files \cap p.bad = {} /\ p.files \cup p.bad \subseteq DOMAIN p.path
    /\ \A x \in report : x.severity \in {"warning", "error"}
    /\ passed \in BOOLEAN /\ edits \in 0..MaxChanges
    /\ change \in {"read", "edit", "break", "profile", "fix", "refused"}

\* The rules that conclude from what other files declare and do not ask what could
\* not be read, or ask by the name of the file alone: the policy of an entity (a
\* type of any file, rules.go:155, looked for by file name, 233), the types of the
\* models a conversion names (doctor.go:244), the enum of a field, Writes, the
\* redaction and the fields of a type (rules.go:551, 911, 1868, 3331), the Down of a
\* migration (4803) and the directories that declare entities (5077).
Unasked == {"repository-without-policy", "grant-not-checked", "grant-check-discarded",
            "handler-reaches-the-model", "enum-rule-not-derived", "policy-declares-no-writes",
            "sensitive-field-not-redacted", "resource-not-reauthorized",
            "rollback-does-nothing", "model-core-outside-models"}

\* The rules with one finding for several files, placed on one that was read.
Relocated == {"service-subpackage", "controller-too-many-actions", "program-under-cmd",
              "program-under-scripts", "e2e-not-run-in-ci"}

\* "A rule that concludes something from the ABSENCE of a declaration has to ask
\* this first" (doctor.go:187): when one more file stops parsing, no rule of the
\* report finds anything it had not found, but that the file does not parse, and
\* but for the rules named in Unasked, which do not ask; a finding about several
\* files may move to another of them.
AbsenceIsAsked ==
    [][change = "break" /\ RunDoctor =>
          \A x \in report' \ report :
             \/ x.rule \in {"file-does-not-parse"} \cup Unasked
             \/ x.rule \in Relocated /\ \E y \in report : y.rule = x.rule]_vars

\* Asking for a profile adds checks and never removes any (Run).
ProfileOnlyAdds == [][change = "profile" /\ RunDoctor => report \subseteq report']_vars

\* With the same baseline, a run that finds nothing the last one did not find
\* ends no worse: fixing warnings never fails the pipeline.
LessNeverFails ==
    [][change = "fix" /\ passed /\ report' \subseteq report /\ RunDoctor => passed']_vars

\* What one rule sends away another does not send back: the author who does what
\* each finding says, in whatever order, ends with nothing to do, but for one
\* warning.  The finding about a migration without a Down says "or declare
\* Irreversible" (rules.go:4816), and the rule looks for the Down alone (4803): who
\* declares it keeps the warning for ever.  Where the finding names no other place,
\* the author puts back what the project had, which is what the rule asked for; what
\* may go wrong is where files are sent, what one remedy undoes of another, and a
\* file that does not parse between them.
EndsWithNothingToDo ==
    <>[](/\ \A x \in report : DeclaredIrreversible(p, Found(x))
         /\ report = {} => passed)
=============================================================================
