-------------------------- MODULE DoctorStructure --------------------------
(***************************************************************************)
(* The rules of internal/doctor/structure.go and requestrules.go: where the *)
(* code of an application is put and who does what.  All of them warn.      *)
(*                                                                         *)
(* A function's body is a sequence of the shapes the rules look for, named  *)
(* after the call ("ctx.Input", "validation.Validate", "time.Now"); a shape *)
(* of an imported package counts only in a file that imports it.            *)
(***************************************************************************)
EXTENDS DoctorProject

CONSTANT ControllerActionLimit   \* controllerActionLimit, 12 in the source

ASSUME LimitAssumption == ControllerActionLimit \in Nat

Least(fs) == CHOOSE f \in fs : \A g \in fs : f <= g

Warn(rule, f) == Finding(rule, "warning", f, "")

\* What the functions of a file call.
Uses(p, f) == UNION {Holds(fn) : fn \in Funcs(p, f)}

\* One warning per function of a controller that does something of its own.
InControllers(p, rule, Is(_, _)) ==
    PerFunc(p, rule, "warning", {f \in p.files : ControllerFile(p, f)}, Is)

----------------------------------------------------------------------------
(* A controller binds, calls the service and answers; it does not read,     *)
(* validate or encode.                                                      *)

InputIsBoundNotRead(p) ==
    LET Reads(f, fn) == \/ Does(fn, "ctx.Input") \/ Does(fn, "op_:=_ctx.Input")
                        \/ Does(fn, "ParseForm")
                        \/ "encoding/json" \in Imports(p, f) /\ Does(fn, "json.NewDecoder")
    IN  InControllers(p, "input-read-by-hand", Reads)

ValidationPackages == {"framework/validation", "hesape/validation"}

TheServiceValidates(p) ==
    LET Validates(f, fn) ==
            \/ Imports(p, f) \cap ValidationPackages # {} /\ Does(fn, "validation.Validate")
            \/ Does(fn, "in.Validate")
    IN  InControllers(p, "validate-called-by-controller", Validates)

\* WriteHeader is the framework's business only where the function also writes
\* JSON: by encoding it, or by a literal that says so.
WritesJSON(p, f, fn) ==
    \/ "encoding/json" \in Imports(p, f) /\ Does(fn, "json.Marshal")
    \/ Does(fn, "application/json")

JSONIsWrittenByTheFramework(p) ==
    LET Writes(f, fn) ==
            \/ "encoding/json" \in Imports(p, f) /\ Does(fn, "json.NewEncoder")
            \/ WritesJSON(p, f, fn) /\ Does(fn, "WriteHeader")
    IN  InControllers(p, "json-written-by-hand", Writes)

\* A 422 that is compared with is somebody else's answer being read.
ARejectedFormIsARedirect(p) ==
    LET Answers(f, fn) == \/ Does(fn, "422")
                          \/ "net/http" \in Imports(p, f) /\ Does(fn, "http.StatusUnprocessableEntity")
    IN  InControllers(p, "invalid-form-answered-by-hand", Answers)

TheSessionIsLoadedByTheGuard(p) ==
    LET Loads(f, fn) ==
            /\ ~Under(p, f, <<"app", "Http", "Controllers", "Auth">>)
            /\ \/ "hesape/session" \in Imports(p, f) /\ Does(fn, "session.Load")
               \/ Does(fn, "c.sessions.Load")
    IN  InControllers(p, "session-loaded-in-controller", Loads)

RedirectsNameARoute(p) ==
    LET Literal(f, fn) == Does(fn, "Redirect_/invoices") \/ Does(fn, "Redirect_/invoices/_+_id")
    IN  InControllers(p, "redirect-to-literal-path", Literal)

\* Each clause of a switch on a form field that calls a method of the
\* receiver's is an operation; two of them are two routes.
Clauses == [n \in {"case_1_Store", "case_2_Store", "case_2_Destroy"} |->
                IF n = "case_1_Store" THEN [branch |-> 1, method |-> "Store"]
                ELSE IF n = "case_2_Store" THEN [branch |-> 2, method |-> "Store"]
                ELSE [branch |-> 2, method |-> "Destroy"]]

OperationsAreRoutes(p) ==
    LET Chosen(fn) ==
            \/ Does(fn, "switch_ctx.Input")
            \/ Does(fn, "op_:=_ctx.Input") /\ Does(fn, "switch_op")
        Picks(f, fn) ==
            LET taken == {Clauses[c] : c \in Holds(fn) \cap DOMAIN Clauses}
            IN  /\ IsMethod(fn) /\ Chosen(fn)
                /\ Cardinality({c.branch : c \in taken}) >= 2
                /\ Cardinality({c.method : c \in taken}) >= 2
    IN  InControllers(p, "operation-chosen-by-form-field", Picks)

\* The actions of a type are counted over every file of its directory, and the
\* finding is where the type is declared, or else where its first action is.
IsAction(fn) == IsMethod(fn) /\ "action" \in fn.marks

ControllersStaySmall(p) ==
    LET controllers == {f \in p.files : ControllerFile(p, f)}
        ActionsOf(dir, name) ==
            UNION {{<<f, fn>> : fn \in {m \in Funcs(p, f) : IsAction(m) /\ NameOf(m) = name}} :
                   f \in {g \in controllers : p.path[g].dir = dir}}
        DeclaredAt(dir, name) ==
            {f \in controllers : p.path[f].dir = dir /\ \E t \in Types(p, f) : NameOf(t) = name}
        At(dir, name) ==
            IF DeclaredAt(dir, name) # {}
            THEN CHOOSE f \in DeclaredAt(dir, name) : \A g \in DeclaredAt(dir, name) : g <= f
            ELSE Least({a[1] : a \in ActionsOf(dir, name)})
        keys == UNION {{<<p.path[f].dir, NameOf(fn)>> : fn \in {m \in Funcs(p, f) : IsAction(m)}} :
                       f \in controllers}
        TooMany(dir, name) == \E some \in SUBSET ActionsOf(dir, name) :
                                 Cardinality(some) = ControllerActionLimit + 1
    IN  {Finding("controller-too-many-actions", "warning", At(k[1], k[2]), k[2]) :
            k \in {x \in keys : TooMany(x[1], x[2])}}

----------------------------------------------------------------------------
(* Services.                                                               *)

\* The names of net/http a file calls out with, and the package that is a
\* client and nothing else.
OutgoingCallNames == {"http.Client", "http.NewRequest"}

CallsOut(p, f) ==
    \/ "hesape/http/client" \in Imports(p, f)
    \/ "net/http" \in Imports(p, f) /\ Uses(p, f) \cap OutgoingCallNames # {}

\* The names of each HTTP package a service may not spell; the ones of an
\* outgoing request are allowed in a service that calls out.
HTTPNames ==
    [pkg \in {"net/http", "hesape/http", "hesape/session", "html/template"} |->
        IF pkg = "net/http" THEN {"http.ResponseWriter", "http.Request"} \cup OutgoingCallNames
        ELSE IF pkg = "hesape/http" THEN {"hesape.Context"}
        ELSE IF pkg = "hesape/session" THEN {"session.Load"}
        ELSE {"template.HTML"}]
OutgoingHTTPNames == {"http.Request"} \cup OutgoingCallNames

ServicesSpeakNoHTTP(p) ==
    LET Named(f, pkg) ==
            (Uses(p, f) \cap HTTPNames[pkg])
                \ (IF CallsOut(p, f) THEN OutgoingHTTPNames ELSE {})
    IN  UNION {{Finding("service-takes-http", "warning", f, pkg) :
                  pkg \in {q \in DOMAIN HTTPNames \cap Imports(p, f) : Named(f, q) # {}}} :
               f \in {g \in p.files : ServiceFile(p, g)}}

\* One finding per directory inside app/Services, tests included.
ServicesAreFlat(p) ==
    LET inside == {f \in p.files : Under(p, f, <<"app", "Services">>) /\ Len(p.path[f].dir) > 2}
    IN  {Warn("service-subpackage", Least({g \in inside : p.path[g].dir = dir})) :
            dir \in {p.path[f].dir : f \in inside}}

ServiceFilesStayReadable(p) ==
    PerFile("service-file-too-large", "warning",
            {f \in p.files : ServiceFile(p, f) /\ "more_than_600_lines" \in Notes(p, f)})

\* Mutant: app/Clients itself is not excused.
ExternalCallsGoNowhere(p) ==
    PerFile("client-outside-clients", "warning",
            {f \in Code(p) : Under(p, f, <<"app">>) /\ CallsOut(p, f)})

ExternalCallsGoThroughAClient(p) ==
    PerFile("client-outside-clients", "warning",
            {f \in Code(p) : /\ Under(p, f, <<"app">>)
                             /\ ~Under(p, f, <<"app", "Clients">>)
                             /\ CallsOut(p, f)})

SQLLivesInRepositories(p) ==
    LET Runs(f, fn) == Does(fn, "db.Query") /\ fn.sql # {}
    IN  PerFunc(p, "raw-sql-outside-repository", "warning",
                {f \in p.files : ApplicationFile(p, f) /\ ~Under(p, f, <<"app", "Repositories">>)},
                Runs)

----------------------------------------------------------------------------
(* Markup, entities, helpers and subjects.                                  *)

MarkupIsAView(p) ==
    PerFile("html-template-in-app", "warning",
            {f \in Code(p) : Under(p, f, <<"app">>) /\ "html/template" \in Imports(p, f)})

\* A rule of the entity is a function inside a custom block, other than init
\* and a scope of the query.
EntityRulesArePure(p) ==
    LET Touches(f, fn) ==
            /\ "custom_block" \in fn.marks
            /\ ~(fn.name = "init" /\ ~IsMethod(fn))
            /\ fn.suffix # "Query"
            /\ \/ Imports(p, f) \cap {"database/sql", "net/http", "hesape/database", "framework/data"} # {}
                  /\ Holds(fn) \cap {"db.Query", "http.Client", "data_package"} # {}
               \/ "time" \in Imports(p, f) /\ Does(fn, "time.Now")
    IN  PerFunc(p, "model-rule-touches-io", "warning",
                {f \in Code(p) : Category(p, f) = "Models"}, Touches)

FragmentsArePartials(p) ==
    LET Whole(f, fn) == Does(fn, "Fragment_invoice.show")
    IN  PerFunc(p, "fragment-without-partial", "warning",
                {f \in p.files : ApplicationFile(p, f)}, Whole)

\* reimplementedHelper: a slug is a function of that name; a document or an
\* amount may be a method too.
ReimplementedHelper(fn) == \/ fn.name = "Slugify" /\ ~IsMethod(fn)
                           \/ fn.name \in {"ValidCPF", "FormatBRL"}

HelpersComeFromTheCatalog(p) ==
    LET Copies(f, fn) == ReimplementedHelper(fn)
    IN  PerFunc(p, "helper-reimplemented", "warning",
                {f \in Code(p) : Under(p, f, <<"app">>)}, Copies)

SubjectsComeFromStoredAccess(p) ==
    LET Writes(f, fn) == /\ Imports(p, f) \cap {"framework/security", "hesape/auth"} # {}
                         /\ Does(fn, "Subject_literal_of_an_admin")
    IN  PerFunc(p, "subject-built-by-hand", "warning",
                {f \in p.files : ApplicationFile(p, f)}, Writes)

\* An order is the request's when it is read there and only there, and nothing
\* looked the name up before it was used.
OrderIsNotChosenByTheRequest(p) ==
    LET FromRequest(f, fn) ==
            \/ Does(fn, "OrderBy_request")
            \/ /\ Does(fn, "OrderBy_sort") /\ Does(fn, "sort_:=_request")
               /\ ~Does(fn, "sort_:=_other") /\ ~Does(fn, "checks_sort")
    IN  PerFunc(p, "order-by-request-value", "warning",
                {f \in p.files : ApplicationFile(p, f)}, FromRequest)

----------------------------------------------------------------------------
(* Wiring, programs and commands.                                           *)

\* Mutant: nobody asks what could not be read.
ConstructorsAreWiredSomewhere(p) ==
    LET Named(fs, name) == \E f \in fs : ("names_" \o name) \in Uses(p, f) \cup Notes(p, f)
        NotWired(f, fn) ==
            /\ ~IsMethod(fn) /\ "constructor" \in fn.marks
            /\ ~Named(Code(p), fn.name)
            /\ ~(Named(p.files \ Code(p), fn.name) /\ "test_double" \in fn.marks)
    IN  PerFunc(p, "generated-not-wired", "warning",
                {f \in Code(p) : \/ Under(p, f, <<"app", "Http", "Controllers">>)
                                 \/ Under(p, f, <<"app", "Services">>)}, NotWired)

\* A constructor nothing outside the tests names; a test double may be named
\* by the tests alone, and a file that does not parse could name any.
ConstructorsAreWired(p) ==
    LET Named(fs, name) == \E f \in fs : ("names_" \o name) \in Uses(p, f) \cup Notes(p, f)
        NotWired(f, fn) ==
            /\ ~IsMethod(fn) /\ "constructor" \in fn.marks
            /\ ~Named(Code(p), fn.name) /\ p.bad = {}
            /\ ~(Named(p.files \ Code(p), fn.name) /\ "test_double" \in fn.marks)
    IN  PerFunc(p, "generated-not-wired", "warning",
                {f \in Code(p) : \/ Under(p, f, <<"app", "Http", "Controllers">>)
                                 \/ Under(p, f, <<"app", "Services">>)}, NotWired)

\* Where the code of a file of bootstrap/ belongs, by its name.
BootstrapDestination(path) ==
    IF path.suffix = "" /\ path.stem \in {"console", "migrate", "queue", "publish", "background"}
    THEN "the_console_kernel"
    ELSE IF path.stem \in {"upgrade", "backfill", "oneoff", "import"}
         THEN "app/Console/Commands" ELSE "app/Providers"

\* The name of a file is enough: the ones that do not parse are listed too.
BootstrapIsOnlyApp(p) ==
    {Finding("bootstrap-file-beside-app", "warning", f, BootstrapDestination(p.path[f])) :
        f \in {g \in p.files \cup p.bad :
                 /\ ~IsTest(p, g) /\ Under(p, g, <<"bootstrap">>)
                 /\ ~(p.path[g].dir = <<"bootstrap">> /\ p.path[g].stem = "app" /\ p.path[g].suffix = "")}}

\* programs: the files under a root, by directory; the entry is the file that
\* declares main, or the first.
DeclaresMain(p, f) == \E fn \in Funcs(p, f) : fn.name = "main" /\ ~IsMethod(fn)
EntryFile(p, fs) ==
    IF \E f \in fs : DeclaresMain(p, f) THEN Least({f \in fs : DeclaresMain(p, f)}) ELSE Least(fs)

NativeTarget(p, f) == Under(p, f, <<"cmd", "native">>)

OpenAPIProgram(p, fs) == \E f \in fs : Imports(p, f) \cap {"arandu-swagger", "openapi"} # {}

ProgramsAreNotUnderCmd(p) ==
    LET under == {f \in Code(p) : Under(p, f, <<"cmd">>) /\ ~NativeTarget(p, f)}
        Key(f) == SubSeq(p.path[f].dir, 1, IF Len(p.path[f].dir) < 2 THEN 1 ELSE 2)
        In(k) == {f \in under : Key(f) = k}
    IN  {Finding("program-under-cmd", "warning", EntryFile(p, In(k)),
                 IF OpenAPIProgram(p, In(k)) THEN "openapi" ELSE "command") :
            k \in {Key(f) : f \in under}}

BrowserDrivers == {"chromedp", "go-rod", "playwright-go"}

DrivesABrowser(p, fs) ==
    \E f \in fs : Imports(p, f) \cap BrowserDrivers # {} \/ "--headless" \in Uses(p, f)

ReachesTheApplication(p, fs) ==
    p.module /\ \E f \in fs : Decls(p, f, "package") # {}

ScriptsAreNotPrograms(p) ==
    LET under == {f \in Code(p) : Under(p, f, <<"scripts">>)}
        In(dir) == {f \in under : p.path[f].dir = dir}
        Program(dir) == \E f \in In(dir) : DeclaresMain(p, f)
        Kind(dir) == IF DrivesABrowser(p, In(dir)) THEN "journey"
                     ELSE IF ReachesTheApplication(p, In(dir)) THEN "command" ELSE "tool"
    IN  {Finding("program-under-scripts", "warning", EntryFile(p, In(dir)), Kind(dir)) :
            dir \in {d \in {p.path[f].dir : f \in under} : Program(d) /\ Kind(d) # "tool"}}

\* A command names the function it runs: one of its own package, found in a
\* file that parses, or one of an imported directory of the module.
CommandsLiveInConsoleCommands(p) ==
    LET Declared(dir, name) == \E g \in Code(p) : /\ p.path[g].dir = dir
                                                  /\ \E fn \in Funcs(p, g) : ~IsMethod(fn) /\ fn.name = name
        Outside(f, c) ==
            /\ IF c.dir = p.path[f].dir THEN Declared(c.dir, c.name) ELSE p.module
            /\ ~(Len(c.dir) >= 3 /\ SubSeq(c.dir, 1, 3) = <<"app", "Console", "Commands">>)
    IN  UNION {{Finding("command-outside-commands", "warning", f, c.name) :
                  c \in {d \in Decls(p, f, "command") : Outside(f, d)}} :
               f \in {g \in p.files : ApplicationFile(p, g)}}

----------------------------------------------------------------------------
(* requestrules.go.                                                        *)

\* What a Validate writes by hand and a rule would say: an empty field, a length,
\* a pattern, a value that is only parsed, one of a list, a helper's answer.
HandWrittenRules(fn) ==
    Holds(fn) \cap {"Add_under_an_if", "validation.Required", "__=_strconv.Atoi",
                    "loop_over_the_allowed_values"}

\* A request that declares Rules, in whichever file of the directory, is left
\* alone, and so is everything when one of those files does not parse.
RequestValidatesByHand(p) ==
    LET requests == {f \in p.files : RequestFile(p, f)}
        DeclaresRules(name) == \E g \in requests : \E m \in Funcs(p, g) :
                                  NameOf(m) = name /\ m.name = "Rules"
        ByHand(f, fn) ==
            /\ IsMethod(fn) /\ fn.name = "Validate"
            /\ HandWrittenRules(fn) # {}
            /\ ~DeclaresRules(NameOf(fn))
    IN  IF \E u \in p.bad : Under(p, u, <<"app", "Http", "Requests">>) THEN {}
        ELSE PerFunc(p, "request-validates-by-hand", "warning", requests, ByHand)

-----------------------------------------------------------------------------
(***************************************************************************)
(* The rules of internal/doctor/testsuite.go, which read the tests: what a   *)
(* test waits for, who it signs in, what it looks at and where it runs.      *)
(***************************************************************************)
InSuite(p, rule, fs, Is(_, _)) == PerFunc(p, rule, "warning", fs, Is)

TestsDoNotSleep(p) ==
    LET Sleeps(f, fn) == "time" \in Imports(p, f) /\ Does(fn, "time.Sleep")
    IN  InSuite(p, "test-sleep", {f \in p.files : SuiteFile(p, f)}, Sleeps)

\* A Subject that is only asked of a Policy, or handed to test.As, is no
\* forgery.
TestsSignInForReal(p) ==
    LET Forges(f, fn) ==
            \/ Does(fn, "ActingAs")
            \/ /\ Imports(p, f) \cap {"framework/security", "hesape/auth"} # {}
               /\ Does(fn, "Subject_literal")
               /\ ~(Does(fn, "subject.Can") /\ ~Does(fn, "handler(subject)"))
    IN  InSuite(p, "test-forged-subject", {f \in p.files : RequestLayerFile(p, f)}, Forges)

LocatorsSpeakAsTheUser(p) ==
    LET Selects(f, fn) ==
            \/ "test/browser" \in Imports(p, f) /\ Does(fn, "browser.CSS_no_reason")
            \/ Does(fn, "Click_.button")
            \/ Does(fn, "Fill_.button") /\ "test/browser" \notin Imports(p, f)
            \/ Does(fn, "querySelector_in_a_script")
    IN  InSuite(p, "test-css-locator", {f \in p.files : JourneyFile(p, f)}, Selects)

\* A copy of the framework's suite is known by its directory or by a name; a
\* file that calls the kit is not one.
CopiedConformanceDirs == {"AuthContracts", "AuthSchema", "NativeAuth", "NativeAuthSession"}
CopiedConformanceTests == {"TestAccountContract"}

ConformanceIsCalledNotCopied(p) ==
    PerFile("test-copied-conformance", "warning",
            {f \in p.files :
               /\ IsTest(p, f) /\ Under(p, f, <<"tests">>)
               /\ "test/conformance" \notin Imports(p, f)
               /\ \/ \E dir \in CopiedConformanceDirs : Under(p, f, <<"tests", dir>>)
                  \/ \E fn \in Funcs(p, f) : ~IsMethod(fn) /\ fn.name \in CopiedConformanceTests})

\* One finding, on the first journey, when no pipeline runs them.
JourneysRunInCI(p) ==
    LET journeys == {f \in p.files : IsTest(p, f) /\ JourneyFile(p, f)}
    IN  IF journeys = {} \/ p.ci THEN {}
        ELSE {Finding("e2e-not-run-in-ci", "warning",
                      CHOOSE f \in journeys : \A g \in journeys : f <= g, "")}

SkipsSayWhy(p) ==
    LET Bare(f, fn) == Does(fn, "t.SkipNow") \/ Does(fn, "t.Skip_no_reason")
    IN  InSuite(p, "skip-without-reason", {f \in p.files : SuiteFile(p, f)}, Bare)

\* The registry of the drivers is the one file that names them.
DriverPackages == {"test/browser/cdp", "arandu-playwright", "chromedp", "go-rod"}

TestsNameNoDriver(p) ==
    LET TheRegistry(f) == p.path[f].dir = <<"tests">> /\ ~IsTest(p, f)
        named == {f \in p.files : SuiteFile(p, f) /\ ~TheRegistry(f)}
        Asserts(f, fn) == Does(fn, "page.Driver().(T)")
    IN  UNION {{Finding("driver-specific-api-in-test", "warning", f, path) :
                  path \in Imports(p, f) \cap DriverPackages} : f \in named}
        \cup InSuite(p, "driver-specific-api-in-test", named, Asserts)
----------------------------------------------------------------------------
(* internal/testlayout: tests that are where they run.  go.mod gives the     *)
(* path of tests/, and without it none of the four checks is reported.       *)

RunnableTest(fn) == ~IsMethod(fn) /\ "runnable_test" \in fn.marks

InvisibleTests(p) ==
    LET Runs(f, fn) == RunnableTest(fn) /\ p.path[f].suffix # "Test"
        source == {f \in p.files \cup p.bad : ~IsTest(p, f)}
    IN  PerFile("test-is-not-run", "warning", {f \in source : p.path[f].suffix = "Test"})
        \cup PerFunc(p, "test-is-not-run", "warning", source \cap p.files, Runs)

MisplacedTests(p) ==
    PerFile("test-outside-the-tests-tree", "warning",
            {f \in p.files \cup p.bad : /\ IsTest(p, f) /\ p.path[f].suffix # "_internal"
                                       /\ ~Under(p, f, <<"tests">>)})

CapitalisedPackages(p) ==
    PerFile("package-clause-is-capitalised", "warning",
            {f \in p.files : "capitalised_package" \in Notes(p, f)})

ScaffoldingInProduction(p) ==
    PerFile("scaffolding-ships", "warning",
            {f \in Code(p) : /\ ~Under(p, f, <<"tests">>)
                             /\ \E d \in Decls(p, f, "package") : d.dir # <<>> /\ d.dir[1] = "tests"})

TestsAreWhereTheyCanRun(p) ==
    IF ~p.module THEN {}
    ELSE InvisibleTests(p) \cup MisplacedTests(p)
         \cup CapitalisedPackages(p) \cup ScaffoldingInProduction(p)
=============================================================================
