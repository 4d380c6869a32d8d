---------------------------- MODULE DoctorRules ----------------------------
(***************************************************************************)
(* The rules of internal/doctor/rules.go: authorization, data, migrations,  *)
(* views and the two profiles.  An operator answers, for a project p, what  *)
(* the function of the same name answers: a set of findings.  The names of  *)
(* the calls are the shapes the rules look for:                             *)
(*   "db.Query" "db.Begin"    a call through a database handle              *)
(*   "model_query"            a call on a name the models package gives     *)
(*   "model_conversion"       models.Status(v)                              *)
(*   "grant_of_..."           a call to SystemGrant or GrantFor, by where   *)
(*                            its tenant comes from                         *)
(***************************************************************************)
EXTENDS DoctorProject

First(fs)     == CHOOSE f \in fs : \A g \in fs : f <= g
SameDir(p, f) == {g \in Code(p) : p.path[g].dir = p.path[f].dir}

\* 0. A file that does not parse is reported as itself.
UnreadableFiles(p) == PerFile("file-does-not-parse", "error", p.bad)

----------------------------------------------------------------------------
(* Authorization.                                                          *)

LooksLikeRepository(d) == d.suffix \in {"Repository", "Repo"}

DeclaresType(p, f, stem, suffix) ==
    \E d \in Types(p, f) : d.stem = stem /\ d.suffix = suffix

\* The repository of an entity is a type of that name, wherever it is; its
\* policy is a type, or a file of app/Policies named after the entity.
RepositoryOf(p, e) == {f \in Code(p) : DeclaresType(p, f, e, "Repository")}
HasPolicy(p, e) ==
    \E f \in Code(p) : \/ DeclaresType(p, f, e, "Policy")
                       \/ Category(p, f) = "Policies" /\ Entity(p, f) = e

Entities(p) == {d.stem : d \in UNION {Types(p, f) : f \in Code(p)}} \ {""}

\* 1. One finding per entity with a repository and no policy, unless a file
\* that could hold the policy does not parse.
RepositoryNeedsPolicy(p) ==
    {Finding("repository-without-policy", "error", First(RepositoryOf(p, e)), e) :
        e \in {x \in Entities(p) : /\ RepositoryOf(p, x) # {}
                                   /\ ~HasPolicy(p, x)
                                   /\ ~Blind(p, x)}}

ReachesTheDatabase(fn) == Does(fn, "db.Query") \/ Does(fn, "db.Begin")

\* Every type a file of app/Models declares: converting to one reads no row.
ModelTypes(p) == {NameOf(d) : d \in UNION {Types(p, f) : f \in
                                {g \in Code(p) : Category(p, g) = "Models"}}}

CallsTheModelPackage(p, f, fn) ==
    /\ "app/models" \in Imports(p, f)
    /\ \/ Does(fn, "model_query")
       \/ Does(fn, "model_conversion") /\ "Status" \notin ModelTypes(p)

ReachesApplicationData(p, f, fn) ==
    \/ Category(p, f) = "Repositories"
    \/ LooksLikeRepository(fn)
    \/ /\ ~OnRequestPath(p, f)
       /\ \/ ReachesTheDatabase(fn)
          \/ /\ CallsTheModelPackage(p, f, fn)
             /\ "Grant" \in fn.marks
             /\ Does(fn, "passes_the_Grant")

\* 2. An exported method that reaches the data takes a Grant, checks it, and
\* uses the answer.
AuditedMethod(p, f, fn) ==
    IsMethod(fn) /\ "exported" \in fn.marks /\ ReachesApplicationData(p, f, fn)

RepositoryMethodNeedsGrant(p) ==
    LET NotReceived(f, fn) ==
            AuditedMethod(p, f, fn) /\ "Grant" \notin fn.marks /\ ReachesTheDatabase(fn)
        Takes(f, fn) == AuditedMethod(p, f, fn) /\ "Grant" \in fn.marks
        NotChecked(f, fn) ==
            Takes(f, fn) /\ ~Does(fn, "Check") /\ ~Does(fn, "__=_Check")
        Discarded(f, fn) ==
            Takes(f, fn) /\ Does(fn, "__=_Check") /\ ~Does(fn, "Check")
    IN  PerFunc(p, "grant-not-received", "error", Code(p), NotReceived)
        \cup PerFunc(p, "grant-not-checked", "error", Code(p), NotChecked)
        \cup PerFunc(p, "grant-check-discarded", "error", Code(p), Discarded)

\* An action assembled where it is used, in a file that can spell the type.
SecurityPaths == {"framework/security", "hesape/auth"}

\* A conversion or a declaration whose text is a parameter, a variable of the
\* function or an expression: a constant is neither.
AssembledFrom(fn) == Does(fn, "assembled_action")

ActionsAreConstants(p) ==
    LET Assembles(f, fn) == AssembledFrom(fn)
    IN  PerFunc(p, "action-not-a-constant", "error",
                {f \in Code(p) : Imports(p, f) \cap SecurityPaths # {}}, Assembles)

PolicyFile(p, f, fn) == Category(p, f) = "Policies" \/ fn.suffix = "Policy"

\* 3. A policy that denies everything, and one that does not say which of its
\* actions write: Writes is looked for in every file of the directory.
PolicyMustBeOpened(p) ==
    LET Closed(f, fn) ==
            fn.name = "Can" /\ PolicyFile(p, f, fn) /\ ~Does(fn, "return_nil")
    IN  PerFunc(p, "policy-never-opened", "warning", Code(p), Closed)

PoliciesDeclareTheirWrites(p) ==
    LET Declares(g, name) == \E m \in Funcs(p, g) : NameOf(m) = name /\ m.name = "Writes"
        Silent(f, fn) ==
            /\ IsMethod(fn) /\ fn.name = "Can" /\ PolicyFile(p, f, fn)
            /\ ~\E g \in SameDir(p, f) : Declares(g, NameOf(fn))
    IN  PerFunc(p, "policy-declares-no-writes", "warning", Code(p), Silent)

Requests(p) == {f \in Code(p) : OnRequestPath(p, f)}

\* 4. and 5. What answers a request reaches neither the data package, nor the
\* model, nor a repository.
ControllerMustNotReachData(p) ==
    PerFile("handler-reaches-data", "error",
            {f \in Requests(p) : /\ Imports(p, f) \cap {"framework/data", "hesape/database"} # {}
                                 /\ \E fn \in Funcs(p, f) : Does(fn, "data_package")})
    \cup PerFile("handler-reaches-the-model", "error",
            {f \in Requests(p) : \E fn \in Funcs(p, f) : CallsTheModelPackage(p, f, fn)})

ControllerMustNotReachTheRepository(p) ==
    PerFile("controller-reaches-repository", "error",
            {f \in Requests(p) : "app/repositories" \in Imports(p, f)})

\* 6. A tenant read by name from the request, or a request value that ends up
\* as the tenant of a Grant; the constructor is known through its import.
GrantPackages == {"framework/security", "hesape/auth", "framework/jobs", "hesape/queue/jobs"}
GrantCalls    == {"grant_of_request", "grant_of_org", "grant_of_nothing",
                  "grant_of_session", "grant_of_session_with_a_reason"}
GrantsIn(p, f, fn) ==
    IF Imports(p, f) \cap GrantPackages = {} THEN {} ELSE GrantCalls \cap Holds(fn)

TenantMustComeFromTheGrant(p) ==
    LET Named(f, fn)  == Does(fn, "request_tenant")
        Header(f, fn) == Does(fn, "header_tenant")
        Tainted(f, fn) ==
            \/ "grant_of_request" \in GrantsIn(p, f, fn)
            \/ "grant_of_org" \in GrantsIn(p, f, fn) /\ Does(fn, "org_:=_request")
    IN  PerFunc(p, "tenant-from-request", "error", Code(p), Named)
        \cup PerFunc(p, "tenant-from-header", "error", Code(p), Header)
        \cup PerFunc(p, "tenant-from-request", "error", Code(p), Tainted)

\* 7. A grant no policy answered for: refused when it has no tenant, excused
\* by the place or by a written reason.
SystemGrantIsAudited(p) ==
    LET NoTenant(f, fn) == "grant_of_nothing" \in GrantsIn(p, f, fn)
        Outside(f, fn) ==
            /\ ~InASystemScope(p, f)
            /\ GrantsIn(p, f, fn) \ {"grant_of_nothing", "grant_of_session_with_a_reason"} # {}
    IN  PerFunc(p, "system-grant-without-tenant", "error", Code(p), NoTenant)
        \cup PerFunc(p, "system-grant-outside-scope", "warning", Code(p), Outside)

\* A row is read after the last Authorize.  Find on a field of the receiver
\* reads no row when the struct, looked up in the directory, types that field
\* by a package that holds none.
FieldHoldsNoRows(p, f, fn) ==
    \E g \in SameDir(p, f) : \E t \in Types(p, g) :
        NameOf(t) = NameOf(fn) /\ "field_of_a_cache" \in t.marks

ResourceNotReauthorized(p) ==
    LET ReadsRow(f, fn, i) ==
            \/ fn.body[i] = "Find"
            \/ fn.body[i] = "field.Find" /\ ~FieldHoldsNoRows(p, f, fn)
        Skips(f, fn) ==
            /\ IsMethod(fn) /\ Does(fn, "Authorize")
            /\ \E i \in DOMAIN fn.body :
                  /\ ReadsRow(f, fn, i)
                  /\ \A j \in DOMAIN fn.body : fn.body[j] = "Authorize" => j < i
    IN  PerFunc(p, "resource-not-reauthorized", "warning", Code(p), Skips)

SessionMustRotateOnLogin(p) ==
    LET Keeps(f, fn) ==
            /\ fn.name = "Login"
            /\ Does(fn, "Authenticate") /\ ~Does(fn, "Regenerate")
    IN  PerFunc(p, "session-not-rotated", "error", Code(p), Keeps)

\* A route under a prefix bootstrap/ exempts from the CSRF check, whose action
\* is found and never verifies a signature.
CsrfExemptionsVerifyASignature(p) ==
    LET Some(fs, call) == \E f \in fs : \E fn \in Funcs(p, f) : Does(fn, call)
        Forgeable(f, fn) ==
            /\ ControllerFile(p, f) /\ fn.name = "Receive"
            /\ ~("hesape/webhook" \in Imports(p, f) /\ Does(fn, "webhook.Verify"))
    IN  IF /\ Some({f \in Code(p) : Under(p, f, <<"bootstrap">>)}, "CSRFExcept_/hooks/")
           /\ Some({f \in Code(p) : Under(p, f, <<"routes">>)}, "POST_/hooks/_to_Receive")
        THEN PerFunc(p, "csrf-exempt-without-signature", "warning", Code(p), Forgeable)
        ELSE {}

----------------------------------------------------------------------------
(* Data.                                                                   *)

NoBuiltSQL(p) ==
    LET Sprintf(f, fn) == Does(fn, "Sprintf_of_SQL")
        Joined(f, fn)  == "named_parameters" \in fn.marks /\ Does(fn, "SQL_+_parameter")
    IN  PerFunc(p, "sql-built-with-sprintf", "error", Code(p), Sprintf)
        \cup PerFunc(p, "sql-built-by-concatenation", "error", Code(p), Joined)

\* A type with a secret that reaches a log or a document, and has no redaction
\* in any file of its directory.
HasRedaction(p, f, t) ==
    \E g \in {h \in p.files : p.path[h].dir = p.path[f].dir} : \E m \in Funcs(p, g) :
        NameOf(m) = NameOf(t) /\ m.name \in {"LogValue", "MarshalJSON"}

SinkReaches(p, t, sink) ==
    \E g \in Code(p) : \E fn \in Funcs(p, g) : Does(fn, sink \o "_" \o NameOf(t))

SensitiveFieldNeedsRedaction(p) ==
    UNION {{Finding("sensitive-field-not-redacted", "warning", f, NameOf(t)) :
              t \in {x \in Types(p, f) :
                       /\ x.marks \cap {"secret", "secret_hidden_from_JSON"} # {}
                       /\ ~HasRedaction(p, f, x)
                       /\ \/ SinkReaches(p, x, "log")
                          \/ SinkReaches(p, x, "json") /\ "secret" \in x.marks}} :
           f \in {g \in Code(p) : Category(p, g) # ""}}

\* A statement is the verb, the tables it names, where it names tenant_id, and
\* whether it is inside a transaction or carries a written reason.  The ones
\* that have a predicate are all but the INSERT.
ScopedStatements(fn) == {s \in fn.sql : s.verb # "INSERT"}
TenantIsInThePredicate(s) == s.tenant = "in_the_predicate"

\* A table some statement names beside tenant_id, or one a repository of an
\* entity with a TenantID reaches.
MultiTenantTables(p) ==
    LET TenantEntity(e) == \E f \in Code(p) : \E t \in Types(p, f) :
                              NameOf(t) = e /\ "TenantID" \in t.marks
        Marked(f, fn, s) ==
            \/ s.tenant # "no"
            \/ /\ IsMethod(fn) /\ TenantEntity(fn.stem)
               /\ (Category(p, f) = "Repositories" \/ LooksLikeRepository(fn))
    IN  UNION {UNION {UNION {s.tables : s \in {x \in fn.sql : Marked(f, fn, x)}} :
                        fn \in Funcs(p, f)} : f \in Code(p)}

TenantMustScopeTheSQL(p) ==
    LET shared == MultiTenantTables(p)
        Crosses(f, fn) == \E s \in ScopedStatements(fn) : /\ ~TenantIsInThePredicate(s)
                                                          /\ s.tables \cap shared # {}
                                                          /\ "reason" \notin s.marks
    IN  PerFunc(p, "sql-without-tenant-scope", "error",
                {f \in Code(p) : ~InAMigration(p, f)}, Crosses)

\* What stores domain events needs the module that registers their table; one
\* finding, on the first writer of the most direct kind.
OutboxPackages == {"framework/events", "hesape/events", "framework/modules/auth"}

TheOutboxTableTravels(p) ==
    LET Calls(call) == {f \in Code(p) : /\ Imports(p, f) \cap OutboxPackages # {}
                                        /\ \E fn \in Funcs(p, f) : Does(fn, call)}
        direct  == Calls("events.NewOutbox")
        writers == direct \cup Calls("auth.New")
    IN  IF Calls("events.NewModule") # {} \/ writers = {} \/ p.bad # {} THEN {}
        ELSE {Finding("outbox-not-registered", "error",
                      First(IF direct # {} THEN direct ELSE writers), "")}

----------------------------------------------------------------------------
(* Migrations, engines and the generated model.                            *)

\* A migration is a struct embedding BaseMigration; its methods are looked for
\* in every file of the directory.
Migrations(p) ==
    UNION {{<<f, t>> : t \in {x \in Types(p, f) : "BaseMigration" \in x.marks}} :
           f \in {g \in Code(p) : "hesape/database/migrations" \in Imports(p, g)}}

MethodOf(p, f, t, name) ==
    {m \in UNION {Funcs(p, g) : g \in SameDir(p, f)} : NameOf(m) = NameOf(t) /\ m.name = name}

\* The directories the code of the project imports, by path.
ImportsDir(p, f, dir) == \E d \in Decls(p, f, "package") : d.dir = dir

MigrationsMustReachTheBinary(p) ==
    LET dirs == {p.path[m[1]].dir : m \in Migrations(p)}
        Linked(dir) == \E f \in p.files : p.path[f].dir # dir /\ ImportsDir(p, f, dir)
    IN  IF ~p.module \/ p.bad # {} THEN {}
        ELSE {Finding("migrations-not-linked", "warning",
                      First({m[1] : m \in {x \in Migrations(p) : p.path[x[1]].dir = dir}}), "") :
              dir \in {d \in dirs : ~Linked(d)}}

AddedColumnsMustBeNullable(p) ==
    {Finding("added-column-not-nullable", "warning", m[1], NameOf(m[2])) :
        m \in {x \in Migrations(p) :
                 \E up \in MethodOf(p, x[1], x[2], "Up") : Does(up, "adds_a_column_not_null")}}

Reversible == {"creates_a_table", "adds_a_column_not_null", "adds_a_column_nullable",
               "creates_an_index"}

MigrationsMustBeReversible(p) ==
    {Finding("rollback-does-nothing", "warning", m[1], NameOf(m[2])) :
        m \in {x \in Migrations(p) :
                 /\ \E up \in MethodOf(p, x[1], x[2], "Up") : Holds(up) \cap Reversible # {}
                 /\ MethodOf(p, x[1], x[2], "Down") = {}}}

\* .env.example asks for an engine nothing outside the tests imports.
ConfiguredEnginesAreLinked(p) ==
    IF p.bad # {} THEN {}
    ELSE {Finding("driver-not-linked", "warning", 0, engine) :
             engine \in p.env \ UNION {Imports(p, f) : f \in Code(p)}}

ModelQueryIsCurrent(p) == PerFile("model-query-stale", "error", p.stale)

\* The model core is called outside a package that declares entities.
ModelCoreStaysInTheModels(p) ==
    LET DeclaresEntity(f) == /\ "hesape/database/model" \in Imports(p, f)
                             /\ \E t \in Types(p, f) : "entity" \in t.marks
        entityDirs == {p.path[f].dir : f \in {g \in p.files : DeclaresEntity(g)}}
        Reaches(f) == \/ "hesape/database/model" \in Imports(p, f)
                      \/ p.module /\ \E dir \in entityDirs : ImportsDir(p, f, dir)
        Calls(f, fn) == Does(fn, "model_core")
    IN  PerFunc(p, "model-core-outside-models", "error",
                {f \in p.files : p.path[f].dir \notin entityDirs /\ Reaches(f)}, Calls)

----------------------------------------------------------------------------
(* Views.                                                                  *)

Renders(fn, view) == Does(fn, "View_" \o view) \/ Does(fn, "Fragment_" \o view)

ViewDataMustBeAStruct(p) ==
    LET PassesMap(f, fn) == Does(fn, "View_of_a_map")
    IN  PerFunc(p, "view-data-is-a-map", "error", Code(p), PassesMap)

\* ViewNames are the names a render call may spell.
ViewNames == {"invoice.show", "partials.row"}

ViewMustExist(p) ==
    LET Missing(f, fn) == \E v \in ViewNames \ DOMAIN p.views : Renders(fn, v)
    IN  IF DOMAIN p.views = {} THEN {}
        ELSE PerFunc(p, "view-does-not-exist", "error", Code(p), Missing)

ViewFindings(p, rule, severity, mark) ==
    {Finding(rule, severity, 0, v) : v \in {w \in DOMAIN p.views : mark \in p.views[w]}}

ViewsKeepNoStateInTheBrowser(p) ==
    ViewFindings(p, "view-keeps-state-in-the-browser", "error", "x-data")

\* The raw form of anything but one named call; a view that does not parse is
\* passed over.
RawOutputIsAComponent(p) ==
    {v \in ViewFindings(p, "raw-output-is-not-a-component", "warning", "raw_value") :
        "does_not_parse" \notin p.views[v.about]}

----------------------------------------------------------------------------
(* Imports, the manifest and the profiles.                                 *)

RetiredModules == {"arandu-io/database", "arandu-io/kv", "arandu-io/queue", "arandu-io/storage"}

NoRetiredModuleIsImported(p) ==
    UNION {{Finding("retired-module", "warning", f, path) :
               path \in Imports(p, f) \cap RetiredModules} : f \in p.files}

UsedPermissions(p) ==
    LET Some(calls) == \E f \in Code(p) : \E fn \in Funcs(p, f) : Holds(fn) \cap calls # {}
        Imported(path) == \E f \in Code(p) : path \in Imports(p, f)
    IN  (IF Some({"http.Get"}) \/ Imported("net/smtp") THEN {"network"} ELSE {})
        \cup (IF Some({"os.WriteFile"}) \/ Imported("io/ioutil") THEN {"filesystem"} ELSE {})
        \cup (IF Some({"exec.Command"}) \/ Imported("os/exec") THEN {"exec"} ELSE {})
        \cup (IF \E f \in Code(p) :
                    \/ Under(p, f, <<"database", "migrations">>)
                    \/ \E m \in Funcs(p, f) : IsMethod(m) /\ m.name = "Migrations"
              THEN {"migrations"} ELSE {})

\* What the code uses and does not declare is an error; what it declares and
\* does not use is a warning, when every file could be read.
PermissionsNotUsed(p) ==
    IF p.manifest = NoManifest \/ p.bad # {} THEN {}
    ELSE {Finding("permission-not-used", "warning", 0, c) :
             c \in p.manifest.declares \ UsedPermissions(p)}

DeclaredPermissionsMatchTheCode(p) ==
    IF p.manifest = NoManifest THEN {}
    ELSE {Finding("permission-not-declared", "error", 0, c) :
             c \in UsedPermissions(p) \ p.manifest.declares}
         \cup PermissionsNotUsed(p)

TheProfileIsDeclared(p) ==
    IF /\ p.profile = "performance" /\ p.manifest # NoManifest
       /\ p.manifest.profiles # {} /\ "performance" \notin p.manifest.profiles
    THEN {Finding("profile-not-declared", "warning", 0, p.manifest.name)} ELSE {}

\* On the performance profile alone: a statement over two tables, and a
\* transaction that writes two tables or, when it holds no statement, calls
\* two repositories held in fields the file declares.
QueriesReachOneAggregate(p) ==
    LET Joins(f, fn) == \E s \in fn.sql : Cardinality(s.tables) >= 2
    IN  IF p.profile # "performance" THEN {}
        ELSE PerFunc(p, "join-across-aggregates", "error", Code(p), Joins)

TransactionsStayInsideOneAggregate(p) ==
    LET Tables(fn) == UNION {s.tables : s \in {x \in fn.sql : "in_a_transaction" \in x.marks}}
        Fields(f)  == UNION {t.marks : t \in Types(p, f)}
        Called(f, fn) == {r \in {"Invoice", "Customer"} :
                            "holds_" \o r \in Fields(f) /\ Does(fn, "tx_calls_" \o r)}
        Spans(f, fn) ==
            \/ Cardinality(Tables(fn)) >= 2
            \/ Tables(fn) = {} /\ Cardinality(Called(f, fn)) >= 2
    IN  IF p.profile # "performance" THEN {}
        ELSE PerFunc(p, "transaction-across-aggregates", "error", Code(p), Spans)
----------------------------------------------------------------------------
(* Enums, imports and skills.                                               *)

\* A rule "enum:..." written on a field, when one enum of app/Enums is the type
\* of the fields of that name: what the type does not declare is an error, and
\* what it does is written twice.  An enum of integers is left alone.
EnumTypes(p) == UNION {{t \in Types(p, f) : t.marks \cap {"string", "int"} # {}} :
                       f \in {g \in Code(p) : Category(p, g) = "Enums"}}

EnumOfStatus(p) ==
    {e \in EnumTypes(p) : \E f \in Code(p) : \E t \in Types(p, f) :
                             ("field_status_" \o NameOf(e)) \in t.marks}

EnumRulesAreDerived(p) ==
    LET declared == EnumOfStatus(p)
        Known(c) == \E e \in declared : c \in e.marks
        Lists(c) == {f \in Code(p) : /\ Imports(p, f) \cap {"framework/validation", "hesape/validation"} # {}
                                         /\ \E fn \in Funcs(p, f) : Does(fn, "enum:" \o c)}
    IN  IF \/ Cardinality({NameOf(e) : e \in declared}) # 1
           \/ \E e \in declared : "int" \in e.marks
        THEN {}
        ELSE UNION {PerFile("enum-rule-not-derived",
                            IF Known(c) THEN "warning" ELSE "error", Lists(c)) :
                    c \in {"sent", "lost"}}

\* A name the framework only forwards, spelled through the framework's path; no
\* catalogue, no finding.  Generated views are passed over, written ones are not.
ImportsAreCanonical(p) ==
    UNION {{Finding("import-not-canonical", "warning", f, path) :
               path \in {q \in Imports(p, f) \cap p.catalog : \E fn \in Funcs(p, f) : Does(fn, "moved_name")}} :
           f \in {g \in p.files : ~Under(p, g, <<"storage", "framework", "views">>)}}
    \cup IF p.catalog = {} THEN {} ELSE ViewFindings(p, "import-not-canonical", "warning", "moved_name")

\* A skill has the origin that hands it out, the source its header names
\* ("absent" when the project does not carry it) and whether it is what the
\* origin hands out now.  The skeleton is an origin once a skill names it.
HandedOut(p) ==
    LET carriesFrom == \E s \in p.skills : s.source = "skeleton"
    IN  {s \in p.skills : s.origin = "module" \/ (s.origin = "skeleton" /\ carriesFrom)}

SkillsFollowTheirOrigin(p) ==
    {Finding("skills-out-of-date", "warning", 0, s.name) :
        s \in {x \in HandedOut(p) : x.source \in {"", x.origin} /\ ~x.same}}

DistributedSkillsArePresent(p) ==
    {Finding("skills-missing", "warning", 0, s.name) : s \in {x \in HandedOut(p) : x.source = "absent"}}

GeneratedSkillsAreRetired(p) ==
    {Finding("generated-skill-retired", "warning", 0, s.name) : s \in {x \in p.skills : x.source = "aru"}}
=============================================================================
