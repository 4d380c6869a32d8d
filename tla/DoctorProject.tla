--------------------------- MODULE DoctorProject ---------------------------
(***************************************************************************)
(* The project as `aru doctor` sees it (internal/doctor/doctor.go): a set   *)
(* of Go files that parse, a set of files that do not, and what is          *)
(* declared in each.  Doctor never type-checks and never runs anything, so  *)
(* a file is its path and the set of declarations a rule can recognise in   *)
(* its syntax tree.                                                         *)
(*                                                                         *)
(* A project is a record                                                    *)
(*   files    the files that parse         bad      the files that do not   *)
(*   path     where each file is           text     its declarations        *)
(*   profile  what it is checked against   module   go.mod could be read    *)
(*   manifest arandu.mod.toml, or NoManifest                                *)
(*   env      the modules .env.example asks for                             *)
(*   views    the names of the views, and what their markup holds           *)
(*   ci       a pipeline runs the journeys                                  *)
(*   stale    what model:build would write, as a set of files               *)
(*   catalog  the imports the framework only forwards   skills  the skills  *)
(*                                                                         *)
(* A declaration is one of                                                  *)
(*   [kind: "import", path]                                                 *)
(*   [kind: "type", stem, suffix, marks]     type StemSuffix ...            *)
(*   [kind: "func", stem, suffix, name, takes, body]                        *)
(*        a function, or a method of StemSuffix; body is the sequence of    *)
(*        the calls and literals the rules look for, in source order        *)
(*   [kind: "note", says]   a comment or a literal outside a function       *)
(* and a name is kept as its stem and the suffix the rules trim from it.    *)
(***************************************************************************)
EXTENDS Naturals, Sequences, FiniteSets

NoManifest == [name |-> "", declares |-> {}, profiles |-> {}]

\* A project has all that the rules look at.
IsProject(q) ==
    /\ q = [k \in DOMAIN q |-> q[k]]
    /\ {"files", "bad", "path", "text", "profile", "module", "manifest", "env",
        "views", "ci", "stale", "catalog", "skills"} \subseteq DOMAIN q

----------------------------------------------------------------------------
(* Names and paths.                                                        *)

\* appCategories: the directories under app/ doctor knows, and the suffix
\* their files carry.
AppCategories ==
    [Controllers |-> "Controller", Middleware |-> "Middleware", Requests |-> "Request",
     Models |-> "", Enums |-> "", Policies |-> "Policy", Services |-> "Service",
     Repositories |-> "Repository", Jobs |-> "Job", Events |-> "Event",
     Listeners |-> "Listener", Mail |-> "Mail", Providers |-> "Provider",
     Rules |-> "Rule", Commands |-> "Command"]

TrimSuffix(x, suffix) == IF x.suffix = suffix THEN x.stem ELSE x.stem \o x.suffix

\* classify: the deepest directory of the closed list names the category;
\* a directory outside the list still classifies under its own name.
Classify(path) ==
    LET dir == path.dir
        known == {i \in 2..Len(dir) : dir[i] \in DOMAIN AppCategories}
        deepest == dir[CHOOSE i \in known : \A j \in known : j <= i]
    IN  IF Len(dir) < 2 \/ dir[1] # "app"
        THEN [category |-> "", entity |-> ""]
        ELSE IF known = {}
             THEN [category |-> dir[Len(dir)], entity |-> path.stem \o path.suffix]
             ELSE [category |-> deepest, entity |-> TrimSuffix(path, AppCategories[deepest])]

Category(p, f) == Classify(p.path[f]).category
Entity(p, f)   == Classify(p.path[f]).entity

\* strings.HasPrefix(f.rel, root + "/"), by directory.
Under(p, f, root) ==
    /\ Len(root) <= Len(p.path[f].dir)
    /\ SubSeq(p.path[f].dir, 1, Len(root)) = root

Segments(p, f) == {p.path[f].dir[i] : i \in DOMAIN p.path[f].dir}

IsTest(p, f) == p.path[f].test
Code(p)      == {f \in p.files : ~IsTest(p, f)}

----------------------------------------------------------------------------
(* What a file declares.  Only the files that parse declare anything.      *)

Decls(p, f, kind) == {d \in p.text[f] : d.kind = kind}
Types(p, f)       == Decls(p, f, "type")
Funcs(p, f)       == Decls(p, f, "func")
Imports(p, f)     == {d.path : d \in Decls(p, f, "import")}
Notes(p, f)       == {d.says : d \in Decls(p, f, "note")}

NameOf(d)   == d.stem \o d.suffix
IsMethod(d) == NameOf(d) # ""
Does(fn, call) == \E i \in DOMAIN fn.body : fn.body[i] = call
Holds(fn)      == {fn.body[i] : i \in DOMAIN fn.body}

\* A rule answers with findings.  Where the line is does not matter here;
\* "about" keeps apart two findings of one rule in one file.
Finding(rule, severity, f, about) ==
    [rule |-> rule, severity |-> severity, file |-> f, about |-> about]

\* One finding per file of a set, and one per function of a file.
PerFile(rule, severity, fs) == {Finding(rule, severity, f, "") : f \in fs}
PerFunc(p, rule, severity, fs, Is(_, _)) ==
    UNION {{Finding(rule, severity, f, NameOf(fn) \o fn.name) :
                fn \in {g \in Funcs(p, f) : Is(f, g)}} : f \in fs}

----------------------------------------------------------------------------
(* blind: doctor failed to read a file that could hold a declaration about  *)
(* the entity, judged by the file's path.                                   *)
Blind(p, entity) ==
    \E u \in p.bad : \/ Entity(p, u) = entity
                     \/ Category(p, u) # "" /\ Entity(p, u) = ""

----------------------------------------------------------------------------
(* Where a rule applies.                                                    *)

\* requestPath: a controller, a middleware or a route file.
OnRequestPath(p, f) ==
    Category(p, f) \in {"Controllers", "Middleware"} \/ Under(p, f, <<"routes">>)

ControllerFile(p, f) ==
    /\ ~IsTest(p, f)
    /\ Category(p, f) = "Controllers"
    /\ Under(p, f, <<"app", "Http", "Controllers">>)

ServiceFile(p, f) == ~IsTest(p, f) /\ Under(p, f, <<"app", "Services">>)

\* main.go, and what is under the five directories of the application.
ApplicationFile(p, f) ==
    /\ ~IsTest(p, f)
    /\ \/ p.path[f].dir = <<>> /\ p.path[f].stem = "main"
       \/ \E root \in {"app", "bootstrap", "routes", "config", "cmd"} : Under(p, f, <<root>>)

RequestFile(p, f) == ~IsTest(p, f) /\ Under(p, f, <<"app", "Http", "Requests">>)

InAMigration(p, f) == "migrations" \in Segments(p, f)

\* Where the skeleton puts work that has no request behind it.
InASystemScope(p, f) ==
    \/ p.path[f].dir = <<>> /\ p.path[f].stem = "main"
    \/ p.path[f].dir = <<"routes">> /\ p.path[f].stem = "console"
    \/ Segments(p, f) \cap {"seeders", "Jobs", "Commands", "Console", "cmd"} # {}

SuiteFile(p, f)        == IsTest(p, f) \/ Under(p, f, <<"tests">>)
RequestLayerFile(p, f) == Under(p, f, <<"tests">>) /\ ~Under(p, f, <<"tests", "Unit">>)
JourneyFile(p, f)      == Under(p, f, <<"tests", "E2E">>) \/ Under(p, f, <<"tests", "Browser">>)
=============================================================================
