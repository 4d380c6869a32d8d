-------------------------- MODULE ProjectArtifacts --------------------------
(***************************************************************************)
(* The project graph and the project map of doctor                         *)
(* (internal/doctor/project_graph.go and project_map*.go): the artifacts of *)
(* an application, the features they belong to, and the routes that reach   *)
(* them.  ProjectMap draws the edges.                                       *)
(*                                                                         *)
(* A file is a record                                                       *)
(*   rel, rank     its path, and its place in the order of the paths        *)
(*   dir, place    its package, and the directory the graph files it under  *)
(*   category, entity   what classify answers; an entity is the sequence of *)
(*                 the words of a name, a word being [w, s] with s for a    *)
(*                 plural                                                   *)
(*   test, generated, source, owner   a test; marked as generated; the file *)
(*                 of the model a generated query was written for, or "",   *)
(*                 and that model's entity                                  *)
(*   asserts       the interfaces it asserts, in order                      *)
(*   shapes        what its declarations have the shape of                  *)
(*   decls         its declarations in order: [name, recv, action, line,    *)
(*                 field, draws, uses], uses being what its body does       *)
(*   capabilities, imports, built   the native components it imports, its   *)
(*                 other imports by alias ([path, module]: what is written, *)
(*                 and the module that owns it), and the variables it       *)
(*                 builds of them, by alias                                 *)
(* and a tree is [files, views, findings, own, manifests]: the files, the   *)
(* views ([rel, name, segment, uses]), the findings in order, the import    *)
(* paths that are no other project's, and the modules with an               *)
(* arandu.mod.toml.  A map whose iteration order matters is walked  *)
(* in the order `visit`, one of those Go may take.                          *)
(***************************************************************************)
EXTENDS Naturals, FiniteSets, SequencesExt

CONSTANT LabelsByLength    \* every entity, the longest label first

None == ""
NoNode == <<"">>      \* the node of nothing

\* The positions of the files and of what is in them.
Before(a, b) == a[1] < b[1] \/ (a[1] = b[1] /\ a[2] < b[2])
Earliest(S) == CHOOSE a \in S : \A b \in S : a = b \/ ~Before(b, a)

FirstLine(f) == IF f.decls = <<>> THEN 1 ELSE f.decls[1].line
Place(f) == <<f.rank, FirstLine(f)>>
FirstFile(S) == CHOOSE f \in S : \A g \in S : f.rank <= g.rank
LastFile(S, visit) == CHOOSE f \in S : \A g \in S : visit[g.rel] <= visit[f.rel]
InOrder(S) == SetToSortSeq(S, LAMBDA f, g : f.rank < g.rank)

\* The uses of one kind in a file, with the declaration each is in.
Uses(f, op) ==
    UNION {{[d |-> d, u |-> u] : u \in {x \in ToSet(d.uses) : x.op = op}} : d \in ToSet(f.decls)}

-----------------------------------------------------------------------------
(* What a file is.                                                         *)

ControllerContracts == {"Indexer", "Creator", "Storer", "Shower", "Editor", "Updater", "Destroyer", "Invoker"}

\* contractKinds; a contract it does not list says nothing.
ContractKind(c) ==
    CASE c \in ControllerContracts -> "controller"
      [] c = "JsonResource" -> "resource"
      [] c = "Notification" -> "notification"
      [] c \in {"Validatable", "RequestRules"} -> "request"
      [] c = "Policy" -> "policy"
      [] c = "Handler" -> "job"
      [] c = "Publisher" -> "listener"
      [] c = "Mailable" -> "mail"
      [] c = "Seeder" -> "seeder"
      [] OTHER -> None

\* The first assertion that says something decides.
AssertedKind(f) ==
    LET said == SelectSeq(f.asserts, LAMBDA c : ContractKind(c) # None)
    IN  IF said = <<>> THEN None ELSE ContractKind(said[1])

VariantFromAssertions(f) ==
    LET seen == ToSet(f.asserts)
    IN  IF "Invoker" \in seen THEN "invokable"
        ELSE IF seen \cap {"Indexer", "Creator", "Storer", "Destroyer"} # {} THEN "resource"
        ELSE IF seen \cap {"Shower", "Editor", "Updater"} # {} THEN "singleton"
        ELSE None

DeclaresAction(f) == \E i \in DOMAIN f.decls : f.decls[i].action

\* anatomyOf: what the declarations say, a test being a test first.
Anatomy(f) ==
    IF f.test THEN "test"
    ELSE IF AssertedKind(f) # None THEN AssertedKind(f)
    ELSE IF "factory" \in f.shapes THEN "factory"
    ELSE IF "model" \in f.shapes THEN "model"
    ELSE IF "migration" \in f.shapes THEN "migration"
    ELSE IF DeclaresAction(f) THEN "controller"
    ELSE IF "request" \in f.shapes THEN "request"
    ELSE IF "event" \in f.shapes THEN "event"
    ELSE IF "middleware" \in f.shapes /\ f.place = "app" THEN "middleware"
    ELSE None

KindOfCategory ==
    [Controllers |-> "controller", Middleware |-> "middleware", Requests |-> "request",
     Models |-> "model", Repositories |-> "repository", Jobs |-> "job", Events |-> "event",
     Listeners |-> "listener", Mail |-> "mail", Commands |-> "command", Policies |-> "policy",
     Services |-> "service", Enums |-> "enum", Rules |-> "rule", Providers |-> "provider"]

KindOfPlace ==
    [migrations |-> "migration", seeders |-> "seeder", console |-> "console-route",
     routes |-> "route", entry |-> "entrypoint", bootstrap |-> "bootstrap"]

\* graphArtifactForFile: the directory alone.  Views and native targets are no
\* artifacts.
PlaceKind(f) ==
    IF f.place = "app"
    THEN IF f.category \in DOMAIN KindOfCategory THEN KindOfCategory[f.category] ELSE "application"
    ELSE IF f.place \in DOMAIN KindOfPlace THEN KindOfPlace[f.place] ELSE None

\* classify: the anatomy first, the directory when it says nothing.
Kind(f) ==
    LET located == PlaceKind(f)
        kind == IF f.place \in {"views", "native"} THEN None
                ELSE IF Anatomy(f) # None THEN Anatomy(f)
                ELSE IF located = "route" THEN "route-file"
                ELSE IF located # None THEN located
                ELSE IF f.place = "factories" THEN "factory"
                ELSE None
        named == IF kind = "controller" /\ "webhook" \in f.shapes THEN "webhook" ELSE kind
    IN  IF f.category = "Clients" /\ named \notin {"test", None}
           /\ ("client" \in f.shapes \/ named \in {"application", "client"})
        THEN "client"
        ELSE named

ClientVariant(f) ==
    IF "client" \in f.shapes THEN None
    ELSE IF Kind(f) = "client" THEN "fake"
    ELSE IF AssertedKind(f) = "controller" /\ ~f.test THEN VariantFromAssertions(f) ELSE None

Generated(f) == f.generated \/ f.source # None

\* A generated file, a test, a factory and a seeder join a feature and open none.
JoinsOnly(f) == Generated(f) \/ Kind(f) \in {"test", "factory", "seeder"}

\* A generated query belongs to the entity of its model.
FeatureWords(f) ==
    IF Kind(f) \in {"migration", "route-file", "console-route", "entrypoint", "bootstrap"} THEN <<>>
    ELSE IF f.source # None /\ Kind(f) \notin {"test", "factory", "seeder"} THEN f.owner
    ELSE f.entity

Artifacts(t) == {f \in t.files : Kind(f) # None}
FileId(f) == <<Kind(f), f.rel>>

\* declare and keepFirst: the file of the package that declares the name, a test
\* file only when no other does.
Declared(t, dir, name) ==
    LET those == {f \in t.files : f.dir = dir /\ \E i \in DOMAIN f.decls : f.decls[i].name = name /\ f.decls[i].recv = None}
        code == {f \in those : ~f.test}
    IN  IF code # {} THEN {FirstFile(code)} ELSE IF those # {} THEN {FirstFile(those)} ELSE {}

-----------------------------------------------------------------------------
(* Features.                                                               *)

\* holdsWord: the words of the label stand together in the name, the last one
\* possibly in the plural.
HoldsWord(name, label) ==
    label # <<>> /\ \E i \in 0 .. Len(name) - Len(label) :
        \A j \in DOMAIN label :
            /\ name[i + j].w = label[j].w
            /\ name[i + j].s = label[j].s \/ (j = Len(label) /\ name[i + j].s)

Weight(kind) ==
    CASE kind = "model" -> 0 [] kind = "service" -> 1 [] kind = "policy" -> 2
      [] kind = "controller" -> 3 [] OTHER -> 4

FeatureOpeners == {"model", "service", "policy", "controller", "repository"}

Opens(f) == FeatureWords(f) # <<>> /\ ~JoinsOnly(f) /\ Kind(f) \in FeatureOpeners

Features(t) == {FeatureWords(f) : f \in {g \in Artifacts(t) : Opens(g)}}
FeatureId(words) == <<"feature", words>>

\* A feature is shown where the lightest of the files that open it is.
FeaturePlace(t, words) ==
    LET openers == {f \in Artifacts(t) : Opens(f) /\ FeatureWords(f) = words}
        least == {f \in openers : \A g \in openers : Weight(Kind(f)) <= Weight(Kind(g))}
    IN  Earliest({Place(f) : f \in least})

\* The labels a name holds, by their places.
Held(t, words) ==
    {i \in DOMAIN LabelsByLength : LabelsByLength[i] \in Features(t) /\ HoldsWord(words, LabelsByLength[i])}

\* The feature a file joins: its own entity's, or the longest label its name holds.
FeatureOf(t, f) ==
    LET words == FeatureWords(f)
        held == Held(t, words)
    IN  IF f \notin Artifacts(t) \/ words = <<>> THEN NoNode
        ELSE IF words \in Features(t) THEN FeatureId(words)
        ELSE IF held # {} THEN FeatureId(LabelsByLength[CHOOSE i \in held : \A j \in held : i <= j]) ELSE NoNode

\* featureForView: the first segment of a name, or its singular.
FeatureForView(view, opened) ==
    LET singular == <<[view.segment EXCEPT !.s = FALSE]>>
    IN  IF <<view.segment>> \in opened THEN FeatureId(<<view.segment>>)
        ELSE IF view.segment.s /\ singular \in opened THEN FeatureId(singular) ELSE NoNode

-----------------------------------------------------------------------------
(* Actions and routes.                                                     *)

IsController(f) == Kind(f) \in {"controller", "webhook"}

ActionId(f, type, name) == <<"action", f.rel, type, name>>

\* The action methods of the controllers.
ActionsOf(f) ==
    {f.decls[i] : i \in {j \in DOMAIN f.decls : IsController(f) /\ f.decls[j].action}}

\* The controllers of a package that declare a method of a type.
Acting(t, dir, type, name) ==
    {f \in Artifacts(t) : f.dir = dir /\ \E d \in ActionsOf(f) : d.recv = type /\ d.name = name}

\* actions: the node of a method of a type of a package.
Action(t, dir, type, name) ==
    LET those == Acting(t, dir, type, name)
    IN  IF those = {} THEN NoNode
        ELSE ActionId(CHOOSE f \in those : \A g \in those : g.rank <= f.rank, type, name)

\* expressionType: the name of the type an expression of a routes file holds,
\* written there or as the field of a struct its package declares.
ExpressionType(t, f, e) ==
    IF e.form = "type" THEN e.type
    ELSE LET declaring == Declared(t, f.dir, e.of)
             fields == {d \in UNION {ToSet(g.decls) : g \in declaring} : d.name = e.of}
         IN  IF \E d \in fields : d.field[1] = e.field
             THEN (CHOOSE d \in fields : d.field[1] = e.field).field[2] ELSE None

\* controllerTypes: the first controller file with a type of that name, whatever
\* its package.
ControllerFiles(t, type) ==
    LET those == {f \in Artifacts(t) : IsController(f) /\ \E i \in DOMAIN f.decls :
                    f.decls[i].name = type /\ f.decls[i].recv = None}
    IN  IF those = {} THEN {} ELSE {FirstFile(those)}

\* The expansion of a name with segments: the parents with their parameter, and
\* then the last one; a member is reached by the last one alone.
Collection(resource) ==
    FlattenSeq([i \in DOMAIN resource |->
        IF i < Len(resource) THEN <<resource[i], "{" \o resource[i] \o "}">> ELSE <<resource[i]>>])
Member(resource) ==
    IF Len(resource) = 1 THEN resource \o <<"{id}">>
    ELSE <<Last(resource), "{" \o Last(resource) \o "}">>

ResourceActions ==
    {<<"Index", "GET", FALSE, <<>>>>, <<"Create", "GET", FALSE, <<"create">>>>, <<"Store", "POST", FALSE, <<>>>>,
     <<"Show", "GET", TRUE, <<>>>>, <<"Edit", "GET", TRUE, <<"edit">>>>, <<"Update", "PUT", TRUE, <<>>>>,
     <<"Update", "PATCH", TRUE, <<>>>>, <<"Destroy", "DELETE", TRUE, <<>>>>}
SingletonActions ==
    {<<"Show", "GET", <<>>>>, <<"Edit", "GET", <<"edit">>>>, <<"Update", "PUT", <<>>>>, <<"Update", "PATCH", <<>>>>}

\* The method of its controller that a registration names.
HandlerOf(t, f, r, name) ==
    LET type == ExpressionType(t, f, r.controller)
        files == ControllerFiles(t, type)
    IN  IF files = {} THEN NoNode ELSE Action(t, FirstFile(files).dir, type, name)

\* A route of a registration, to a method of its controller.
RouteTo(t, f, r, http, name, pattern) ==
    [http |-> http, action |-> HandlerOf(t, f, r, name), pattern |-> r.prefix \o pattern]

\* Where the actions of a Resource and of a Singleton are.
ResourcePattern(r, a)  == (IF a[3] THEN Member(r.name) ELSE Collection(r.name)) \o a[4]
SingletonPattern(r, a) == Collection(r.name) \o a[3]

\* What one registration adds: [http, pattern, action].  A Resource and a
\* Singleton add the routes of the actions their controller declares.
RoutesOf(t, f, r) ==
    CASE r.method = "Resource" ->
           {RouteTo(t, f, r, a[2], a[1], ResourcePattern(r, a)) :
                a \in {b \in ResourceActions : HandlerOf(t, f, r, b[1]) # NoNode}}
      [] r.method = "Singleton" ->
           {RouteTo(t, f, r, a[2], a[1], SingletonPattern(r, a)) :
                a \in {b \in SingletonActions : HandlerOf(t, f, r, b[1]) # NoNode}}
      [] r.method = "ResourceAction" -> {RouteTo(t, f, r, r.http, r.handler, Member(r.name) \o <<r.handler>>)}
      [] r.method = "Invokable" -> {RouteTo(t, f, r, r.http, "Invoke", r.name)}
      [] OTHER -> {RouteTo(t, f, r, r.http, r.handler, r.name)}

IsRouteFile(f) == f.place = "routes" /\ ~f.test

\* Every registration, with where it stands.
Registrations(t) ==
    UNION {{[f |-> f, r |-> x.u, at |-> <<f.rank, x.u.line>>] : x \in Uses(f, "route")} :
            f \in {g \in t.files : IsRouteFile(g)}}

\* Mutant: two registrations of one pattern are one route.
UnnumberedRoutes(t) ==
    UNION {{[id |-> <<"route", x.http, x.pattern, 1>>, reg |-> g, action |-> x.action] :
                x \in RoutesOf(t, g.f, g.r)} : g \in Registrations(t)}

\* addRoute: one node for each registration of a method and pattern, numbered in
\* the order they are met.
NumberOf(added, g, x) ==
    1 + Cardinality({h \in DOMAIN added : Before(h.at, g.at) /\
                        \E y \in added[h] : y.http = x.http /\ y.pattern = x.pattern})

Numbered(added) ==
    UNION {{[id |-> <<"route", x.http, x.pattern, NumberOf(added, g, x)>>, reg |-> g, action |-> x.action] :
                x \in added[g]} : g \in DOMAIN added}

Routes(t) == Numbered([g \in Registrations(t) |-> RoutesOf(t, g.f, g.r)])

\* The registration that named the shape of a controller last.
ShapedBy(t, f) ==
    {g \in Registrations(t) : g.r.method \in {"Resource", "Singleton", "Invokable"}
        /\ ControllerFiles(t, ExpressionType(t, g.f, g.r.controller)) = {f}}

Variant(t, f) ==
    LET shaped == ShapedBy(t, f)
        last == CHOOSE g \in shaped : \A h \in shaped : g = h \/ Before(h.at, g.at)
        methods == {d.name : d \in ActionsOf(f)}
    IN  IF shaped # {} THEN last.r.method
        ELSE IF ClientVariant(f) # None \/ Kind(f) # "controller" THEN ClientVariant(f)
        ELSE IF methods = {"Invoke"} /\ Cardinality(ActionsOf(f)) = 1 THEN "invokable" ELSE "plain"

=============================================================================
