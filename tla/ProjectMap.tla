----------------------------- MODULE ProjectMap -----------------------------
(***************************************************************************)
(* The edges of the project map (internal/doctor/project_map_edges.go), the *)
(* older project graph, and the edits of a project under both.              *)
(***************************************************************************)
EXTENDS ProjectArtifacts

CONSTANTS
    Base,          \* the tree of the project
    Library,       \* files that may be added to it and removed
    Orders,        \* orders Go may walk a map in: functions of the paths
    MaxEdits       \* bound: edits

VARIABLES
    tree, visit,   \* the project, and the order of this run's maps
    edits

vars == <<tree, visit, edits>>

-----------------------------------------------------------------------------
(* Edges.  Each is [from, to, kind, at]; a pair of nodes has one of a kind,  *)
(* shown at its first place.                                                 *)

\* The node an action method or any other declaration of a file is drawn from.
OwnerOf(t, f, d) ==
    IF d.action /\ Action(t, f.dir, d.recv, d.name) # NoNode THEN Action(t, f.dir, d.recv, d.name)
    ELSE FileId(f)

OwnerKind(t, f, d) == OwnerOf(t, f, d)[1]

\* targetOf: a use of a generated query is a use of its model.
TargetOf(t, f) ==
    LET owner == {g \in Artifacts(t) : g.rel = f.source}
    IN  IF f.source # None /\ owner # {} THEN owner ELSE {f} \cap Artifacts(t)

\* The declaring files a use names: through an import, or bare in a test of the
\* package.
Declaring(t, f, u) ==
    IF u.op = "ref" THEN Declared(t, u.dir, u.name)
    ELSE IF f.test THEN {g \in Declared(t, f.dir, u.name) : ~g.test}
    ELSE {}

\* What one use of an artifact of another package says.
ReferenceKind(from, target, u) ==
    CASE Kind(target) = "policy" -> "authorizes"
      [] Kind(target) = "request" -> "validates-with"
      [] Kind(target) = "model" /\ (u.use = "call" \/ from = "repository") -> "persists"
      [] Kind(target) = "repository" -> "persists"
      [] Kind(target) = "resource" /\ from \in {"action", "controller", "webhook"} -> "renders"
      [] Kind(target) = "event" /\ from = "listener" -> "listens-to"
      [] /\ Kind(target) \in {"job", "event", "notification", "mail"}
         /\ from \notin {"bootstrap", "provider", "entrypoint"}
         /\ u.use = "composite" \/ (u.use = "call" /\ u.dispatches) \/ u.named -> "dispatches"
      [] OTHER -> None

\* reference: a test is drawn from what it uses.
Reference(t, f, d, u) ==
    LET source == OwnerOf(t, f, d)
        at == <<f.rank, u.line>>
        drawn(g, target) ==
            IF OwnerKind(t, f, d) = "test"
            THEN IF Kind(target) = "test" THEN {}
                 ELSE {[from |-> FileId(target), to |-> source, kind |-> "tested-by", at |-> at]}
            ELSE IF g.dir = f.dir \/ ReferenceKind(OwnerKind(t, f, d), target, u) = None THEN {}
            ELSE {[from |-> source, to |-> FileId(target), at |-> at,
                   kind |-> ReferenceKind(OwnerKind(t, f, d), target, u)]}
    IN  UNION {UNION {drawn(g, target) : target \in {x \in TargetOf(t, g) : FileId(x) # source}} :
                g \in {x \in Declaring(t, f, u) : x # f}}

ReferenceEdges(t) ==
    UNION {UNION {Reference(t, f, x.d, x.u) : x \in Uses(f, "ref") \cup Uses(f, "bare")} :
            f \in {g \in Artifacts(t) : ~Generated(g)}}

ViewId(view) == <<"view", view.rel>>
ViewNamed(t, name) == {ViewId(v) : v \in {w \in t.views : w.name = name}}

RenderEdges(t) ==
    UNION {UNION {{[from |-> OwnerOf(t, f, x.d), to |-> id, kind |-> "renders", at |-> <<f.rank, x.u.line>>] :
                    id \in ViewNamed(t, x.u.name)} : x \in Uses(f, "view")} :
            f \in {g \in Artifacts(t) : ~Generated(g) /\ Kind(g) # "test"}}

ViewEdges(t) ==
    UNION {{[from |-> ViewId(v), to |-> id, kind |-> "renders", at |-> <<0, 1>>] :
                id \in UNION {ViewNamed(t, name) : name \in v.uses} \ {ViewId(v)}} : v \in t.views}

\* eventNames: of two events of one name, the one walked last.
EventNamed(t, name, order) ==
    LET those == {f \in Artifacts(t) : Kind(f) = "event" /\ \E x \in Uses(f, "event-name") : x.u.name = name}
    IN  IF those = {} THEN {} ELSE {FileId(LastFile(those, order))}

ListenEdges(t, order) ==
    UNION {UNION {{[from |-> OwnerOf(t, f, x.d), to |-> id, kind |-> "listens-to", at |-> <<f.rank, x.u.line>>] :
                    id \in EventNamed(t, x.u.name, order)} : x \in Uses(f, "string")} :
            f \in {g \in Artifacts(t) : ~Generated(g) /\ Kind(g) = "listener"}}

ModelsOf(t, table) ==
    {f \in Artifacts(t) : Kind(f) = "model" /\ ~Generated(f) /\ \E x \in Uses(f, "table-spec") : x.u.name = table}

Migrates(t) == {f \in Artifacts(t) : Kind(f) = "migration"}

TableEdges(t) ==
    UNION {UNION {{[from |-> FileId(m), to |-> FileId(f), kind |-> "persists", at |-> <<f.rank, x.u.line>>] :
                    m \in ModelsOf(t, x.u.name)} : x \in Uses(f, "table")} : f \in Migrates(t)}

\* Mutant: the feature of the model that was walked first, whatever the order the
\* migration names the tables in.
MigrationFeatureAsWalked(t, f, order) ==
    LET models == {m \in UNION {ModelsOf(t, x.u.name) : x \in Uses(f, "table")} : FeatureOf(t, m) # NoNode}
    IN  IF models = {} THEN NoNode ELSE FeatureOf(t, LastFile(models, order))

\* A migration joins the feature of the first table it names that has a model
\* with one, and of two such models of that table, of the one walked first.
MigrationFeature(t, f, order) ==
    LET owned == {x \in Uses(f, "table") : \E m \in ModelsOf(t, x.u.name) : FeatureOf(t, m) # NoNode}
        first == CHOOSE x \in owned : \A y \in owned : x.u.line <= y.u.line
        models == {m \in ModelsOf(t, first.u.name) : FeatureOf(t, m) # NoNode}
    IN  IF owned = {} THEN NoNode
        ELSE FeatureOf(t, CHOOSE m \in models : \A n \in models : order[m.rel] <= order[n.rel])

\* The feature a node of the map is shown under.
FeatureOfNode(t, f, order) ==
    IF Kind(f) = "migration" THEN MigrationFeature(t, f, order) ELSE FeatureOf(t, f)

FeatureOfAction(t, id) ==
    LET those == {f \in Artifacts(t) : f.rel = id[2]} IN FeatureOf(t, FirstFile(those))

Containing(from, to) == IF from = NoNode THEN {} ELSE {[from |-> from, to |-> to, kind |-> "contains", at |-> <<0, 0>>]}

FilesHeld(t, order) == UNION {Containing(FeatureOfNode(t, f, order), FileId(f)) : f \in Artifacts(t)}

ViewsHeld(t) == UNION {Containing(FeatureForView(v, Features(t)), ViewId(v)) : v \in t.views}

\* Its controller and its feature hold an action, its file and the feature of its
\* action a route.
HoldingAction(t, f, id) == Containing(FileId(f), id) \cup Containing(FeatureOf(t, f), id)

ActionsHeld(t) ==
    UNION {UNION {HoldingAction(t, f, ActionId(f, d.recv, d.name)) : d \in ActionsOf(f)} : f \in Artifacts(t)}

HoldingRoute(t, r) ==
    Containing(FileId(r.reg.f), r.id)
    \cup (IF r.action = NoNode THEN {} ELSE Containing(FeatureOfAction(t, r.action), r.id))

ContainsEdges(t, order) ==
    FilesHeld(t, order) \cup ViewsHeld(t) \cup ActionsHeld(t) \cup UNION {HoldingRoute(t, r) : r \in Routes(t)}

RouteEdges(t) ==
    {[from |-> r.id, to |-> r.action, kind |-> "routes-to", at |-> r.reg.at] :
        r \in {x \in Routes(t) : x.action # NoNode}}

Edges(t, order) ==
    ReferenceEdges(t) \cup RenderEdges(t) \cup ViewEdges(t) \cup ListenEdges(t, order)
    \cup TableEdges(t) \cup ContainsEdges(t, order) \cup RouteEdges(t)

-----------------------------------------------------------------------------
(* Nodes that are no artifacts.                                            *)

Code(t) == {f \in t.files : ~f.test}

Capabilities(t) == {<<"native-capability", c>> : c \in UNION {f.capabilities : f \in Code(t)}}

Screens(t) ==
    UNION {{<<"native-target", f.rel>> : i \in {j \in DOMAIN f.decls : f.decls[j].name = "main" /\ f.decls[j].recv = None}}
           \cup {<<"native-screen", f.rel, f.decls[i].name>> : i \in {j \in DOMAIN f.decls : f.decls[j].draws}} :
            f \in {g \in Code(t) : g.place = "native"}}

\* kernelExpression: a kernel, under any number of Register and Use.
KernelExpression(on) == on # <<>> /\ Head(on) = "kernel" /\ ToSet(Tail(on)) \subseteq {"Register", "Use"}

\* registeredImportAlias, lookup: a value built in the call, or a variable of the
\* file that holds one.
RegisteredAlias(f, argument) ==
    IF argument.form = "built here" THEN argument.alias
    ELSE IF argument.form = "variable" /\ argument.name \in DOMAIN f.built THEN f.built[argument.name] ELSE None

IsExternalModule(t, path) == path # None /\ path \notin t.own

ImportOf(f, alias) == IF alias \in DOMAIN f.imports THEN f.imports[alias].path ELSE None

Registered(t) ==
    UNION {UNION {{ImportOf(f, RegisteredAlias(f, a)) : a \in ToSet(x.u.args)} :
                    x \in {y \in Uses(f, "register") : KernelExpression(y.u.on)}} :
            f \in {g \in Code(t) : g.place = "bootstrap"}}

\* Modules an import belongs to that declare an arandu.mod.toml.
Depended(t) ==
    UNION {{f.imports[a].module : a \in {b \in DOMAIN f.imports : IsExternalModule(t, f.imports[b].path)}} : f \in Code(t)}
    \cap t.manifests

CommunityModules(t) ==
    {<<"community-module", m>> : m \in {p \in Registered(t) : IsExternalModule(t, p)} \cup Depended(t)}

\* Findings of one rule at one place are told apart by their order.
DiagnosticNodes(t) ==
    {<<"diagnostic", t.findings[i],
       Cardinality({j \in 1 .. i : t.findings[j] = t.findings[i]})>> : i \in DOMAIN t.findings}

\* addBorrowedGroups, addDiagnostics: what both maps show alike.
SharedNodes(t) == Capabilities(t) \cup Screens(t) \cup CommunityModules(t) \cup DiagnosticNodes(t)

-----------------------------------------------------------------------------
(* The two maps.                                                           *)

ActionNodes(t) == UNION {{ActionId(f, d.recv, d.name) : d \in ActionsOf(f)} : f \in Artifacts(t)}

NodeIds(t) ==
    {FileId(f) : f \in Artifacts(t)} \cup {FeatureId(w) : w \in Features(t)}
    \cup {ViewId(v) : v \in t.views} \cup {r.id : r \in Routes(t)}
    \cup ActionNodes(t) \cup SharedNodes(t)

\* link: one edge of a kind between two nodes, at its first place.
Drawn(t, order) ==
    LET edges == Edges(t, order)
        places(e) == {x.at : x \in {y \in edges : y.from = e.from /\ y.to = e.to /\ y.kind = e.kind}}
    IN  {[e EXCEPT !.at = Earliest(places(e))] : e \in edges}

\* What is shown of each file and of each feature.
Shown(t, order) ==
    {<<FileId(f), Place(f), Variant(t, f), FeatureOfNode(t, f, order), Generated(f)>> : f \in Artifacts(t)}
    \cup {<<FeatureId(w), FeaturePlace(t, w)>> : w \in Features(t)}

\* buildProjectMap.
BuildProjectMap(t, order) ==
    [nodes |-> NodeIds(t), shown |-> Shown(t, order), edges |-> Drawn(t, order)]

\* buildProjectGraph: every artifact under its directory's kind, tests left out;
\* any entity opens a feature there, and containment is the only edge.
GraphArtifacts(t) == {f \in Code(t) : PlaceKind(f) # None /\ f.place \notin {"views", "native"}}
GraphId(f) == <<PlaceKind(f), f.rel>>
GraphWords(f) == IF f.source # None /\ f.category = "Models" THEN f.owner ELSE f.entity
GraphFeatures(t) == {f.entity : f \in {g \in GraphArtifacts(t) : g.entity # <<>> /\ g.source = None}}

BuildProjectGraph(t) ==
    [nodes |-> {GraphId(f) : f \in GraphArtifacts(t)} \cup {FeatureId(w) : w \in GraphFeatures(t)}
               \cup {ViewId(v) : v \in t.views} \cup SharedNodes(t),
     edges |-> {<<FeatureId(GraphWords(f)), GraphId(f)>> : f \in {g \in GraphArtifacts(t) : GraphWords(g) \in GraphFeatures(t)}}
               \cup {<<FeatureForView(v, GraphFeatures(t)), ViewId(v)>> :
                        v \in {w \in t.views : FeatureForView(w, GraphFeatures(t)) # NoNode}}]

-----------------------------------------------------------------------------
(* What holds of the files of one project, whichever of them are there.    *)

\* Files have a place in the order of the paths and uses a line.
Ordered(t) ==
    /\ \E last \in t.files : last.rank \in Nat /\ \A f \in t.files : f.rank \in 0 .. last.rank
    /\ \A f \in t.files : \A d \in ToSet(f.decls) : \A u \in ToSet(d.uses) : u.line \in Nat

\* A walk meets every file, and one of them is the last.
Walks(t, order) == \A f \in t.files : order[f.rel] \in Nat
Ends(t, order)  == \E last \in t.files : \A f \in t.files : order[f.rel] <= order[last.rel]

\* Tests are files of their own, which no model build writes, and compile beside
\* the code of their package and the code without them: they repeat no method of
\* it, and no routes file takes a controller from a struct of theirs.
TestsBesideCode(t) ==
    \A g \in t.files : g.test =>
        /\ g.source = None
        /\ \A f \in Code(t) : f.rel # g.rel /\ f.source # g.rel
        /\ \A d \in ToSet(g.decls) : Action(t, g.dir, d.recv, d.name) = NoNode
        /\ \A f \in Code(t) : f.dir = g.dir =>
               \A x \in Uses(f, "route") :
                   \/ x.u.controller.form = "type"
                   \/ ~\E i \in DOMAIN g.decls : g.decls[i].name = x.u.controller.of /\ g.decls[i].recv = None

\* Registrations stand at lines of their own, and the actions of one are at
\* addresses of their own.  Of the names only "edit.edit" is not so: what lists
\* them and what edits one are both at /edit/{edit}/edit.
RoutesApart(t) ==
    /\ IsFiniteSet(Registrations(t))
    /\ \A g, h \in Registrations(t) : g.at = h.at => g = h
    /\ \A g \in Registrations(t) :
          /\ g.r.method = "Resource" =>
                \A a, b \in ResourceActions :
                    a[2] = b[2] /\ g.r.prefix \o ResourcePattern(g.r, a) = g.r.prefix \o ResourcePattern(g.r, b) => a = b
          /\ g.r.method = "Singleton" =>
                \A a, b \in SingletonActions :
                    a[2] = b[2] /\ g.r.prefix \o SingletonPattern(g.r, a) = g.r.prefix \o SingletonPattern(g.r, b) => a = b

Everything == [Base EXCEPT !.files = @ \cup Library]

FilesOfAProject ==
    /\ Base = [files |-> Base.files, views |-> Base.views, findings |-> Base.findings,
               own |-> Base.own, manifests |-> Base.manifests]
    /\ Ordered(Everything) /\ TestsBesideCode(Everything) /\ RoutesApart(Everything)
    /\ \A order \in Orders : Walks(Everything, order) /\ Ends(Everything, order)

-----------------------------------------------------------------------------
(* A project that is edited, and analysed again.                           *)

Init == tree = Base /\ visit \in Orders /\ edits = 0

AddFile(f) ==
    /\ edits < MaxEdits
    /\ \A g \in tree.files : g.rel # f.rel
    /\ tree' = [tree EXCEPT !.files = @ \cup {f}]
    /\ edits' = edits + 1
    /\ UNCHANGED visit

RemoveFile(f) ==
    /\ edits < MaxEdits
    /\ f \in tree.files
    /\ tree' = [tree EXCEPT !.files = @ \ {f}]
    /\ edits' = edits + 1
    /\ UNCHANGED visit

\* The same project, analysed by another process.
Again == visit' \in Orders /\ visit' # visit /\ UNCHANGED <<tree, edits>>

Next == Again \/ \E f \in Library : AddFile(f) \/ RemoveFile(f)

Spec == Init /\ [][Next]_vars

-----------------------------------------------------------------------------
OfTests(m) ==
    LET test(id) == id[1] = "test"
    IN  [nodes |-> {n \in m.nodes : ~test(n)}, shown |-> {x \in m.shown : ~test(x[1])},
         edges |-> {e \in m.edges : ~test(e.from) /\ ~test(e.to)}]

TestFiles(t) == {f \in t.files : f.test}

\* A test never changes what the map says of the code: writing or deleting one adds
\* and removes its own node and the edges that end at it, and nothing in the graph.
TestsOnlyAdd ==
    tree' # tree /\ Code(tree') = Code(tree) /\ tree'.views = tree.views =>
        /\ OfTests(BuildProjectMap(tree', visit)) = OfTests(BuildProjectMap(tree, visit))
        /\ BuildProjectGraph(tree') = BuildProjectGraph(tree)

Named(f, op) == {x.u.name : x \in Uses(f, op)}

\* The events that share a name with another one.
Namesakes(t) ==
    {f \in Artifacts(t) : /\ Kind(f) = "event"
                          /\ \E g \in Artifacts(t) \ {f} :
                                Kind(g) = "event" /\ Named(f, "event-name") \cap Named(g, "event-name") # {}}

\* The migrations of a table that has models of two features.
Disputed(t) ==
    {f \in Artifacts(t) : /\ Kind(f) = "migration"
                          /\ \E x \in Uses(f, "table") : \E m, n \in ModelsOf(t, x.u.name) :
                                /\ NoNode \notin {FeatureOf(t, m), FeatureOf(t, n)}
                                /\ FeatureOf(t, m) # FeatureOf(t, n)}

Either(a, b) == (a \ b) \cup (b \ a)

\* Two analyses of one project have the same nodes, and differ in what Go's walk of
\* its maps chooses and in nothing else: which of two events of one name a listener
\* listens to (project_map_edges.go:270-289), and which of two features with a model
\* of a table holds the migration of it (344-377).  In those two they do differ, and
\* the test of the map (project_map_test.go:424) has neither.
SameMapAgain ==
    Again =>
        LET one == BuildProjectMap(tree, visit)
            two == BuildProjectMap(tree', visit')
            chosen(files) == {FileId(f) : f \in files}
        IN  /\ two.nodes = one.nodes
            /\ \A x \in Either(one.shown, two.shown) : x[1] \in chosen(Disputed(tree))
            /\ \A e \in Either(one.edges, two.edges) :
                  \/ e.kind = "listens-to" /\ e.to \in chosen(Namesakes(tree))
                  \/ e.kind = "contains" /\ e.to \in chosen(Disputed(tree))

\* Every pattern a registration adds has a route of its own on the map, and the
\* route says where it was registered.
EveryRegistrationIsShown ==
    LET routes == Routes(tree)
        ids(g) == {r.id : r \in {x \in routes : x.reg = g}}
    IN  \A g \in Registrations(tree) :
            /\ Cardinality(ids(g)) = Cardinality(RoutesOf(tree, g.f, g.r))
            /\ \A h \in Registrations(tree) : h # g => ids(g) \cap ids(h) = {}
=============================================================================
