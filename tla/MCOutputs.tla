----------------------------- MODULE MCOutputs ------------------------------
(***************************************************************************)
(* Outputs for TLC: the sizes of the build cache's outputs, the manifests  *)
(* of a few libraries and the provisioning profiles of a machine.          *)
(***************************************************************************)
EXTENDS Outputs

CONSTANTS o1, o2, o3

Targets == INSTANCE PackageTargets

\* One output is as large as the two others.
MCSize == [o \in Outputs |-> IF o = o1 THEN 2 ELSE 1]

-----------------------------------------------------------------------------
(***************************************************************************)
(* What may be asked of the packager: by `native:build`, and by a caller   *)
(* of its own interface, over one small application.                       *)
(***************************************************************************)

graph == [root |-> "app", imports |-> [app |-> {"ui"}, ui |-> {"runtime", "notifications"},
                                      runtime |-> {}, notifications |-> {}],
          compiled |-> {"app", "ui", "notifications"}, placed |-> {"runtime"}, marked |-> {"runtime"},
          permissions |-> {"notifications"}]
variable(type, literal) == [constant |-> FALSE, type |-> type, literal |-> literal]
files == <<[ID |-> variable("", "string"), extraArgs |-> variable("string", "")],
           [schemesURI |-> variable("string", "")]>>

base == [target |-> "", mode |-> "exe", suffix |-> "", archs |-> <<>>, key |-> FALSE, pass |-> FALSE,
         notary |-> {}, semver |-> TRUE, minsdk |-> 0, targetsdk |-> 0, libraries |-> <<21>>, java |-> TRUE,
         graph |-> graph, runtimeFiles |-> files]

MCNames == DOMAIN Targets!nativeTargets
MCTyped == {<<n, p, o>> \in MCNames \X BOOLEAN \X {"none", ".aab", ".app"} :
               /\ Targets!Packaging(n, p) /\ ~Targets!NativeRefuses(n, p, o)
               /\ o = "none" \/ Targets!nativeTargets[n].packages \in {"android", "ios"}}
MCNative == {Targets!packageNative(t[1], t[3], base) : t \in MCTyped}

\* Refused, and the paths only a caller of the package reaches.
MCOwn ==
    {[base EXCEPT !.target = "android", !.suffix = ".apk", !.java = FALSE, !.archs = <<"arm64">>],
     [base EXCEPT !.target = "android", !.suffix = ".aar", !.mode = "archive", !.minsdk = 24, !.archs = <<"arm64", "amd64">>],
     [base EXCEPT !.target = "ios", !.suffix = ".framework", !.mode = "archive"],
     [base EXCEPT !.target = "tvos", !.suffix = ".app"],
     [base EXCEPT !.target = "macos", !.key = TRUE, !.pass = TRUE, !.notary = {"id", "pass", "team"}],
     [base EXCEPT !.target = "windows", !.archs = <<"amd64", "arm64">>],
     [base EXCEPT !.target = "windows", !.notary = {"id"}],
     [base EXCEPT !.target = "js", !.runtimeFiles = Tail(files)],
     [base EXCEPT !.target = "js", !.graph.marked = {"runtime", "ui"}]}

MCRequests == MCNative \cup MCOwn

-----------------------------------------------------------------------------
(* Manifests and profiles.                                                 *)

element(tag, pkg, id, meta, empty, needs) ==
    [tag |-> tag, name |-> [pkg |-> pkg, id |-> id], attributes |-> IF empty THEN "closed" ELSE "open",
     meta |-> meta, empty |-> empty, needs |-> needs]
permission(id) == element("uses-permission", "", id, {}, TRUE, {})
discovery(meta) == element("service", "firebase", "Discovery", meta, FALSE, {})
MCManifests ==
    {[pkg |-> "push", children |-> <<permission("internet"), discovery({"push"}), element("service", "", "Messaging", {}, FALSE, {})>>],
     [pkg |-> "core", children |-> <<discovery({"core"}), permission("internet"), element("queries", "", "", {}, FALSE, {})>>],
     [pkg |-> "core", children |-> <<[discovery({"core", "push"}) EXCEPT !.attributes = "exported"]>>],
     [pkg |-> "view", children |-> <<[discovery({}) EXCEPT !.empty = TRUE, !.attributes = "closed"], element("uses-sdk", "", "", {}, TRUE, {})>>],
     [pkg |-> "view", children |-> <<element("uses-feature", "", "", {}, TRUE, {}), element("service", "", "Messaging", {"a"}, FALSE, {"channel"})>>],
     [pkg |-> "view", children |-> <<element("permission", "", "view", {}, TRUE, {"nothing"})>>]}
MCSources == UNION {[1 .. n -> MCManifests] : n \in 0 .. 3}

MCProfiles ==
    [expired : BOOLEAN, app : BOOLEAN, certificates : {<<>>, <<"mine">>, <<"theirs", "mine">>, <<"theirs">>},
     entitlements : {{}, {"push"}}]

-----------------------------------------------------------------------------
(* What is asked of a project: migrations of two names, the skills of two  *)
(* origins in two versions, and the faces of a family.                     *)

MCAsks == [kind : {"migration", "module"}, name : {"a", "b"}, force : BOOLEAN]

MCOrigins == <<"skeleton", "module">>
MCDistributes == [skeleton |-> <<<<"s1">>, <<"s1", "s2">>>>, module |-> <<<<"s1", "s2", "s3">>, <<"s2">>>>]

MCRoles == <<"body", "display">>
face(range, hash) == [file |-> <<"face">>, range |-> range, body |-> hash]
MCFaces == {face(1, 1), face(2, 1), face(1, 2)}
=============================================================================
