---------------------------- MODULE ViewCompile -----------------------------
(***************************************************************************)
(* The view compiler (viewcompile.go): every source under resources/views  *)
(* becomes one Go file under storage/framework/views, beside a developer   *)
(* who saves, breaks and deletes sources while it reads them.  A source is *)
(* known by its revision; a revision parses and generates, or does not.    *)
(* The commands around it: view:build, and the commands that build only    *)
(* when an output is missing.                                              *)
(***************************************************************************)
EXTENDS Naturals

CONSTANTS
    Views,      \* the paths a source may have
    Path,       \* their order
    Layouts,    \* those under a layouts directory
    Extends, NoView,  \* the view each one extends, or none
    Declares,   \* those that declare a data type of their own
    ReadsData,  \* those that read a field of their data
    MaxSaves    \* bound: revisions

ASSUME PathOrder ==
    /\ Path \in [Views -> Nat]
    /\ \A v, w \in Views : Path[v] = Path[w] => v = w
ASSUME ViewKinds == Layouts \subseteq Views /\ Declares \subseteq Views /\ ReadsData \subseteq Views
ASSUME ExtendsViews == Extends \in [Views -> Views \cup {NoView}] /\ NoView \notin Views
ASSUME MaxSavesPos == MaxSaves \in Nat \ {0}

VARIABLES
    form,        \* what each revision is: sound, or refused by a stage
    src, saves,  \* the sources: the revision of each, 0 for none
    project,     \* the views are in resources/views, not a library's root
    out,         \* the compiled tree
    styled,      \* the compiled stylesheet is there
    pc, todo, inherited, problems,  \* compileViews
    view, pending,                  \* the output it is writing
    found, begin, \* observed: the sources it found, and their revisions then
    result        \* how the last command ended

tree == <<form, src, saves, project>>
seen == <<found, begin>>
vars == <<tree, out, styled, pc, todo, inherited, problems, view, pending, seen, result>>

Forms == {"sound", "unparsed", "rejected"}
Revisions == 1 .. MaxSaves

Output(k, r, t) == [kind |-> k, rev |-> r, type |-> t]
Absent == Output("absent", 0, 0)
Torn == Output("torn", 0, 0)
StandIn == Output("stand-in", 0, 0)
Compiled(r, t) == Output("compiled", r, t)
Outputs == [kind : {"absent", "torn", "stand-in", "compiled"}, rev : 0 .. MaxSaves, type : 0 .. MaxSaves]

TypeOK ==
    /\ form \in [Revisions -> Forms]
    /\ src \in [Views -> 0 .. MaxSaves] /\ saves \in Revisions
    /\ project \in BOOLEAN /\ styled \in BOOLEAN
    /\ out \in [Views -> Outputs] /\ pending \in Outputs
    /\ pc \in {"idle", "read", "write", "prune", "style"}
    /\ todo \subseteq found /\ found \subseteq Views /\ problems \subseteq found
    /\ view \in Views \cup {NoView}
    /\ (pc = "idle" => todo = {}) /\ (pc = "read" => todo # {}) /\ (pc = "write" => view \in todo)
    /\ inherited \in [Views -> 0 .. MaxSaves]
    /\ begin \in [Views -> 0 .. MaxSaves]
    /\ result \in {"none", "ok", "refused", "failed", "complete"}

Untyped == [v \in Views |-> 0]

Init ==
    /\ form \in [Revisions -> Forms] /\ form[1] = "sound"
    /\ src \in [Views -> {0, 1}] /\ saves = 1
    /\ project \in BOOLEAN
    /\ out = [v \in Views |-> Absent] /\ styled = FALSE
    /\ pc = "idle" /\ todo = {} /\ inherited = Untyped /\ problems = {}
    /\ view = NoView /\ pending = Absent
    /\ found = {} /\ begin = Untyped
    /\ result = "none"

(***************************************************************************)
(* The developer, at any moment; and a clone, which carries no outputs.    *)
(***************************************************************************)
Save(v) ==
    /\ saves < MaxSaves
    /\ saves' = saves + 1
    /\ src' = [src EXCEPT ![v] = saves + 1]
    /\ UNCHANGED <<form, project, out, styled, pc, todo, inherited, problems, view, pending, seen, result>>

Delete(v) ==
    /\ src[v] # 0
    /\ src' = [src EXCEPT ![v] = 0]
    /\ UNCHANGED <<form, saves, project, out, styled, pc, todo, inherited, problems, view, pending, seen, result>>

Clone ==
    /\ pc = "idle"
    /\ out' = [v \in Views |-> Absent] /\ styled' = FALSE
    /\ result' = "none"
    /\ UNCHANGED <<tree, pc, todo, inherited, problems, view, pending, seen>>

Sources == {v \in Views : src[v] # 0}

(***************************************************************************)
(* compileViews.  With no source it returns before the prune.              *)
(***************************************************************************)
Find ==
    /\ pc = "idle"
    /\ pc' = IF Sources = {} THEN "style" ELSE "read"
    /\ found' = Sources /\ todo' = Sources /\ begin' = src
    /\ inherited' = Untyped /\ problems' = {}
    /\ result' = "none"
    /\ UNCHANGED <<tree, out, styled, view, pending>>

\* Mutant: the sources are sorted by path alone.
Before_PathAlone(v, w) == Path[v] < Path[w]

\* Layouts first, then by path.
Before(v, w) ==
    \/ v \in Layouts /\ w \notin Layouts
    \/ (v \in Layouts <=> w \in Layouts) /\ Path[v] < Path[w]

First(v) == v \in todo /\ \A w \in todo \ {v} : Before(v, w)

AfterLast(rest) == IF rest = {} THEN "prune" ELSE "read"

Advance(v) ==
    /\ todo' = todo \ {v}
    /\ pc' = AfterLast(todo')
    /\ view' = NoView /\ pending' = Absent

\* os.WriteFile truncates before it writes.
Truncate(v, content) ==
    /\ pc' = "write"
    /\ out' = [out EXCEPT ![v] = Torn]
    /\ view' = v /\ pending' = content
    /\ UNCHANGED todo

\* What a view publishes to those that extend it, once it parsed.
Publish(v) ==
    inherited' = IF form[src[v]] # "unparsed" /\ v \in Declares
                 THEN [inherited EXCEPT ![v] = src[v]] ELSE inherited

DataType(v) ==
    IF v \in Declares THEN src[v]
    ELSE IF Extends[v] # NoView THEN inherited[Extends[v]] ELSE 0

\* Generate refuses a view that reads a field and has no type to read it from.
Generates(v) == form[src[v]] = "sound" /\ (v \in ReadsData => DataType(v) # 0)

\* An output that is already what it would be is not touched.
Accept(v) ==
    /\ pc = "read" /\ First(v) /\ src[v] # 0 /\ Generates(v)
    /\ Publish(v)
    /\ LET new == Compiled(src[v], DataType(v)) IN
       IF out[v] = new THEN Advance(v) /\ UNCHANGED out ELSE Truncate(v, new)
    /\ UNCHANGED <<tree, styled, problems, seen, result>>

\* Mutant: a refused view keeps what it last compiled to.
Invalidate_Nothing(v) == Advance(v) /\ UNCHANGED out

\* invalidateCompiled: the stand-in replaces an output, and only an output.
\* Before the package clause was parsed its name comes from the previous
\* output, and one that was cut short may not carry it.
Invalidate(v) ==
    \/ /\ \/ out[v].kind = "absent"
          \/ out[v].kind = "torn" /\ form[src[v]] = "unparsed"
       /\ Advance(v)
       /\ UNCHANGED out
    \/ out[v].kind # "absent" /\ Truncate(v, StandIn)

Refuse(v) ==
    /\ pc = "read" /\ First(v) /\ src[v] # 0 /\ ~Generates(v)
    /\ Publish(v)
    /\ problems' = problems \cup {v}
    /\ Invalidate(v)
    /\ UNCHANGED <<tree, styled, seen, result>>

Write ==
    /\ pc = "write"
    /\ out' = [out EXCEPT ![view] = pending]
    /\ Advance(view)
    /\ UNCHANGED <<tree, styled, inherited, problems, seen, result>>

\* Mutant: the problems are returned before the prune.
Orphan_UnlessRefused(v) == problems = {} /\ project /\ v \notin found /\ out[v].kind # "absent"

Orphan(v) == project /\ v \notin found /\ out[v].kind # "absent"

Prune(v) ==
    /\ pc = "prune" /\ Orphan(v)
    /\ out' = [out EXCEPT ![v] = Absent]
    /\ UNCHANGED <<tree, styled, pc, todo, inherited, problems, view, pending, seen, result>>

End(how) ==
    /\ pc' = "idle" /\ result' = how
    /\ todo' = {} /\ inherited' = Untyped /\ view' = NoView /\ pending' = Absent

Report ==
    /\ pc = "prune" /\ \A v \in Views : ~Orphan(v)
    /\ IF problems = {} THEN pc' = "style" /\ UNCHANGED <<todo, inherited, view, pending, result>>
       ELSE End("refused")
    /\ UNCHANGED <<tree, out, styled, problems, seen>>

(***************************************************************************)
(* buildViews: the scripts and the stylesheet come after the views.  Any   *)
(* call may fail, a source found may be gone when it is read, and the      *)
(* process may be killed: the tree is left as it is at that moment.        *)
(***************************************************************************)
Style ==
    /\ pc = "style"
    /\ styled' = TRUE
    /\ End("ok")
    /\ UNCHANGED <<tree, out, problems, seen>>

Fail ==
    /\ pc # "idle"
    /\ End("failed")
    /\ found' = {} /\ problems' = {} /\ begin' = Untyped
    /\ UNCHANGED <<tree, out, styled>>

(***************************************************************************)
(* The commands: view:build, and those that build what is absent and look  *)
(* at nothing else.                                                        *)
(***************************************************************************)
ViewBuild == Find

Complete == (\A v \in Sources : out[v].kind # "absent") /\ styled

EnsureBuilds == Sources # {} /\ ~Complete /\ Find

EnsureSkips ==
    /\ pc = "idle"
    /\ Sources = {} \/ Complete
    /\ found' = Sources /\ begin' = src /\ problems' = {}
    /\ result' = "complete"
    /\ UNCHANGED <<tree, out, styled, pc, todo, inherited, view, pending>>

Next ==
    \/ \E v \in Views : Save(v) \/ Delete(v) \/ Accept(v) \/ Refuse(v) \/ Prune(v)
    \/ Clone \/ ViewBuild \/ EnsureBuilds \/ EnsureSkips
    \/ Write \/ Report \/ Style \/ Fail

Spec == Init /\ [][Next]_vars

(***************************************************************************)
(* Properties                                                              *)
(***************************************************************************)
Reported == pc = "idle" /\ result \in {"ok", "refused"}

\* After a build that reported what it found, whatever happened before or
\* meanwhile: a source it accepted is compiled from a revision no older than
\* the tree the build started on, and a source it refused leaves no compiled
\* Go of an earlier revision behind for `go build` to go on with.
NothingOutOfDate ==
    Reported => \A v \in found :
        IF v \in problems THEN out[v].kind # "compiled"
        ELSE out[v].kind = "compiled" /\ out[v].rev >= begin[v]

\* A page with no type of its own draws the type its layout publishes in the
\* very revision of the layout that was compiled beside it: the type assertion
\* of the page and the layout's fail at run time when they differ.
Inherits ==
    Reported => \A v \in found \ (problems \cup Declares) :
        LET layout == Extends[v] IN
        layout \in (found \ problems) \cap Layouts \cap Declares /\ v \notin Layouts
            => out[v].type = out[layout].rev

\* The output of a deleted view registers itself at boot, so none outlives a
\* build of a project, refused views or not; a library compiles beside
\* hand-written Go and keeps what it finds.  With no source left at all the
\* build returns before it prunes, and the last view's output stays.
NoOrphans ==
    Reported /\ project /\ found # {} => \A v \in Views \ found : out[v].kind = "absent"

\* A command that was told to go on, because nothing was missing or because the
\* build it started succeeded, finds an output for every source and the
\* stylesheet the program embeds.
EnsureIsEnough ==
    /\ pc = "idle" /\ result \in {"ok", "complete"} /\ found # {}
    => styled /\ \A v \in found : out[v].kind # "absent"

=============================================================================
