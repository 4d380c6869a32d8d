----------------------------- MODULE ModelBuild -----------------------------
(***************************************************************************)
(* model:build (internal/modelbuild): the query file beside every struct   *)
(* that embeds model.Model, and the factories it rendered before.  Plan    *)
(* reads the module file by file and writes nothing; Apply writes and      *)
(* removes what Plan answered.  Several builds may run at once (aru dev    *)
(* beside a command), the developer edits meanwhile, and a write may fail. *)
(***************************************************************************)
EXTENDS Naturals, FiniteSets

CONSTANTS
    Entities,     \* the structs
    Runners,      \* the builds
    MaxEdits      \* bound: edits of the developer

VARIABLES
    source,       \* the declaration of each entity, and its version
    query,        \* what is where its query goes
    factory,      \* what is where its factory goes
    edits,
    mPc,
    checks,       \* the builds that were told --check
    unparsed, found,   \* the files a build has still to read, and what it read
    changes,      \* what Plan answered
    unplanned,
    since,        \* observation: what changed after a build had looked at it
    mAnswer

models == <<source, query, factory, edits, mPc, checks, unparsed, found, changes, unplanned, since, mAnswer>>

\* Who wrote a generated file: nobody (there is none), the developer, this
\* command from a version of the entity, or a write that did not end.
NoFile      == [by |-> "nobody", of |-> 0]
HandWritten == [by |-> "hand", of |-> 0]
Torn        == [by |-> "torn", of |-> 0]
Rendered(v) == [by |-> "build", of |-> v]
isGeneratedQuery(file) == file.by = "build"

Nothing == [is |-> "gone", version |-> 0, generated |-> FALSE]
States == {"gone", "declared", "untabled", "unreadable"}

Init ==
    /\ source \in [Entities -> [is : {"gone", "declared"}, version : {1}]]
    /\ query \in [Entities -> {NoFile, HandWritten, Rendered(0), Rendered(1)}]
    /\ factory \in [Entities -> {NoFile, Rendered(0)}]
    /\ edits = 0
    /\ mPc = [b \in Runners |-> "called"]
    /\ checks \in SUBSET Runners
    /\ unparsed = [b \in Runners |-> {}] /\ unplanned = [b \in Runners |-> {}]
    /\ found = [b \in Runners |-> [e \in Entities |-> Nothing]]
    /\ changes = [b \in Runners |-> {}]
    /\ since = [b \in Runners |-> {}]
    /\ mAnswer = [b \in Runners |-> "none"]

Goto(b, from, to) == mPc[b] = from /\ mPc' = [mPc EXCEPT ![b] = to]
Answers(b, a) == mAnswer' = [mAnswer EXCEPT ![b] = a]
Fails(b, from) == Goto(b, from, "returned") /\ Answers(b, "error")
disk == <<source, query, factory, edits>>

-----------------------------------------------------------------------------
(* parseModule and entities.                                               *)

Begin(b) ==
    /\ Goto(b, "called", "parse") /\ unparsed' = [unparsed EXCEPT ![b] = Entities]
    /\ UNCHANGED <<disk, checks, found, changes, unplanned, since, mAnswer>>

Unreadable(e) == source[e].is = "unreadable" \/ query[e].by = "torn"

\* The declaration of an entity and the header of its query, in one walk.
Parse(b, e) ==
    /\ mPc[b] = "parse" /\ e \in unparsed[b] /\ ~Unreadable(e)
    /\ unparsed' = [unparsed EXCEPT ![b] = @ \ {e}]
    /\ found' = [found EXCEPT ![b][e] = [is |-> source[e].is, version |-> source[e].version,
                                            generated |-> isGeneratedQuery(query[e])]]
    /\ since' = [since EXCEPT ![b] = @ \ {e}]
    /\ UNCHANGED <<disk, mPc, checks, changes, unplanned, mAnswer>>

\* "it could declare an entity, and a plan that skipped it would remove that entity's query"
ParseFails(b) ==
    /\ \E e \in unparsed[b] : Unreadable(e)
    /\ Fails(b, "parse")
    /\ UNCHANGED <<disk, checks, unparsed, found, changes, unplanned, since>>

Refused(b) == \E e \in Entities : found[b][e].is = "untabled"

Entitled(b) ==
    /\ unparsed[b] = {} /\ ~Refused(b) /\ Goto(b, "parse", "plan")
    /\ unplanned' = [unplanned EXCEPT ![b] = Entities]
    /\ UNCHANGED <<disk, checks, unparsed, found, changes, since, mAnswer>>

Untabled(b) ==
    /\ unparsed[b] = {} /\ Refused(b) /\ Fails(b, "parse")
    /\ UNCHANGED <<disk, checks, unparsed, found, changes, unplanned, since>>

-----------------------------------------------------------------------------
(* Plan.                                                                   *)

Change(e, what, to) == [entity |-> e, what |-> what, to |-> to]

\* Mutant: only the entities there are.
QueryChangeOfEntities(b, e) ==
    IF found[b][e].is = "declared" /\ query[e] # Rendered(found[b][e].version)
    THEN {Change(e, "query", Rendered(found[b][e].version))}
    ELSE {}

\* The file is read again where the query of a declared entity goes; the one
\* of an entity that is gone was read with the module.
QueryChange(b, e) ==
    IF found[b][e].is = "declared" /\ query[e] # Rendered(found[b][e].version)
    THEN {Change(e, "query", Rendered(found[b][e].version))}
    ELSE IF found[b][e].is = "gone" /\ found[b][e].generated THEN {Change(e, "query", NoFile)} ELSE {}

\* planFactories: one that was rendered before, from the fields the source has now.
FactoryChange(b, e) ==
    IF found[b][e].is = "declared" /\ factory[e].by = "build" /\ factory[e] # Rendered(source[e].version)
    THEN {Change(e, "factory", Rendered(source[e].version))} ELSE {}
FieldsFail(b, e) == found[b][e].is = "declared" /\ factory[e].by = "build" /\ source[e].is \in {"gone", "unreadable"}

\* Mutant: whatever is where the query goes is replaced.
NothingInTheWay(b, e) == FALSE

\* A query file somebody wrote by hand is not replaced.
InTheWay(b, e) == found[b][e].is = "declared" /\ query[e].by \in {"hand", "torn"}

Plan(b, e) ==
    /\ mPc[b] = "plan" /\ e \in unplanned[b] /\ ~InTheWay(b, e) /\ ~FieldsFail(b, e)
    /\ unplanned' = [unplanned EXCEPT ![b] = @ \ {e}]
    /\ changes' = [changes EXCEPT ![b] = @ \cup QueryChange(b, e) \cup FactoryChange(b, e)]
    /\ UNCHANGED <<disk, mPc, checks, unparsed, found, since, mAnswer>>

PlanFails(b) ==
    /\ \E e \in unplanned[b] : InTheWay(b, e) \/ FieldsFail(b, e)
    /\ Fails(b, "plan")
    /\ UNCHANGED <<disk, checks, unparsed, found, changes, unplanned, since>>

\* --check answers; a build with changes needs a framework that lists queries.
Planned(b) ==
    /\ unplanned[b] = {}
    /\ IF b \in checks
       THEN Goto(b, "plan", "returned") /\ Answers(b, IF changes[b] = {} THEN "nil" ELSE "error")
       ELSE Goto(b, "plan", "apply") /\ UNCHANGED mAnswer
    /\ UNCHANGED <<disk, checks, unparsed, found, changes, unplanned, since>>

QueryListingMissing(b) ==
    /\ unplanned[b] = {} /\ changes[b] # {} /\ b \notin checks /\ Fails(b, "plan")
    /\ UNCHANGED <<disk, checks, unparsed, found, changes, unplanned, since>>

-----------------------------------------------------------------------------
(* Apply.                                                                  *)

Puts(c, file) ==
    IF c.what = "query" THEN query' = [query EXCEPT ![c.entity] = file] /\ UNCHANGED factory
    ELSE factory' = [factory EXCEPT ![c.entity] = file] /\ UNCHANGED query
Touched(b, e) == since' = [o \in Runners |-> IF o = b THEN since[o] ELSE since[o] \cup {e}]

Apply(b) ==
    /\ mPc[b] = "apply"
    /\ \E c \in changes[b] :
          /\ Puts(c, c.to) /\ Touched(b, c.entity)
          /\ changes' = [changes EXCEPT ![b] = @ \ {c}]
    /\ UNCHANGED <<source, edits, mPc, checks, unparsed, found, unplanned, mAnswer>>

\* os.WriteFile truncates first.
ApplyFails(b) ==
    /\ Fails(b, "apply")
    /\ \E c \in changes[b] :
          /\ Puts(c, IF c.to = NoFile THEN query[c.entity] ELSE Torn) /\ Touched(b, c.entity)
          /\ changes' = [changes EXCEPT ![b] = @ \ {c}]
    /\ UNCHANGED <<source, edits, checks, unparsed, found, unplanned>>

Applied(b) ==
    /\ changes[b] = {} /\ Goto(b, "apply", "returned") /\ Answers(b, "nil")
    /\ UNCHANGED <<disk, checks, unparsed, found, changes, unplanned, since>>

-----------------------------------------------------------------------------
(* The developer.                                                          *)

Edit(e) ==
    /\ edits < MaxEdits /\ edits' = edits + 1
    /\ \/ \E is \in States :
             source' = [source EXCEPT ![e] = [is |-> is, version |-> IF is = "declared" THEN @.version + 1 ELSE @.version]]
          /\ UNCHANGED query
       \/ query' = [query EXCEPT ![e] = HandWritten] /\ UNCHANGED source
    /\ since' = [b \in Runners |-> since[b] \cup {e}]
    /\ UNCHANGED <<factory, mPc, checks, unparsed, found, changes, unplanned, mAnswer>>

Next ==
    \/ \E b \in Runners :
          \/ Begin(b) \/ (\E e \in Entities : Parse(b, e) \/ Plan(b, e)) \/ ParseFails(b)
          \/ Entitled(b) \/ Untabled(b) \/ PlanFails(b) \/ Planned(b) \/ QueryListingMissing(b)
          \/ Apply(b) \/ ApplyFails(b) \/ Applied(b)
    \/ \E e \in Entities : Edit(e)
Spec == Init /\ [][Next]_models

-----------------------------------------------------------------------------
(* Properties.                                                             *)

\* A build touches no file somebody wrote, and removes the query of no entity
\* the module still declares, unless it changed after the build looked at it
\* (Plan, parseModule).
OnlyItsOwn(b, e) ==
    query'[e] # query[e] /\ mPc[b] = "apply" /\ changes'[b] # changes[b] /\ e \notin since[b] =>
        query[e].by \in {"nobody", "build"} /\ (query'[e] = NoFile => source[e].is # "declared")
TouchesItsOwn == \A b \in Runners, e \in Entities : OnlyItsOwn(b, e)
ReplacesOnlyItsOwn == [][TouchesItsOwn]_models

\* A build that answers nil, or a --check that does, leaves every query as
\* its entity has it now and none of an entity that is gone, but for what
\* changed after it looked (Plan, Apply).
CurrentWhenDone ==
    \A b \in Runners : mAnswer[b] = "nil" =>
        \A e \in Entities \ since[b] :
            CASE source[e].is = "declared" -> query[e] = Rendered(source[e].version)
              [] source[e].is = "gone"     -> ~isGeneratedQuery(query[e])
              [] OTHER -> FALSE
=============================================================================
