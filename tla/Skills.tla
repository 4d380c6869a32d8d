------------------------------- MODULE Skills -------------------------------
(***************************************************************************)
(* skills:sync (skills.go, internal/skills): the skills a project receives *)
(* from the skeleton and from the modules it requires.  A file that was    *)
(* received says from where, and keeps a digest of what was written; what  *)
(* is between its custom markers is the project's.  A plan reads file by   *)
(* file, Apply writes, and the developer edits meanwhile.                  *)
(***************************************************************************)
EXTENDS Naturals, Sequences, SequencesExt

CONSTANTS
    Origins,      \* in the order they are read, the skeleton first
    Distributes,  \* the names each hands to an application, in order, by version
    Unstampable,  \* those of them with no frontmatter to record a source in
    MaxTouches    \* bound: what the developer does

VARIABLES
    version,      \* the version go.mod requires of each origin
    file,         \* the skills of the project
    touches,
    sPc,
    forced,
    received,     \* the skills still to be planned, in order, with their version
    planned,      \* Plan's changes, in order
    taken,        \* the names that were distributed before
    looked,       \* observation: changed after the plan looked at it
    sAnswer

skills == <<version, file, touches, sPc, forced, received, planned, taken, looked, sAnswer>>

Names == UNION {UNION {ToSet(given) : given \in ToSet(Distributes[o])} : o \in ToSet(Origins)}
\* What the version that is required hands over.
Given(o) == Distributes[o][version[o]]
Nowhere == "nowhere"                    \* the source of a file with none in its header
NoSkill == [there |-> FALSE, source |-> Nowhere, body |-> <<>>, digest |-> <<>>, custom |-> 0, lines |-> "lf"]
\* What an origin's version says, and what somebody changed it to.
Says(o, v) == <<o, v>>
Changed == <<"changed">>

Init ==
    /\ version = [o \in ToSet(Origins) |-> 1]
    /\ file = [n \in Names |-> NoSkill]
    /\ touches = 0 /\ sPc = "called" /\ forced = FALSE
    /\ received = <<>> /\ planned = <<>> /\ taken = {} /\ looked = {} /\ sAnswer = "none"

SkillsGoto(from, to) == sPc = from /\ sPc' = to

-----------------------------------------------------------------------------
(* Origins, Read, Plan.                                                    *)

HandsOver(o) ==
    [i \in DOMAIN Given(o) |-> [origin |-> o, name |-> Given(o)[i], version |-> version[o]]]

\* go.mod and the sources are read; a source may have to be downloaded, and may not be there.
Call(force) ==
    /\ sPc \in {"called", "returned"} /\ sPc' = "plan"
    /\ forced' = force
    /\ received' = FlattenSeq([i \in DOMAIN Origins |-> HandsOver(Origins[i])])
    /\ planned' = <<>> /\ taken' = {} /\ looked' = {} /\ sAnswer' = "none"
    /\ UNCHANGED <<version, file, touches>>

NoSource ==
    /\ sPc \in {"called", "returned"} /\ sPc' = "returned" /\ sAnswer' = "error"
    /\ UNCHANGED <<version, file, touches, forced, received, planned, taken, looked>>

Edited(f) == f.digest # <<>> /\ f.digest # f.body

\* Merge: the custom blocks of the file on disk, in the one about to replace
\* it.  The markers are looked for at the end of a line that a line feed ends.
Stamp(s, f) ==
    [there |-> TRUE, source |-> s.origin, body |-> Says(s.origin, s.version),
     digest |-> Says(s.origin, s.version), custom |-> IF f.lines = "lf" THEN f.custom ELSE 0, lines |-> "lf"]

\* Mutant: an edit is looked for only where the origin has nothing new.
PlanOneByContent(s, f, force) ==
    IF s.name \in Unstampable THEN "kept"
    ELSE IF ~f.there THEN "create"
    ELSE IF f.source # s.origin THEN "kept"
    ELSE IF Stamp(s, f) = f THEN "unchanged"
    ELSE IF Edited(f) /\ f.digest = Says(s.origin, s.version) /\ ~force THEN "conflict"
    ELSE "update"

\* Mutant: the source has to be the origin at this version.
PlanOneAtThisVersion(s, f, force) ==
    IF s.name \in Unstampable THEN "kept"
    ELSE IF ~f.there THEN "create"
    ELSE IF f.source # s.origin \/ f.digest # Says(s.origin, s.version) THEN "kept"
    ELSE IF Stamp(s, f) = f THEN "unchanged"
    ELSE IF Edited(f) /\ ~force THEN "conflict"
    ELSE "update"

PlanOne(s, f, force) ==
    IF s.name \in Unstampable THEN "kept"
    ELSE IF ~f.there THEN "create"
    ELSE IF f.source # s.origin THEN "kept"
    ELSE IF Stamp(s, f) = f THEN "unchanged"
    ELSE IF Edited(f) /\ ~force THEN "conflict"
    ELSE "update"

\* The first origin of a name is the one that counts.
Plan ==
    /\ sPc = "plan" /\ received # <<>>
    /\ LET s == received[1]
           f == file[s.name]
           again == s.name \in taken
       IN /\ planned' = Append(planned,
                [name |-> s.name, existing |-> f, content |-> Stamp(s, f),
                 action |-> IF again THEN "kept" ELSE PlanOne(s, f, forced)])
          /\ taken' = taken \cup {s.name}
          /\ looked' = IF again THEN looked ELSE looked \ {s.name}
    /\ received' = Tail(received)
    /\ UNCHANGED <<version, file, touches, sPc, forced, sAnswer>>

\* Without --apply what was planned is printed.
Preview ==
    /\ received = <<>> /\ SkillsGoto("plan", "returned") /\ sAnswer' = "nil" /\ planned' = <<>>
    /\ UNCHANGED <<version, file, touches, forced, received, taken, looked>>

Confirm ==
    /\ received = <<>> /\ SkillsGoto("plan", "apply")
    /\ UNCHANGED <<version, file, touches, forced, received, planned, taken, looked, sAnswer>>

-----------------------------------------------------------------------------
(* Apply.                                                                  *)

Pending == {i \in DOMAIN planned : planned[i].action \in {"create", "update"}}
Written(i) == planned' = [planned EXCEPT ![i].action = "written"]

\* By path, an order the names here do not have.
Apply(i) ==
    /\ sPc = "apply"
    /\ file' = [file EXCEPT ![planned[i].name] = planned[i].content] /\ Written(i)
    /\ UNCHANGED <<version, touches, sPc, forced, received, taken, looked, sAnswer>>

\* What a write that failed leaves has no header to read.
ApplyFails(i) ==
    /\ SkillsGoto("apply", "returned") /\ sAnswer' = "error"
    /\ file' = [file EXCEPT ![planned[i].name] = [NoSkill EXCEPT !.there = TRUE, !.body = Changed]]
    /\ Written(i)
    /\ UNCHANGED <<version, touches, forced, received, taken, looked>>

\* A conflict that was left is an error.
Done ==
    /\ Pending = {} /\ SkillsGoto("apply", "returned")
    /\ sAnswer' = IF \E i \in DOMAIN planned : planned[i].action = "conflict" THEN "error" ELSE "applied"
    /\ UNCHANGED <<version, file, touches, forced, received, planned, taken, looked>>

-----------------------------------------------------------------------------
(* The developer.                                                          *)

\* Edits the procedure or the custom block, checks the file out with the line
\* endings of Windows, removes it, writes one of the project's own, or moves
\* to the next version of an origin.
Touch(n) ==
    /\ touches < MaxTouches /\ touches' = touches + 1
    /\ \/ file[n].there /\ file' = [file EXCEPT ![n].body = Changed]
       \/ file[n].there /\ file' = [file EXCEPT ![n].custom = @ + 1]
       \/ file[n].there /\ file' = [file EXCEPT ![n].lines = "crlf"]
       \/ file[n].there /\ file' = [file EXCEPT ![n] = NoSkill]
       \/ ~file[n].there /\ file' = [file EXCEPT ![n] = [NoSkill EXCEPT !.there = TRUE, !.body = Changed]]
    /\ looked' = looked \cup {n}
    /\ UNCHANGED <<version, sPc, forced, received, planned, taken, sAnswer>>

Upgrade(o) ==      \* a sync that runs has read go.mod: the next one sees it
    /\ sPc \in {"called", "returned"}
    /\ version[o] < Len(Distributes[o]) /\ version' = [version EXCEPT ![o] = @ + 1]
    /\ looked' = looked \cup ToSet(Given(o)) \cup ToSet(Given(o)')
    /\ UNCHANGED <<file, touches, sPc, forced, received, planned, taken, sAnswer>>

Next ==
    \/ Call(TRUE) \/ Call(FALSE) \/ NoSource \/ Plan \/ Preview \/ Confirm \/ Done
    \/ (\E i \in Pending : Apply(i) \/ ApplyFails(i))
    \/ (\E n \in Names : Touch(n)) \/ \E o \in ToSet(Origins) : Upgrade(o)
Spec == Init /\ [][Next]_skills

-----------------------------------------------------------------------------
(* Properties.                                                             *)

\* What a plan may replace: a skill that is not the project's own and not of
\* another origin, edited only if it is forced; the custom block goes into what
\* is written, from a file whose lines end in a line feed (plan, Merge).
Allowed(change) ==
    change.existing.there =>
        /\ change.content.source = change.existing.source
        /\ Edited(change.existing) => forced
        /\ change.existing.lines = "lf" => change.content.custom = change.existing.custom

\* Over any number of syncs and releases, a sync changes no file but those it
\* planned to write, each to what was planned unless the write fails, and of the
\* work of the project it replaces none that the plan read.  That is the file on
\* disk as long as nobody changed it since.  Apply does not look again: what was
\* written after the plan had read the file is gone with its custom block, and so
\* is the block of a file whose write fails, which skills.go:22-24 does not say.
ReplacesNoWork ==
    UNCHANGED touches =>
        \A n \in Names : file'[n] # file[n] =>
            \E i \in Pending :
                /\ planned[i].name = n /\ Allowed(planned[i]) /\ Written(i)
                /\ n \notin looked => file[n] = planned[i].existing
                /\ file'[n] = planned[i].content \/ sAnswer' = "error"
WorkIsKept == [][ReplacesNoWork]_skills

\* skills.go:22-24: of a skill that is synced, edited or not, "what sits between
\* its custom markers is carried forward either way", whatever ends the lines.
Replaced(n) == sPc = "apply" /\ file[n].there /\ file'[n] # file[n] /\ file'[n].source # Nowhere /\ n \notin looked
CustomIsCarried == [][UNCHANGED touches => \A n \in Names : Replaced(n) => file'[n].custom = file[n].custom]_skills

\* A sync that was applied without a conflict has nothing left to do: every
\* skill is what the first origin to distribute it says, or is nobody's but
\* the project's, or came from another origin (Plan, Apply).
FirstOf(n) ==
    LET gives == {i \in DOMAIN Origins : n \in ToSet(Given(Origins[i]))}
    IN IF gives = {} THEN {} ELSE {Origins[CHOOSE i \in gives : \A j \in gives : i <= j]}
SyncSettles ==
    sAnswer = "applied" =>
        \A n \in Names \ (looked \cup Unstampable) : \A o \in FirstOf(n) :
            file[n].there /\ (file[n].source = o => file[n].body = Says(o, version[o]) /\ ~Edited(file[n]))
=============================================================================
