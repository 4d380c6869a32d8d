---------------------------- MODULE PackageBuild ----------------------------
(***************************************************************************)
(* pack.Build (internal/pack/pack.go) in one process, and `native:build`   *)
(* around it.  The settings of a build are variables of the package, so a  *)
(* lock keeps two builds apart; inside one, the compiles run beside each   *)
(* other and are waited for.  Any call may fail.                           *)
(***************************************************************************)
EXTENDS PackageTargets

CONSTANTS
    Callers,      \* the goroutines that call Build
    Requests      \* what they may ask for

VARIABLES
    request,      \* what each asked for
    pc,           \* where each is
    building,     \* who holds the lock, as a set
    settings,     \* whose options the package's variables hold
    previous,     \* what each found in them
    work,         \* the builds whose work directory is there
    todo,         \* the steps each has left
    started,      \* compiles handed to a goroutine that has not begun
    running,      \* compiles that run
    failed,       \* the builds one of whose compiles failed
    settled,      \* the facts each build's steps settled
    dest,         \* what the name of each artifact leads to
    answer,       \* what each call answered
    lost,         \* observation: an error was answered with nil
    strayed       \* observation: one of whose compiles read the settings of others

locked == <<building, settings, previous, work>>
compiles == <<started, running, failed, strayed>>
vars == <<request, pc, locked, todo, compiles, settled, dest, answer, lost>>

Nobody == {}            \* the values the process began with

TypeOK ==
    /\ request \in [Callers -> Requests]
    /\ pc \in [Callers -> {"called", "waiting", "apply", "info", "temp", "steps",
                           "remove", "restore", "unlock", "returned"}]
    /\ building \subseteq Callers /\ work \subseteq Callers /\ failed \subseteq Callers
    /\ settings \subseteq Callers
    /\ previous \in [Callers -> SUBSET Callers]
    /\ answer \in [Callers -> {"none", "nil", "error"}]
    /\ lost \subseteq Callers /\ strayed \subseteq Callers
    /\ \A c \in Callers : \A a \in DOMAIN dest[c] : dest[c][a] \in {"previous", "partial", "unsigned", "whole"}

Init ==
    /\ request \in [Callers -> Requests]
    /\ pc = [c \in Callers |-> "called"]
    /\ building = {} /\ settings = Nobody /\ previous = [c \in Callers |-> Nobody] /\ work = {}
    /\ todo = [c \in Callers |-> <<>>]
    /\ started = {} /\ running = {} /\ failed = {} /\ strayed = {}
    /\ settled = [c \in Callers |-> {}]
    /\ dest = [c \in Callers |-> [a \in Artifacts(request[c]) |-> "previous"]]
    /\ answer = [c \in Callers |-> "none"] /\ lost = {}

Goto(c, from, to) == pc[c] = from /\ pc' = [pc EXCEPT ![c] = to]
Answers(c, a) == answer' = [answer EXCEPT ![c] = a]
Compiling(c) == {p \in started \cup running : p.of = c}

-----------------------------------------------------------------------------
(* Build: one at a time.                                                   *)

Refused(c) ==
    /\ Goto(c, "called", "returned") /\ ~validate(request[c]) /\ Answers(c, "error")
    /\ UNCHANGED <<request, locked, todo, compiles, settled, dest, lost>>

Called(c) ==
    /\ Goto(c, "called", "waiting") /\ validate(request[c])
    /\ UNCHANGED <<request, locked, todo, compiles, settled, dest, answer, lost>>

Lock(c) ==
    /\ Goto(c, "waiting", "apply") /\ building = {}
    /\ building' = {c}
    /\ UNCHANGED <<request, settings, previous, work, todo, compiles, settled, dest, answer, lost>>

apply(c) ==
    /\ Goto(c, "apply", "info")
    /\ previous' = [previous EXCEPT ![c] = settings] /\ settings' = {c}
    /\ UNCHANGED <<request, building, work, todo, compiles, settled, dest, answer, lost>>

Info(c) ==
    /\ Goto(c, "info", "temp") /\ newBuildInfo(request[c])
    /\ UNCHANGED <<request, locked, todo, compiles, settled, dest, answer, lost>>

\* newBuildInfo or MkdirTemp failed: there is no work directory to remove.
NoInfo(c) ==
    /\ pc[c] \in {"info", "temp"} /\ Goto(c, pc[c], "restore") /\ Answers(c, "error")
    /\ UNCHANGED <<request, locked, todo, compiles, settled, dest, lost>>

MkdirTemp(c) ==
    /\ Goto(c, "temp", "steps")
    /\ work' = work \cup {c} /\ todo' = [todo EXCEPT ![c] = Build(request[c])]
    /\ UNCHANGED <<request, building, settings, previous, compiles, settled, dest, answer, lost>>

-----------------------------------------------------------------------------
(* The steps of the platform.                                              *)

Next1(c) == todo[c][1]
At(c, ops) == pc[c] = "steps" /\ todo[c] # <<>> /\ Next1(c).op \in ops
Leads(c, to) ==
    dest' = IF to = Keep THEN dest
            ELSE [dest EXCEPT ![c] = [a \in DOMAIN dest[c] |-> IF a \in Next1(c).on THEN to ELSE dest[c][a]]]
Rest(c) == todo' = [todo EXCEPT ![c] = Tail(todo[c])] /\ UNCHANGED pc
Leave(c) == todo' = [todo EXCEPT ![c] = <<>>] /\ Goto(c, "steps", "remove")

Done(c) ==
    /\ At(c, {"do", "merge"}) /\ Rest(c) /\ Leads(c, Next1(c).done)
    /\ settled' = [settled EXCEPT ![c] = @ \cup Next1(c).makes]
    /\ UNCHANGED <<request, locked, compiles, answer, lost>>

Fails(c) ==
    /\ At(c, {"do"}) /\ Leave(c) /\ Leads(c, Next1(c).failed) /\ Answers(c, "error")
    /\ UNCHANGED <<request, locked, compiles, settled, lost>>

\* The deferred close replaces the error it finds by its own.
MergeFails(c) ==
    /\ At(c, {"merge"}) /\ Leave(c) /\ Leads(c, Next1(c).failed) /\ Answers(c, "nil")
    /\ lost' = lost \cup {c}
    /\ UNCHANGED <<request, locked, compiles, settled>>

Refuses(c) ==
    /\ At(c, {"refuse"}) /\ Leave(c) /\ Answers(c, "error")
    /\ UNCHANGED <<request, locked, compiles, settled, dest, lost>>

StartCompile(c) ==
    /\ At(c, {"start"}) /\ Rest(c)
    /\ started' = started \cup {[of |-> c, what |-> Next1(c).what]}
    /\ settled' = [settled EXCEPT ![c] = @ \cup Next1(c).makes]
    /\ UNCHANGED <<request, locked, running, failed, strayed, dest, answer, lost>>

\* Mutant: the first error is returned while the other compiles run.
WaitForOne(c) ==
    /\ At(c, {"await"}) /\ Cardinality(Compiling(c)) <= 1
    /\ IF c \in failed THEN Leave(c) /\ Answers(c, "error") ELSE Rest(c) /\ UNCHANGED answer
    /\ UNCHANGED <<request, locked, compiles, settled, dest, lost>>

Wait(c) ==
    /\ At(c, {"await"}) /\ Compiling(c) = {}
    /\ IF c \in failed THEN Leave(c) /\ Answers(c, "error") ELSE Rest(c) /\ UNCHANGED answer
    /\ UNCHANGED <<request, locked, compiles, settled, dest, lost>>

Finished(c) ==
    /\ pc[c] = "steps" /\ todo[c] = <<>>
    /\ Goto(c, "steps", "remove") /\ Answers(c, "nil")
    /\ UNCHANGED <<request, locked, todo, compiles, settled, dest, lost>>

-----------------------------------------------------------------------------
(* What Build deferred, last first.                                        *)

RemoveAll(c) ==
    /\ Goto(c, "remove", "restore") /\ work' = work \ {c}
    /\ UNCHANGED <<request, building, settings, previous, todo, compiles, settled, dest, answer, lost>>

\* Mutant: the lock is released before the settings are put back.
UnlockFirst(c) ==
    /\ IF c \in building THEN building' = {} /\ pc[c] = "restore" /\ UNCHANGED <<pc, settings>>
       ELSE Goto(c, "restore", "unlock") /\ settings' = previous[c] /\ UNCHANGED building
    /\ UNCHANGED <<request, previous, work, todo, compiles, settled, dest, answer, lost>>

restore(c) ==
    /\ Goto(c, "restore", "unlock") /\ settings' = previous[c]
    /\ UNCHANGED <<request, building, previous, work, todo, compiles, settled, dest, answer, lost>>

Unlock(c) ==
    /\ Goto(c, "unlock", "returned") /\ building' = building \ {c}
    /\ UNCHANGED <<request, settings, previous, work, todo, compiles, settled, dest, answer, lost>>

-----------------------------------------------------------------------------
(* The goroutines of the group.  runCmd looks at the settings as it begins, *)
(* and nobody waits for one whose build failed before its Wait.             *)

Begin(p) ==
    /\ p \in started
    /\ started' = started \ {p} /\ running' = running \cup {p}
    /\ strayed' = IF settings = {p.of} THEN strayed ELSE strayed \cup {p.of}
    /\ UNCHANGED <<request, pc, locked, todo, failed, settled, dest, answer, lost>>

\* A compile whose output directory is gone cannot but fail.
CompileEnds(p) ==
    /\ p \in running
    /\ running' = running \ {p}
    /\ \/ p.of \in work /\ UNCHANGED failed
       \/ failed' = failed \cup {p.of}
    /\ UNCHANGED <<request, pc, locked, todo, started, strayed, settled, dest, answer, lost>>

Call(c) ==
    \/ Refused(c) \/ Called(c) \/ Lock(c) \/ apply(c) \/ Info(c) \/ NoInfo(c) \/ MkdirTemp(c)
    \/ Done(c) \/ Fails(c) \/ MergeFails(c) \/ Refuses(c) \/ StartCompile(c) \/ Wait(c) \/ Finished(c)
    \/ RemoveAll(c) \/ restore(c) \/ Unlock(c)
Goroutines == \E p \in started \cup running : Begin(p) \/ CompileEnds(p)
Next == (\E c \in Callers : Call(c)) \/ Goroutines
Spec == Init /\ [][Next]_vars

-----------------------------------------------------------------------------
(* Properties.                                                             *)

InBuild(c) == pc[c] \in {"info", "temp", "steps", "remove", "restore"}
Facts(c, of) == {f \in settled[c] : f.of = of}

\* What an artifact says of itself holds of the programs in it.
Described(c) ==
    /\ \A plist \in Facts(c, "plist"), program \in Facts(c, "program") :
          plist.platform = program.platform /\ plist.min = program.min
    /\ \A manifest \in Facts(c, "manifest") :
          manifest.min <= manifest.target /\ \A min \in ToSet(request[c].libraries) : min <= manifest.min

\* Build answers nil for a whole artifact, signed where the platform asks for
\* it, whose programs are all compiled and which describes them.
ReportedIsDelivered ==
    \A c \in Callers :
        pc[c] = "returned" /\ answer[c] = "nil" /\ c \notin lost =>
            /\ \A a \in DOMAIN dest[c] : dest[c][a] = "whole"
            /\ Compiling(c) = {} /\ c \notin failed /\ Described(c)

\* The call that builds reads its own options from the package's variables and
\* nobody else's, and when none runs they are what they were.  Its compiles read
\* them as well, and one reads those of another, or none, only for a call that
\* failed: buildAndroid and buildIOS return past their Wait, and the lock does
\* not make the next build wait for what they left compiling.
SettingsAreItsOwn ==
    /\ \A c \in Callers : InBuild(c) => settings = {c}
    /\ \A c \in strayed : ~InBuild(c) /\ (answer[c] = "error" \/ c \in lost)
    /\ (\A c \in Callers : pc[c] \in {"called", "waiting", "returned"}) => settings = Nobody /\ work = {}
=============================================================================
