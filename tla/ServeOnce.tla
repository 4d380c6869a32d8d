----------------------------- MODULE ServeOnce ------------------------------
(***************************************************************************)
(* `aru serve`: the views compiled from source, then the application run   *)
(* once (serve in dev.go).                                                 *)
(***************************************************************************)
EXTENDS Naturals

CONSTANTS
    ViewInputs,  \* the files the view build reads
    MaxVersion   \* bound: the latest version of a file

VARIABLES
    tree, gen, reading,   \* view sources, what their output was compiled from, what the build read
    invoked,              \* the sources when the command was typed
    pc,
    server, alive, exited, done, \* launch number, live groups, queued exits, server.done
    compiled, served,     \* has `go run` compiled, and from which views
    term, interrupted, armed

disk == <<tree, gen, reading, invoked>>
app == <<server, alive, exited, done, compiled, served, term>>
signals == <<interrupted, armed>>
vars == <<disk, pc, app, signals>>

Final == {"ended", "killed"}
Views == [ViewInputs -> 0..MaxVersion]

TypeOK ==
    /\ {tree, gen, reading, invoked, served} \subseteq Views
    /\ pc \in {"buildModels", "readViews", "writeViews", "start", "wait", "exiting",
               "exitReap"} \cup Final
    /\ server \in Nat
    /\ alive \subseteq {server} \ {0} /\ exited \subseteq {server} \ {0}
    /\ {done, compiled, term, interrupted, armed} \subseteq BOOLEAN

\* A project at rest: output from an earlier build, or none (0).
Init ==
    /\ tree \in [ViewInputs -> 1..MaxVersion]
    /\ gen \in {g \in Views : \A v \in ViewInputs : g[v] <= tree[v]}
    /\ reading = tree /\ invoked = tree
    /\ pc = "buildModels"
    /\ server = 0 /\ alive = {} /\ exited = {} /\ done = FALSE
    /\ compiled = FALSE /\ served = [v \in ViewInputs |-> 0] /\ term = FALSE
    /\ interrupted = FALSE /\ armed = FALSE

BuildModels ==
    /\ pc = "buildModels"
    /\ pc' \in {"readViews", "ended"}
    /\ UNCHANGED <<disk, app, signals>>

\* Mutant: as delegate does, views are built only when an output is missing.
ReadMissingViews ==
    /\ pc = "readViews"
    /\ IF \E v \in ViewInputs : gen[v] = 0
       THEN reading' = tree /\ pc' = "writeViews" /\ UNCHANGED armed
       ELSE pc' = "start" /\ armed' = TRUE /\ UNCHANGED reading
    /\ UNCHANGED <<tree, gen, invoked, app, interrupted>>

ReadViews ==
    /\ pc = "readViews"
    /\ reading' = tree
    /\ pc' = "writeViews"
    /\ UNCHANGED <<tree, gen, invoked, app, signals>>

\* A failed build ends the command; after a good one the signals are handled.
WriteViews ==
    /\ pc = "writeViews"
    /\ \/ gen' = reading /\ pc' = "start" /\ armed' = TRUE
       \/ \E W \in SUBSET ViewInputs :
             /\ gen' = [v \in ViewInputs |-> IF v \in W THEN reading[v] ELSE gen[v]]
             /\ pc' = "ended"
             /\ UNCHANGED armed
    /\ UNCHANGED <<tree, reading, invoked, app, interrupted>>

Start ==
    /\ pc = "start"
    /\ \/ server' = 1 /\ alive' = {1} /\ pc' = "wait"
       \/ pc' = "ended" /\ UNCHANGED <<server, alive>>
    /\ UNCHANGED <<disk, exited, done, compiled, served, term, signals>>

\* The exit is the end of the command, fatal or not.
ServerExited ==
    /\ pc = "wait"
    /\ server \in exited
    /\ exited' = exited \ {server}
    /\ done' = TRUE
    /\ pc' = "exiting"
    /\ UNCHANGED <<disk, server, alive, compiled, served, term, signals>>

Stop ==
    /\ pc = "wait"
    /\ interrupted
    /\ interrupted' = FALSE
    /\ armed' = FALSE
    /\ pc' = "exiting"
    /\ UNCHANGED <<disk, app>>

\* The deferred stopServer: signal the group unless its exit was taken.
DeferredStop ==
    /\ pc = "exiting"
    /\ IF done
       THEN pc' = "ended" /\ UNCHANGED term
       ELSE pc' = "exitReap" /\ term' = TRUE
    /\ UNCHANGED <<disk, server, alive, exited, done, compiled, served, signals>>

DeferredReap ==
    /\ pc = "exitReap"
    /\ server \in exited
    /\ exited' = exited \ {server}
    /\ done' = TRUE
    /\ pc' = "ended"
    /\ UNCHANGED <<disk, server, alive, compiled, served, term, signals>>

AppCompiles ==
    /\ alive # {} /\ ~compiled
    /\ compiled' = TRUE
    /\ served' = gen
    /\ UNCHANGED <<disk, pc, server, alive, exited, done, term, signals>>

AppExits ==
    /\ \E p \in alive : alive' = alive \ {p} /\ exited' = exited \cup {p}
    /\ UNCHANGED <<disk, pc, server, done, compiled, served, term, signals>>

Interrupt ==
    /\ armed /\ pc \notin Final
    /\ ~interrupted
    /\ interrupted' = TRUE
    /\ UNCHANGED <<disk, pc, app, armed>>

DefaultSignal ==
    /\ ~armed /\ pc \notin Final
    /\ pc' = "killed"
    /\ UNCHANGED <<disk, app, signals>>

Save(v) ==
    /\ tree[v] < MaxVersion
    /\ tree' = [tree EXCEPT ![v] = @ + 1]
    /\ UNCHANGED <<gen, reading, invoked, pc, app, signals>>

Command == BuildModels \/ ReadViews \/ WriteViews \/ Start \/ ServerExited \/ Stop
           \/ DeferredStop \/ DeferredReap

Next == Command \/ AppCompiles \/ AppExits \/ Interrupt \/ DefaultSignal
        \/ \E v \in ViewInputs : Save(v)

Spec == Init /\ [][Next]_vars

\* As for DevLoop: the command is scheduled and a signalled group goes away.
FairSpec == Spec /\ WF_vars(Command) /\ WF_vars(term /\ AppExits)

-----------------------------------------------------------------------------
\* What `aru serve` serves is never older than what was on disk when it was
\* typed, whatever output an earlier build left there.
ServesTheSave == compiled => \A v \in ViewInputs : served[v] >= invoked[v]

session ==
    CASE pc = "killed" /\ server = 0 -> "closed"
      [] pc = "killed" /\ server # 0 -> "abandoned"
      [] pc = "ended" -> "closed"
      [] pc \in {"exiting", "exitReap"} /\ ~armed -> "stopping"
      [] OTHER -> "open"

Abstract == INSTANCE Supervisor WITH up <- alive, session <- session

\* Ending the command ends the application it started.
Supervises == Abstract!Spec

\* A handled signal, or the application's own exit, ends the command.
Ends == (interrupted \/ exited # {}) ~> pc \in Final
=============================================================================
