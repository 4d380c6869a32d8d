------------------------------ MODULE DevLoop -------------------------------
(***************************************************************************)
(* `aru dev`: the loop that watches a project, rebuilds what its files     *)
(* generate and restarts the application (dev.go).                         *)
(*                                                                         *)
(* Five actors share the state: the loop itself, the developer saving      *)
(* files, the application process (`go run`, then the binary it builds),   *)
(* the goroutine that reaps it, and the terminal sending signals.          *)
(*                                                                         *)
(* A file is a version number that grows with every save (an absent file   *)
(* is one more version: diff treats a missing entry as it treats a changed *)
(* modification time).  A snapshot is taken in one step: no property       *)
(* relates two files read by the same walk.                                *)
(***************************************************************************)
EXTENDS Naturals

CONSTANTS
    ViewInputs,        \* the files isViewInput accepts: views, css, scripts, arandu.toml, go.mod
    GoFiles,           \* the other watched sources: Go, sql, embedded files
    MaxVersion         \* bound: how often one file is saved

ASSUME SourcesDisjoint == ViewInputs \cap GoFiles = {}
ASSUME MaxVersionNat == MaxVersion \in Nat

Sources == ViewInputs \cup GoFiles

VARIABLES
    \* The disk.
    tree,      \* the version of every source
    gen,       \* the view version each generated view was compiled from
    queries,   \* the entity version each generated query was written from
    reading,   \* what the build in progress has read
    \* dev's locals.
    pc,        \* where the loop is
    state,     \* the last snapshot: sources, and the watched generated queries
    pending,   \* a view build is owed
    dirty,     \* a change was seen and has not settled
    server,    \* the launch number of the serverProcess, 0 for nil
    done,      \* server.done
    \* The application, and the channels.
    launched,  \* how many applications were started
    alive,     \* the launch numbers whose process group still runs
    exited,    \* the launch numbers whose exit waits in its channel
    fatal,     \* does the last exit name a port already in use?
    compiled,  \* has the live application compiled what it serves?
    built,     \* what it compiled
    term,      \* SIGTERM was sent to it
    interrupted, \* the signal channel, a buffer of one
    armed,     \* signal.Notify is in effect
    \* Observations no code reads.
    noticed,   \* the version of each view input that diff last reported
    base,      \* the sources at the last snapshot that absorbed a build
    absorbed   \* a save fell where a snapshot takes it for what was built

disk == <<tree, gen, queries, reading>>
locals == <<state, pending, dirty>>
process == <<server, done, launched, alive, exited, fatal, compiled, built, term>>
signals == <<interrupted, armed>>
ghosts == <<noticed, base, absorbed>>
vars == <<disk, pc, locals, process, signals, ghosts>>

InitialBuild == {"planModels0", "applyModels0", "readViews0", "writeViews0"}
Rebuild == {"readViews", "writeViews", "planModels", "applyModels", "absorb"}
Stopping == {"exiting", "exitReap"}
Final == {"ended", "killed", "panicked"}
Locations == InitialBuild \cup Rebuild \cup Stopping \cup Final
    \cup {"start0", "snapshot0", "wait", "recheck", "stopServer", "reap", "start"}

Versions(S) == [S -> Nat]

TypeOK ==
    /\ tree \in Versions(Sources)
    /\ gen \in Versions(ViewInputs)
    /\ queries \in Versions(GoFiles)
    /\ reading \in Versions(Sources)
    /\ pc \in Locations
    /\ state \in [src : Versions(Sources), queries : Versions(GoFiles)]
    /\ pending \in BOOLEAN
    /\ dirty \in BOOLEAN
    /\ server \in Nat
    /\ done \in BOOLEAN
    /\ launched \in Nat
    /\ alive \subseteq Nat
    /\ exited \subseteq Nat
    /\ fatal \in BOOLEAN
    /\ compiled \in BOOLEAN
    /\ built \in [go : Versions(GoFiles), gen : Versions(ViewInputs),
                  queries : Versions(GoFiles)]
    /\ term \in BOOLEAN
    /\ interrupted \in BOOLEAN
    /\ armed \in BOOLEAN
    /\ noticed \in Versions(ViewInputs)
    /\ base \in Versions(Sources)
    /\ absorbed \in BOOLEAN

Zero(S) == [f \in S |-> 0]
Only(S) == [f \in S |-> tree[f]]

(***************************************************************************)
(* A project as a clone or a save left it: every file at version 1, and    *)
(* generated files from some earlier version (0) or from none.             *)
(***************************************************************************)
Init ==
    /\ tree = [f \in Sources |-> 1]
    /\ gen = Zero(ViewInputs)
    /\ queries = Zero(GoFiles)
    /\ reading = Zero(Sources)
    /\ pc = "planModels0"
    /\ state = [src |-> Zero(Sources), queries |-> Zero(GoFiles)]
    /\ pending = FALSE
    /\ dirty = FALSE
    /\ server = 0
    /\ done = FALSE
    /\ launched = 0
    /\ alive = {}
    /\ exited = {}
    /\ fatal = FALSE
    /\ compiled = FALSE
    /\ built = [go |-> Zero(GoFiles), gen |-> Zero(ViewInputs), queries |-> Zero(GoFiles)]
    /\ term = FALSE
    /\ interrupted = FALSE
    /\ armed = FALSE
    /\ noticed = Zero(ViewInputs)
    /\ base = Zero(Sources)
    /\ absorbed = FALSE

-----------------------------------------------------------------------------
(* Building: read by one step, written by another, saves in between.       *)

BuildReads(from, to) ==
    /\ pc = from
    /\ reading' = tree
    /\ pc' = to
    /\ UNCHANGED <<tree, gen, queries, locals, process, signals, ghosts>>

\* A build that stops half way has written some of its outputs.
WritesSome(old, S) ==
    { [f \in S |-> IF f \in W THEN reading[f] ELSE old[f]] : W \in SUBSET S }

Written(S) == [f \in S |-> reading[f]]

\* The initial builds: a failure ends the command.
ModelsBuilt0 ==
    /\ pc = "applyModels0"
    /\ \/ queries' = Written(GoFiles) /\ pc' = "readViews0"
       \/ queries' \in WritesSome(queries, GoFiles) /\ pc' = "ended"
    /\ UNCHANGED <<tree, gen, reading, locals, process, signals, ghosts>>

\* Mutant: the signals keep their default disposition.
ViewsBuilt0WithoutNotify ==
    /\ pc = "writeViews0"
    /\ \/ gen' = Written(ViewInputs) /\ pc' = "start0"
       \/ gen' \in WritesSome(gen, ViewInputs) /\ pc' = "ended"
    /\ UNCHANGED <<tree, queries, reading, locals, process, signals, ghosts>>

\* signal.Notify follows the successful view build at once.
ViewsBuilt0 ==
    /\ pc = "writeViews0"
    /\ \/ gen' = Written(ViewInputs) /\ pc' = "start0" /\ armed' = TRUE
       \/ gen' \in WritesSome(gen, ViewInputs) /\ pc' = "ended" /\ UNCHANGED armed
    /\ UNCHANGED <<tree, queries, reading, locals, process, interrupted, ghosts>>

\* Mutant: pending is cleared before the build, whatever becomes of it.
ViewsBuiltForgetting ==
    /\ pc = "writeViews"
    /\ \/ gen' = Written(ViewInputs) /\ pc' = "planModels"
       \/ gen' \in WritesSome(gen, ViewInputs) /\ pc' = "wait"
    /\ pending' = FALSE
    /\ UNCHANGED <<tree, queries, reading, state, dirty, process, signals, ghosts>>

\* In the loop a failed view build stays owed and goes back to waiting.
ViewsBuilt ==
    /\ pc = "writeViews"
    /\ \/ gen' = Written(ViewInputs) /\ pending' = FALSE /\ pc' = "planModels"
       \/ gen' \in WritesSome(gen, ViewInputs) /\ pc' = "wait" /\ UNCHANGED pending
    /\ UNCHANGED <<tree, queries, reading, state, dirty, process, signals, ghosts>>

\* A failed model build is reported and the restart goes ahead.
ModelsBuilt ==
    /\ pc = "applyModels"
    /\ queries' \in WritesSome(queries, GoFiles)
    /\ pc' = "absorb"
    /\ UNCHANGED <<tree, gen, reading, locals, process, signals, ghosts>>

-----------------------------------------------------------------------------
(* Watching.                                                               *)

snapshot == [src |-> tree, queries |-> queries]

changed == state # snapshot
\* Mutant: no file is taken for a view input.
viewsNeverChanged == FALSE

viewsChanged == \E v \in ViewInputs : state.src[v] # tree[v]

FirstSnapshot ==
    /\ pc = "snapshot0"
    /\ state' = snapshot
    /\ base' = tree
    /\ pc' = "wait"
    /\ UNCHANGED <<disk, pending, dirty, process, signals, noticed, absorbed>>

\* select takes the timer only while nothing else is ready.
Ticking ==
    /\ pc = "wait"
    /\ server # 0
    /\ ~interrupted
    /\ server \notin exited

TickChanged ==
    /\ Ticking
    /\ changed
    /\ state' = snapshot
    /\ dirty' = TRUE
    /\ pending' = (pending \/ viewsChanged)
    /\ noticed' = [v \in ViewInputs |-> IF state.src[v] # tree[v] THEN tree[v] ELSE noticed[v]]
    /\ UNCHANGED <<disk, pc, process, signals, base, absorbed>>

TickSettled ==
    /\ Ticking
    /\ ~changed
    /\ dirty
    /\ dirty' = FALSE
    /\ pc' = IF pending THEN "readViews" ELSE "planModels"
    /\ UNCHANGED <<disk, state, pending, process, signals, ghosts>>

\* state = snapshot(root) after the builds: what they wrote is not a change.
Absorb ==
    /\ pc = "absorb"
    /\ state' = snapshot
    /\ base' = tree
    /\ pc' = "recheck"

    /\ UNCHANGED <<disk, pending, dirty, process, signals, noticed, absorbed>>

-----------------------------------------------------------------------------
(* The application process.                                                *)

\* cmd.Start, a fresh serverProcess, and the goroutine that will reap it.
Spawn ==
    /\ launched' = launched + 1
    /\ server' = launched + 1
    /\ done' = FALSE
    /\ alive' = alive \cup {launched + 1}
    /\ compiled' = FALSE
    /\ term' = FALSE
    /\ UNCHANGED <<exited, fatal, built>>

\* cmd.Start failed: startServer returns a nil serverProcess.
SpawnFailed ==
    /\ server' = 0
    /\ done' = FALSE
    /\ UNCHANGED <<launched, alive, exited, fatal, compiled, built, term>>

\* At the start a failure ends the command; on a restart it is only printed.
FirstStart ==
    /\ pc = "start0"
    /\ \/ Spawn /\ pc' = "snapshot0"
       \/ SpawnFailed /\ pc' = "ended"
    /\ UNCHANGED <<disk, locals, signals, ghosts>>

Restart ==
    /\ pc = "start"
    /\ Spawn \/ SpawnFailed
    /\ pc' = "wait"
    /\ UNCHANGED <<disk, locals, signals, ghosts>>

\* Mutant: nobody is told to terminate.
WaitWithoutKill(from, next, wait) ==
    /\ pc = from
    /\ pc' = IF server = 0 \/ done THEN next ELSE wait
    /\ UNCHANGED <<disk, locals, process, signals, ghosts>>

\* stopServer's early return and its SIGTERM to the process group.
KillGroup(from, next, wait) ==
    /\ pc = from
    /\ IF server = 0 \/ done
       THEN pc' = next /\ UNCHANGED term
       ELSE pc' = wait /\ term' = TRUE
    /\ UNCHANGED <<disk, locals, server, done, launched, alive, exited, fatal,
                   compiled, built, signals, ghosts>>

\* <-s.exited
Reap(from, next) ==
    /\ pc = from
    /\ server \in exited
    /\ exited' = exited \ {server}
    /\ done' = TRUE
    /\ pc' = next
    /\ UNCHANGED <<disk, locals, server, launched, alive, fatal, compiled, built,
                   term, signals, ghosts>>

\* The select's second case: the application died on its own.
ServerExited ==
    /\ pc = "wait"
    /\ server # 0
    /\ server \in exited
    /\ exited' = exited \ {server}
    /\ done' = TRUE
    /\ pc' = IF fatal THEN "exiting" ELSE "wait"
    /\ UNCHANGED <<disk, locals, server, launched, alive, fatal, compiled, built,
                   term, signals, ghosts>>

\* The select reads server.exited through a nil serverProcess.
NilServer ==
    /\ pc = "wait"
    /\ server = 0
    /\ pc' = "panicked"
    /\ UNCHANGED <<disk, locals, process, signals, ghosts>>

\* `go run` compiles what is on disk now, some time after it was started.
AppCompiles ==
    /\ ~compiled
    /\ server \in alive
    /\ compiled' = TRUE
    /\ built' = [go |-> Only(GoFiles), gen |-> gen, queries |-> queries]
    /\ UNCHANGED <<disk, pc, locals, server, done, launched, alive, exited, fatal,
                   term, signals, ghosts>>

\* It ends: a compile error, a panic, a port in use, or the SIGTERM.
AppExits ==
    /\ \E p \in alive :
          /\ alive' = alive \ {p}
          /\ exited' = exited \cup {p}
    /\ fatal' \in BOOLEAN
    /\ UNCHANGED <<disk, pc, locals, server, done, launched, compiled, built, term,
                   signals, ghosts>>

-----------------------------------------------------------------------------
(* Signals.                                                                *)

\* A signal while Notify is in effect; a second one is dropped by the buffer.
Interrupt ==
    /\ armed
    /\ pc \notin Final
    /\ ~interrupted
    /\ interrupted' = TRUE
    /\ UNCHANGED <<disk, pc, locals, process, armed, ghosts>>

\* A signal at its default disposition: no deferred function runs.
DefaultSignal ==
    /\ ~armed
    /\ pc \notin Final
    /\ pc' = "killed"
    /\ UNCHANGED <<disk, locals, process, signals, ghosts>>

\* stop: the signal is taken, the default disposition is back, dev returns.
Stop(from) ==
    /\ pc = from
    /\ interrupted
    /\ interrupted' = FALSE
    /\ armed' = FALSE
    /\ pc' = "exiting"
    /\ UNCHANGED <<disk, locals, process, ghosts>>

StopWaiting == server # 0 /\ Stop("wait")
StopBeforeRestart == Stop("recheck")

Recheck ==
    /\ pc = "recheck"
    /\ ~interrupted
    /\ pc' = "stopServer"
    /\ UNCHANGED <<disk, locals, process, signals, ghosts>>

-----------------------------------------------------------------------------
(* The developer.                                                          *)

\* The locations between what a build read and the snapshot taken after it: a
\* save there is in the snapshot and in nothing that was built.
LossWindow == {"writeViews0", "start0", "snapshot0",
               "writeViews", "planModels", "applyModels", "absorb"}

Save(f) ==
    /\ tree[f] < MaxVersion
    /\ tree' = [tree EXCEPT ![f] = @ + 1]
    /\ absorbed' = (absorbed \/ pc \in LossWindow)
    /\ UNCHANGED <<gen, queries, reading, pc, locals, process, signals, noticed, base>>

-----------------------------------------------------------------------------
PlanModels0 == BuildReads("planModels0", "applyModels0")
ReadViews0 == BuildReads("readViews0", "writeViews0")
ReadViews == BuildReads("readViews", "writeViews")
PlanModels == BuildReads("planModels", "applyModels")
StopServer == KillGroup("stopServer", "start", "reap")
ReapForRestart == Reap("reap", "start")

DeferredStop == KillGroup("exiting", "ended", "exitReap")
DeferredReap == Reap("exitReap", "ended")

Building == PlanModels0 \/ ModelsBuilt0 \/ ReadViews0 \/ ViewsBuilt0
            \/ ReadViews \/ ViewsBuilt \/ PlanModels \/ ModelsBuilt
Watching == FirstSnapshot \/ TickChanged \/ TickSettled \/ Absorb
Restarting == FirstStart \/ Recheck \/ StopServer \/ ReapForRestart \/ Restart
Ending == ServerExited \/ NilServer \/ StopWaiting \/ StopBeforeRestart
          \/ DeferredStop \/ DeferredReap
Loop == Building \/ Watching \/ Restarting \/ Ending

App == AppCompiles \/ AppExits
Terminal == Interrupt \/ DefaultSignal
Developer == \E f \in Sources : Save(f)

Next == Loop \/ App \/ Terminal \/ Developer

Spec == Init /\ [][Next]_vars

(***************************************************************************)
(* Fairness: Go schedules the loop and the builds return; `go run`         *)
(* compiles what it was started to compile; a process group that was sent  *)
(* SIGTERM goes away.  Nothing obliges anybody to save, to signal, or an   *)
(* application that was not signalled to exit.                             *)
(***************************************************************************)
Fairness ==
    /\ WF_vars(Loop)
    /\ WF_vars(AppCompiles)
    /\ WF_vars(term /\ AppExits)

FairSpec == Spec /\ Fairness

-----------------------------------------------------------------------------
(* Properties.                                                             *)

\* Two applications never run at once: the restart waits for the old process
\* group before it launches the next, which could otherwise not bind the port
\* (stopServer's <-s.exited).
OneApplication == \A p, q \in alive : p = q

\* A session that ends by returning from dev leaves no application behind: the
\* deferred closure stops the server of the last restart, not the first.
NoOrphan == pc \in {"ended", "panicked"} => alive = {}

(***************************************************************************)
(* What the loop promises to the outside: it is a Supervisor.  A session   *)
(* is stopping once stop has re-armed the default disposition, and a       *)
(* second signal then abandons what still runs.                            *)
(***************************************************************************)
session ==
    IF pc \in {"ended", "panicked"} THEN "closed"
    ELSE IF pc = "killed" THEN IF launched = 0 THEN "closed" ELSE "abandoned"
    ELSE IF pc \in Stopping /\ ~armed THEN "stopping"
    ELSE "open"

Abstract == INSTANCE Supervisor WITH up <- alive, session <- session

Supervises == Abstract!Spec

\* A view change diff reported stays owed until a build that read it succeeds.
NoticedIsOwed ==
    \A v \in ViewInputs : noticed[v] > gen[v] => pending

\* The server is never restarted over generated views older than the last view
\* edit the loop noticed.
RestartNotBehind ==
    pc \in {"recheck", "stopServer", "reap", "start"} =>
        \A v \in ViewInputs : gen[v] >= noticed[v]

\* The loop never restarts for its own output: between two restarts at least one
\* source was saved.
RestartHasAnEdit ==
    [][ pc = "absorb" /\ pc' = "recheck" => base' # base ]_vars

\* A restart whose cmd.Start fails is reported and the loop goes on: the nil
\* serverProcess it leaves is one stopServer and output expect.
FailedStartIsSurvived == pc # "panicked"

\* A signal the loop may still take ends the command.
InterruptEnds == (interrupted ~> pc \in Final)

\* What the developer saved is what the application serves.
UpToDate ==
    /\ pc = "wait"
    /\ compiled
    /\ built.go = Only(GoFiles)
    /\ built.gen = Only(ViewInputs)

\* The loop has said why it does not: a view build is owed and its error printed,
\* the application exited, or the command ended.
Told == pc \in Final \/ pending \/ done

\* Once the saving stops what was saved is served, unless the loop has said
\* otherwise or a save fell into the loss window.
Converges == <>[](absorbed \/ Told \/ UpToDate)

\* "restarts it on every change" (dev.go:113): the same, wherever the saves fell.
EveryChangeIsServed == <>[](Told \/ UpToDate)
=============================================================================
