----------------------------- MODULE NativeDev ------------------------------
(***************************************************************************)
(* `aru native:dev`: the loop that rebuilds the native target and reopens  *)
(* its window (nativedev.go).  The target's tree is one version number:    *)
(* nothing here treats two of its files differently.                       *)
(***************************************************************************)
EXTENDS Naturals

CONSTANT
    MaxVersion   \* bound: how often the tree is saved

VARIABLES
    tree, binary, reading,    \* the sources, bin/native-dev, what the compiler has read
    pc, watching, state, dirty, \* the loop; watching is FALSE until the first snapshot
    running,                  \* the window openWindow returned, 0 for nil
    launched, alive, term,    \* windows opened, windows alive, SIGTERM sent
    shown,                    \* the version the last window was built from
    failed,                   \* the last restart printed an error
    interrupted, armed,
    absorbed                  \* observation: a save the first snapshot takes for built

disk == <<tree, binary, reading>>
locals == <<watching, state, dirty>>
window == <<running, launched, alive, term, shown, failed>>
signals == <<interrupted, armed>>
vars == <<disk, pc, locals, window, signals, absorbed>>

Final == {"ended", "killed"}

TypeOK ==
    /\ {tree, binary, reading, state, running, launched, shown} \subseteq Nat
    /\ pc \in {"restart", "closing", "compile", "link", "open", "snapshot", "wait",
               "exiting", "exitWait"} \cup Final
    /\ {watching, dirty, term, failed, interrupted, armed, absorbed} \subseteq BOOLEAN
    /\ alive \subseteq {running} \ {0}

Init ==
    /\ tree = 1 /\ binary = 0 /\ reading = 0
    /\ pc = "restart" /\ watching = FALSE /\ state = 0 /\ dirty = FALSE
    /\ running = 0 /\ launched = 0 /\ alive = {} /\ term = FALSE
    /\ shown = 0 /\ failed = FALSE
    /\ interrupted = FALSE /\ armed = TRUE /\ absorbed = FALSE

-----------------------------------------------------------------------------
(* The restart closure: close, compile, open.                              *)

\* closeWindow on a nil command does nothing; on a window it signals the group.
CloseWindow(from, gone, wait) ==
    /\ pc = from
    /\ IF running = 0
       THEN pc' = gone /\ UNCHANGED term
       ELSE pc' = wait /\ term' = TRUE
    /\ UNCHANGED <<disk, locals, running, launched, alive, shown, failed, signals, absorbed>>

\* Mutant: the window is signalled and not waited for.
ForgotToWait(from, to) ==
    /\ pc = from
    /\ running' = 0
    /\ pc' = to
    /\ UNCHANGED <<disk, locals, launched, alive, term, shown, failed, signals, absorbed>>

\* cmd.Process.Wait returns once the window is gone.
WindowGone(from, to) ==
    /\ pc = from
    /\ running \notin alive
    /\ running' = 0
    /\ pc' = to
    /\ UNCHANGED <<disk, locals, launched, alive, term, shown, failed, signals, absorbed>>

BackFromRestart == pc' = IF watching THEN "wait" ELSE "snapshot"

Compile ==
    /\ pc = "compile"
    /\ reading' = tree
    /\ pc' = "link"
    /\ UNCHANGED <<tree, binary, locals, window, signals, absorbed>>

Link ==
    /\ pc = "link"
    /\ \/ binary' = reading /\ pc' = "open" /\ UNCHANGED failed
       \/ failed' = TRUE /\ BackFromRestart /\ UNCHANGED binary
    /\ UNCHANGED <<tree, reading, locals, running, launched, alive, term, shown, signals, absorbed>>

OpenWindow ==
    /\ pc = "open"
    /\ \/ /\ launched' = launched + 1
          /\ running' = launched + 1
          /\ alive' = alive \cup {launched + 1}
          /\ term' = FALSE
          /\ shown' = binary
          /\ failed' = FALSE
       \/ failed' = TRUE /\ UNCHANGED <<launched, running, alive, term, shown>>
    /\ BackFromRestart
    /\ UNCHANGED <<disk, locals, signals, absorbed>>

-----------------------------------------------------------------------------
FirstSnapshot ==
    /\ pc = "snapshot"
    /\ state' = tree
    /\ watching' = TRUE
    /\ pc' = "wait"
    /\ UNCHANGED <<disk, dirty, window, signals, absorbed>>

TickChanged ==
    /\ pc = "wait"
    /\ ~interrupted
    /\ state # tree
    /\ state' = tree
    /\ dirty' = TRUE
    /\ UNCHANGED <<disk, pc, watching, window, signals, absorbed>>

TickSettled ==
    /\ pc = "wait"
    /\ ~interrupted
    /\ state = tree
    /\ dirty
    /\ dirty' = FALSE
    /\ pc' = "restart"
    /\ UNCHANGED <<disk, watching, state, window, signals, absorbed>>

Stop ==
    /\ pc = "wait"
    /\ interrupted
    /\ interrupted' = FALSE
    /\ armed' = FALSE
    /\ pc' = "exiting"
    /\ UNCHANGED <<disk, locals, window, absorbed>>

StartRestart == CloseWindow("restart", "compile", "closing")
Closed == WindowGone("closing", "compile")
DeferredClose == CloseWindow("exiting", "ended", "exitWait")
DeferredClosed == WindowGone("exitWait", "ended")

-----------------------------------------------------------------------------
WindowExits ==
    /\ \E w \in alive : alive' = alive \ {w}
    /\ UNCHANGED <<disk, pc, locals, running, launched, term, shown, failed, signals, absorbed>>

Interrupt ==
    /\ armed /\ pc \notin Final
    /\ ~interrupted
    /\ interrupted' = TRUE
    /\ UNCHANGED <<disk, pc, locals, window, armed, absorbed>>

DefaultSignal ==
    /\ ~armed /\ pc \notin Final
    /\ pc' = "killed"
    /\ UNCHANGED <<disk, locals, window, signals, absorbed>>

Save ==
    /\ tree < MaxVersion
    /\ tree' = tree + 1
    /\ absorbed' = (absorbed \/ (~watching /\ pc \in {"link", "open", "snapshot"}))
    /\ UNCHANGED <<binary, reading, pc, locals, window, signals>>

Loop == StartRestart \/ Closed \/ Compile \/ Link \/ OpenWindow \/ FirstSnapshot
        \/ TickChanged \/ TickSettled \/ Stop \/ DeferredClose \/ DeferredClosed

Next == Loop \/ WindowExits \/ Interrupt \/ DefaultSignal \/ Save

Spec == Init /\ [][Next]_vars

\* The loop is scheduled, the compiler returns, a signalled window closes.
FairSpec == Spec /\ WF_vars(Loop) /\ WF_vars(term /\ WindowExits)

-----------------------------------------------------------------------------
\* The compiler never writes bin/native-dev while a window runs from it: a file
\* open as a running program cannot be replaced everywhere (closeWindow waits).
BinaryNotInUse == pc = "link" => alive = {}

session ==
    CASE pc = "killed" -> "abandoned"
      [] pc = "ended" -> "closed"
      [] pc \in {"exiting", "exitWait"} -> "stopping"
      [] OTHER -> "open"

Abstract == INSTANCE Supervisor WITH up <- alive, session <- session

\* The loop is a Supervisor: one window at a time, and none after the command
\* returned, whichever rebuild opened the last one.
Supervises == Abstract!Spec

\* The window shows the last save once the saving stops, unless the last rebuild
\* said why it failed or the window was closed: a save during a rebuild is seen by
\* the next tick, because nothing here takes a snapshot after a build, except the
\* first one (nativedev.go:80), which takes what was saved since the first build.
Converges ==
    <>[](absorbed \/ pc \in Final \/ failed \/ running \notin alive
         \/ (pc = "wait" /\ shown = tree))
=============================================================================
