------------------------------ MODULE Launchers -----------------------------
(***************************************************************************)
(* The three commands that start one program and stay with it: `aru dev`,  *)
(* `aru serve` and `aru native:dev`.  One of them is typed; each ends on   *)
(* an interrupt, and none may leave its program behind.                    *)
(***************************************************************************)
EXTENDS DevLoop

CONSTANTS
    Pages,         \* the view sources `aru serve` builds
    MaxPage,       \* bound: the latest version of one
    MaxSaves       \* bound: how often the native target is saved

ASSUME BoundsNat == MaxPage \in Nat /\ MaxSaves \in Nat

VARIABLES
    command,       \* what was typed
    sTree, sGen, sReading, invoked, sPc, sServer, sAlive, sExited, sDone,  \* serve, see ServeOnce
    sCompiled, served, sTerm, sInterrupted, sArmed,
    nTree, binary, nReading, nPc, watching, nState, nDirty,                 \* native:dev, see NativeDev
    running, nLaunched, nAlive, nTerm, shown, failed, nInterrupted, nArmed, nAbsorbed

serve == <<sTree, sGen, sReading, invoked, sPc, sServer, sAlive, sExited, sDone,
           sCompiled, served, sTerm, sInterrupted, sArmed>>
native == <<nTree, binary, nReading, nPc, watching, nState, nDirty, running, nLaunched,
            nAlive, nTerm, shown, failed, nInterrupted, nArmed, nAbsorbed>>
all == <<command, vars, serve, native>>

Once == INSTANCE ServeOnce
    WITH ViewInputs <- Pages, MaxVersion <- MaxPage,
         tree <- sTree, gen <- sGen, reading <- sReading, pc <- sPc, server <- sServer, alive <- sAlive,
         exited <- sExited, done <- sDone, compiled <- sCompiled, term <- sTerm,
         interrupted <- sInterrupted, armed <- sArmed
Native == INSTANCE NativeDev
    WITH tree <- nTree, reading <- nReading, pc <- nPc, state <- nState, dirty <- nDirty,
         launched <- nLaunched, alive <- nAlive, term <- nTerm,
         interrupted <- nInterrupted, armed <- nArmed, absorbed <- nAbsorbed, MaxVersion <- MaxSaves

\* A command that was not typed stands at its first state.
ServeAtRest == sTree = [v \in Pages |-> 1] /\ sGen = sTree

LauncherInit ==
    /\ Init /\ Once!Init /\ Native!Init
    /\ command \in {"dev", "serve", "native:dev"}
    /\ command # "serve" => ServeAtRest

Watches(A) == command = "dev" /\ A /\ UNCHANGED <<command, serve, native>>
Serves(A)  == command = "serve" /\ A /\ UNCHANGED <<command, vars, native>>
Shows(A)   == command = "native:dev" /\ A /\ UNCHANGED <<command, vars, serve>>

LauncherNext == Watches(Next) \/ Serves(Once!Next) \/ Shows(Native!Next)

(***************************************************************************)
(* Fairness, as each command has it: the commands are scheduled, `go run`  *)
(* compiles, and a group that was sent SIGTERM goes away.                  *)
(***************************************************************************)
LauncherSpec ==
    /\ LauncherInit /\ [][LauncherNext]_all
    /\ WF_all(Watches(Loop)) /\ WF_all(Watches(AppCompiles)) /\ WF_all(Watches(term /\ AppExits))
    /\ WF_all(Serves(Once!Command)) /\ WF_all(Serves(sTerm /\ Once!AppExits))
    /\ WF_all(Shows(Native!Loop)) /\ WF_all(Shows(nTerm /\ Native!WindowExits))

-----------------------------------------------------------------------------
\* Each command is a Supervisor, as Supervises says of `aru dev`: one program at
\* a time, and none after the command returned.
OthersSupervise == Once!Supervises /\ Native!Supervises
EveryoneSupervises == Supervises /\ OthersSupervise

\* The safety of the other two, see ServeOnce and NativeDev.
ServesTheSave == Once!ServesTheSave
BinaryNotInUse == Native!BinaryNotInUse

\* Once the saving stops, what was saved is what runs, unless the command said
\* otherwise (Converges of DevLoop and of NativeDev).
LoopConverges == command = "dev" => Converges
WindowConverges == command = "native:dev" => Native!Converges
SaveIsShown == LoopConverges /\ WindowConverges
=============================================================================
