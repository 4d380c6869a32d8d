-------------------------- MODULE LaunchersProofs ---------------------------
(***************************************************************************)
(* Proofs about the commands that start a program and stay with it, for    *)
(* every set of files, every number of saves and launches.                 *)
(*   `aru dev`: the application is supervised, a noticed view change is    *)
(*   never forgotten, and the loop restarts for a save, never for its own  *)
(*   output.                                                               *)
(*   `aru serve`: it is supervised, and serves no view older than the one  *)
(*   that was on disk.                                                     *)
(*   `aru native:dev`: it is supervised, and its compiler never writes a   *)
(*   program a window runs from.                                           *)
(***************************************************************************)
EXTENDS Launchers, TLAPS

-----------------------------------------------------------------------------
(* `aru dev`.                                                              *)

Running == server # 0 /\ ~done /\ server \notin exited

\* Where the loop may be while there is, or is not, a server to stop.
BeforeStart == InitialBuild \cup {"start0"}

(***************************************************************************)
(* The process half: the server variable accounts for the only process     *)
(* there can be, and each location knows whether it was reaped.            *)
(***************************************************************************)
ProcessInv ==
    /\ alive = IF Running THEN {server} ELSE {}
    /\ exited \subseteq {server} \ {0}
    /\ done => exited = {}
    /\ server <= launched
    /\ pc \in BeforeStart => launched = 0 /\ server = 0
    /\ pc \in {"start", "ended"} => server = 0 \/ done
    /\ pc \in {"reap", "exitReap"} => server # 0 /\ ~done
    /\ pc = "panicked" => server = 0

(***************************************************************************)
(* The signals are handled from the end of the first view build until the  *)
(* first one is taken.                                                     *)
(***************************************************************************)
SignalInv ==
    /\ pc \in InitialBuild => ~armed
    /\ pc \notin InitialBuild \cup Stopping \cup Final => armed
    /\ pc = "killed" => ~armed
    /\ interrupted => armed

(***************************************************************************)
(* The view half: nothing noticed is newer than the disk, and a view that  *)
(* generated code lags behind is owed.                                     *)
(***************************************************************************)
ViewInv ==
    /\ \A f \in Sources : base[f] <= state.src[f] /\ state.src[f] <= tree[f]
    /\ \A v \in ViewInputs : noticed[v] <= tree[v]
    /\ NoticedIsOwed
    /\ pc \in BeforeStart => \A v \in ViewInputs : noticed[v] = 0
    /\ pc = "writeViews" => \A v \in ViewInputs : reading[v] >= noticed[v]
    /\ pc \in {"readViews", "writeViews"} => pending
    /\ pc \in {"planModels", "applyModels", "absorb", "recheck", "stopServer", "reap", "start"}
          => ~pending

(***************************************************************************)
(* The edit half: while a change waits or is being acted on, the snapshot  *)
(* that holds it differs from the one the last restart was made for.       *)
(***************************************************************************)
Watched == {"wait", "readViews", "writeViews", "planModels", "applyModels",
            "recheck", "stopServer", "reap", "start"}

EditInv ==
    /\ dirty => pc \in {"wait"} \cup Stopping \cup Final
    /\ dirty \/ pc \in Rebuild => state.src # base
    /\ pc \in Watched => state.queries = queries

IInv == TypeOK /\ ProcessInv /\ SignalInv /\ ViewInv /\ EditInv

-----------------------------------------------------------------------------
(* Type correctness.                                                       *)

LEMMA WritesSomeType ==
    ASSUME TypeOK, NEW S \in SUBSET Sources, NEW old \in Versions(S),
           NEW new \in WritesSome(old, S)
    PROVE  new \in Versions(S)
  BY DEF WritesSome, TypeOK, Versions

LEMMA WrittenType ==
    ASSUME TypeOK, NEW S \in SUBSET Sources
    PROVE  Written(S) \in Versions(S)
  BY DEF Written, TypeOK, Versions

LEMMA OnlyType ==
    ASSUME TypeOK, NEW S \in SUBSET Sources
    PROVE  Only(S) \in Versions(S)
  BY DEF Only, TypeOK, Versions

LEMMA ZeroType == ASSUME NEW S PROVE Zero(S) \in Versions(S)
  BY DEF Zero, Versions

LEMMA InitType == Init => TypeOK
<1> SUFFICES ASSUME Init PROVE TypeOK
  OBVIOUS
<1>1. tree \in Versions(Sources)
  BY DEF Init, Versions
<1>2. pc \in Locations
  BY DEF Init, Locations, InitialBuild
<1> QED BY <1>1, <1>2, ZeroType DEF Init, TypeOK

LEMMA TypeStep == TypeOK /\ [Next]_vars => TypeOK'
<1> SUFFICES ASSUME TypeOK, [Next]_vars PROVE TypeOK'
  OBVIOUS
<1>a. ViewInputs \subseteq Sources /\ GoFiles \subseteq Sources
  BY DEF Sources
<1> USE DEF disk, locals, process, signals, ghosts
<1>1. CASE Building
  <2>1. CASE PlanModels0 \/ ReadViews0 \/ ReadViews \/ PlanModels
    <3>1. reading' = tree /\ pc' \in Locations
      BY <2>1 DEF PlanModels0, ReadViews0, ReadViews, PlanModels, BuildReads,
                  Locations, InitialBuild, Rebuild
    <3>2. UNCHANGED <<tree, gen, queries, locals, process, signals, ghosts>>
      BY <2>1 DEF PlanModels0, ReadViews0, ReadViews, PlanModels, BuildReads
    <3> QED BY <3>1, <3>2 DEF TypeOK
  <2>2. CASE ModelsBuilt0
    <3>1. queries' \in Versions(GoFiles)
      BY <2>2, <1>a, WritesSomeType, WrittenType DEF ModelsBuilt0, TypeOK
    <3> QED BY <2>2, <3>1 DEF ModelsBuilt0, TypeOK, Locations, InitialBuild, Final
  <2>3. CASE ViewsBuilt0
    <3>1. gen' \in Versions(ViewInputs)
      BY <2>3, <1>a, WritesSomeType, WrittenType DEF ViewsBuilt0, TypeOK
    <3> QED BY <2>3, <3>1 DEF ViewsBuilt0, TypeOK, Locations, InitialBuild, Final
  <2>4. CASE ViewsBuilt
    <3>1. gen' \in Versions(ViewInputs)
      BY <2>4, <1>a, WritesSomeType, WrittenType DEF ViewsBuilt, TypeOK
    <3> QED BY <2>4, <3>1 DEF ViewsBuilt, TypeOK, Locations, Rebuild
  <2>5. CASE ModelsBuilt
    <3>1. queries' \in Versions(GoFiles)
      BY <2>5, <1>a, WritesSomeType DEF ModelsBuilt, TypeOK
    <3> QED BY <2>5, <3>1 DEF ModelsBuilt, TypeOK, Locations, Rebuild
  <2> QED BY <1>1, <2>1, <2>2, <2>3, <2>4, <2>5 DEF Building
<1>2. CASE Watching
  <2>1. snapshot \in [src : Versions(Sources), queries : Versions(GoFiles)]
    BY DEF snapshot, TypeOK
  <2>2. CASE FirstSnapshot \/ Absorb
    <3>1. /\ state' = snapshot /\ base' = tree /\ pc' \in {"wait", "recheck"}
          /\ UNCHANGED <<disk, pending, dirty, process, signals, noticed, absorbed>>
      BY <2>2 DEF FirstSnapshot, Absorb
    <3>2. state' \in [src : Versions(Sources), queries : Versions(GoFiles)]
      BY <2>1, <3>1
    <3>3. base' \in Versions(Sources)
      BY <3>1 DEF TypeOK
    <3> QED BY <3>1, <3>2, <3>3 DEF TypeOK, Locations
  <2>3. CASE TickChanged
    <3>1. noticed' \in Versions(ViewInputs)
      BY <2>3, <1>a DEF TickChanged, TypeOK, Versions
    <3>2. pending' \in BOOLEAN
      BY <2>3 DEF TickChanged, TypeOK, viewsChanged
    <3> QED BY <2>1, <2>3, <3>1, <3>2 DEF TickChanged, TypeOK
  <2>4. CASE TickSettled
    BY <2>4 DEF TickSettled, TypeOK, Locations, Rebuild
  <2> QED BY <1>2, <2>2, <2>3, <2>4 DEF Watching
<1>3. CASE Restarting
  <2>1. CASE FirstStart \/ Restart
    <3>1. pc' \in Locations
      BY <2>1 DEF FirstStart, Restart, Locations, Final
    <3>2. Spawn \/ SpawnFailed
      BY <2>1 DEF FirstStart, Restart
    <3>3. UNCHANGED <<disk, locals, signals, ghosts>>
      BY <2>1 DEF FirstStart, Restart
    <3>4. /\ launched' \in Nat /\ server' \in Nat /\ done' \in BOOLEAN
          /\ alive' \subseteq Nat /\ compiled' \in BOOLEAN /\ term' \in BOOLEAN
          /\ UNCHANGED <<exited, fatal, built>>
      <4>0. launched \in Nat /\ alive \subseteq Nat
        BY DEF TypeOK
      <4>1. CASE Spawn
        <5>1. /\ launched' = launched + 1 /\ server' = launched + 1 /\ done' = FALSE
              /\ alive' = alive \cup {launched + 1} /\ compiled' = FALSE /\ term' = FALSE
              /\ UNCHANGED <<exited, fatal, built>>
          BY <4>1 DEF Spawn
        <5>2. launched + 1 \in Nat
          BY <4>0
        <5> QED BY <4>0, <5>1, <5>2, Zenon
      <4>2. CASE SpawnFailed
        BY <4>2 DEF SpawnFailed, TypeOK
      <4> QED BY <3>2, <4>1, <4>2
    <3> QED BY <3>1, <3>3, <3>4 DEF TypeOK
  <2>3. CASE Recheck
    BY <2>3 DEF Recheck, TypeOK, Locations
  <2>4. CASE StopServer
    BY <2>4 DEF StopServer, KillGroup, TypeOK, Locations
  <2>5. CASE ReapForRestart
    BY <2>5 DEF ReapForRestart, Reap, TypeOK, Locations
  <2> QED BY <1>3, <2>1, <2>3, <2>4, <2>5 DEF Restarting
<1>4. CASE Ending
  <2>1. CASE ServerExited \/ NilServer \/ StopWaiting \/ StopBeforeRestart
    <3>1. CASE ServerExited
      BY <3>1 DEF ServerExited, TypeOK, Locations, Final, Stopping
    <3>2. CASE NilServer
      BY <3>2 DEF NilServer, TypeOK, Locations, Final, Stopping
    <3>3. CASE StopWaiting \/ StopBeforeRestart
      BY <3>3 DEF StopWaiting, StopBeforeRestart, Stop, TypeOK, Locations, Final, Stopping
    <3> QED BY <2>1, <3>1, <3>2, <3>3
  <2>2. CASE DeferredStop \/ DeferredReap
    <3>1. CASE DeferredStop
      <4>1. /\ pc' \in {"ended", "exitReap"} /\ term' \in BOOLEAN
            /\ UNCHANGED <<disk, locals, server, done, launched, alive, exited, fatal,
                           compiled, built, signals, ghosts>>
        BY <3>1 DEF DeferredStop, KillGroup, TypeOK
      <4> QED BY <4>1 DEF TypeOK, Locations, Final, Stopping
    <3>2. CASE DeferredReap
      BY <3>2 DEF DeferredReap, Reap, TypeOK, Locations, Final
    <3> QED BY <2>2, <3>1, <3>2
  <2> QED BY <1>4, <2>1, <2>2 DEF Ending
<1>5. CASE App
  <2>1. CASE AppCompiles
    BY <2>1, <1>a, OnlyType DEF AppCompiles, TypeOK
  <2>2. CASE AppExits
    BY <2>2 DEF AppExits, TypeOK
  <2> QED BY <1>5, <2>1, <2>2 DEF App
<1>6. CASE Terminal
  BY <1>6 DEF Terminal, Interrupt, DefaultSignal, TypeOK, Locations, Final
<1>7. CASE Developer
  BY <1>7 DEF Developer, Save, TypeOK, Versions
<1>8. CASE UNCHANGED vars
  BY <1>8 DEF vars, TypeOK
<1> QED BY <1>1, <1>2, <1>3, <1>4, <1>5, <1>6, <1>7, <1>8 DEF Next, Loop

(***************************************************************************)
(* Every variable of `aru dev` keeps its type, for any files and saves.    *)
(***************************************************************************)
THEOREM TypeCorrect == Spec => []TypeOK
  BY InitType, TypeStep, PTL DEF Spec

-----------------------------------------------------------------------------
(* The process and the signals.                                            *)

LEMMA InitInv == Init => IInv
<1> SUFFICES ASSUME Init PROVE IInv
  OBVIOUS
<1>1. TypeOK
  BY InitType
<1>2. ProcessInv /\ SignalInv
  BY DEF Init, ProcessInv, SignalInv, Running, BeforeStart, InitialBuild, Stopping, Final
<1>3. ViewInv
  BY DEF Init, ViewInv, NoticedIsOwed, Zero, Sources
<1>4. EditInv
  BY DEF Init, EditInv, Stopping, Final, Rebuild, Watched
<1> QED BY <1>1, <1>2, <1>3, <1>4 DEF IInv

LEMMA ProcessStep == TypeOK /\ ProcessInv /\ SignalInv /\ [Next]_vars => ProcessInv'
<1> SUFFICES ASSUME TypeOK, ProcessInv, SignalInv, [Next]_vars PROVE ProcessInv'
  OBVIOUS
<1> USE DEF disk, locals, process, signals, ghosts
<1>t. server \in Nat /\ launched \in Nat /\ done \in BOOLEAN
  BY DEF TypeOK
<1>u. ASSUME UNCHANGED process,
             pc' \in BeforeStart => pc \in BeforeStart,
             pc' \in {"start", "ended"} => server = 0 \/ done,
             pc' \in {"reap", "exitReap"} => server # 0 /\ ~done,
             pc' = "panicked" => server = 0
      PROVE  ProcessInv'
  BY <1>u DEF ProcessInv, Running
<1>1. CASE Building
  <2>1. UNCHANGED process
    BY <1>1 DEF Building, PlanModels0, ReadViews0, ReadViews, PlanModels, BuildReads,
                ModelsBuilt0, ViewsBuilt0, ViewsBuilt, ModelsBuilt
  <2>2. pc \in BeforeStart
        \/ pc' \in {"writeViews", "planModels", "wait", "applyModels", "absorb"}
    BY <1>1 DEF Building, PlanModels0, ReadViews0, ReadViews, PlanModels, BuildReads,
                ModelsBuilt0, ViewsBuilt0, ViewsBuilt, ModelsBuilt, BeforeStart, InitialBuild
  <2>3. pc \in BeforeStart => pc' \in {"applyModels0", "readViews0", "writeViews0", "start0", "ended"}
    BY <1>1 DEF Building, PlanModels0, ReadViews0, ReadViews, PlanModels, BuildReads,
                ModelsBuilt0, ViewsBuilt0, ViewsBuilt, ModelsBuilt, BeforeStart, InitialBuild
  <2>4. pc \in BeforeStart => server = 0
    BY DEF ProcessInv
  <2> QED BY <1>u, <2>1, <2>2, <2>3, <2>4 DEF BeforeStart, InitialBuild
<1>2. CASE Watching
  <2>1. UNCHANGED process /\ pc' \in {"wait", "recheck", "readViews", "planModels"}
    BY <1>2 DEF Watching, FirstSnapshot, TickChanged, TickSettled, Ticking, Absorb
  <2> QED BY <1>u, <2>1 DEF BeforeStart, InitialBuild
<1>3. CASE FirstStart \/ Restart
  <2>1. alive = {} /\ exited = {} /\ pc' \in {"snapshot0", "ended", "wait"}
    BY <1>3 DEF FirstStart, Restart, ProcessInv, Running, BeforeStart
  <2>2. \/ Spawn /\ pc' \in {"snapshot0", "wait"}
        \/ SpawnFailed
    BY <1>3 DEF FirstStart, Restart
  <2>3. CASE Spawn /\ pc' \in {"snapshot0", "wait"}
    <3>1. /\ server' = launched + 1 /\ launched' = launched + 1 /\ ~done'
          /\ alive' = {launched + 1} /\ exited' = {}
      BY <2>1, <2>3 DEF Spawn
    <3> QED BY <1>t, <2>3, <3>1 DEF ProcessInv, Running, BeforeStart, InitialBuild
  <2>4. CASE SpawnFailed
    <3>1. server' = 0 /\ launched' = launched /\ ~done' /\ alive' = {} /\ exited' = {}
      BY <2>1, <2>4 DEF SpawnFailed
    <3> QED BY <1>t, <2>1, <3>1 DEF ProcessInv, Running, BeforeStart, InitialBuild
  <2> QED BY <2>2, <2>3, <2>4
<1>4. ASSUME NEW from, NEW next, NEW wait, KillGroup(from, next, wait),
             next \in {"start", "ended"}, wait \in {"reap", "exitReap"}
      PROVE  ProcessInv'
  <2>1. /\ UNCHANGED <<server, done, launched, alive, exited>>
        /\ pc' = IF server = 0 \/ done THEN next ELSE wait
    BY <1>4 DEF KillGroup
  <2> QED BY <1>4, <2>1 DEF ProcessInv, Running, BeforeStart, InitialBuild
<1>5. ASSUME server \in exited, exited' = exited \ {server}, done' = TRUE,
             UNCHANGED <<server, launched, alive>>,
             pc' \in {"start", "ended", "exiting", "wait"}
      PROVE  ProcessInv'
  BY <1>5 DEF ProcessInv, Running, BeforeStart, InitialBuild
<1>6. CASE Recheck
  BY <1>6, <1>u DEF Recheck, BeforeStart, InitialBuild
<1>7. CASE StopServer \/ DeferredStop
  BY <1>4, <1>7 DEF StopServer, DeferredStop
<1>8. CASE ReapForRestart \/ DeferredReap \/ ServerExited
  BY <1>5, <1>8 DEF ReapForRestart, DeferredReap, ServerExited, Reap
<1>9. CASE NilServer
  BY <1>9, <1>u DEF NilServer, BeforeStart, InitialBuild
<1>10. CASE StopWaiting \/ StopBeforeRestart
  BY <1>10, <1>u DEF StopWaiting, StopBeforeRestart, Stop, BeforeStart, InitialBuild
<1>11. CASE AppCompiles
  BY <1>11 DEF AppCompiles, ProcessInv, Running
<1>12. CASE AppExits
  <2>1. Running /\ alive = {server}
    BY <1>12 DEF AppExits, ProcessInv
  <2>2. alive' = {} /\ exited' = exited \cup {server}
        /\ UNCHANGED <<pc, server, done, launched>>
    BY <1>12, <2>1 DEF AppExits
  <2> QED BY <2>1, <2>2 DEF ProcessInv, Running
<1>13. CASE Interrupt
  BY <1>13, <1>u DEF Interrupt, ProcessInv
<1>14. CASE DefaultSignal
  BY <1>14, <1>u DEF DefaultSignal, BeforeStart, InitialBuild
<1>15. CASE Developer
  BY <1>15, <1>u DEF Developer, Save, ProcessInv
<1>16. CASE UNCHANGED vars
  BY <1>16, <1>u DEF vars, ProcessInv
<1> QED BY <1>1, <1>2, <1>3, <1>6, <1>7, <1>8, <1>9, <1>10, <1>11, <1>12, <1>13, <1>14, <1>15, <1>16
        DEF Next, Loop, Restarting, Ending, App, Terminal

LEMMA SignalStep == TypeOK /\ SignalInv /\ [Next]_vars => SignalInv'
<1> SUFFICES ASSUME TypeOK, SignalInv, [Next]_vars PROVE SignalInv'
  OBVIOUS
<1> USE DEF disk, locals, process, signals, ghosts, SignalInv, InitialBuild, Stopping, Final
<1>1. CASE Building
  BY <1>1 DEF Building, PlanModels0, ReadViews0, ReadViews, PlanModels, BuildReads,
              ModelsBuilt0, ViewsBuilt0, ViewsBuilt, ModelsBuilt
<1>2. CASE Watching
  BY <1>2 DEF Watching, FirstSnapshot, TickChanged, TickSettled, Ticking, Absorb
<1>3. CASE Restarting
  BY <1>3 DEF Restarting, FirstStart, Restart, Recheck, StopServer, KillGroup,
              ReapForRestart, Reap
<1>4. CASE Ending
  BY <1>4 DEF Ending, ServerExited, NilServer, StopWaiting, StopBeforeRestart, Stop,
              DeferredStop, KillGroup, DeferredReap, Reap
<1>5. CASE App
  BY <1>5 DEF App, AppCompiles, AppExits
<1>6. CASE Terminal
  BY <1>6 DEF Terminal, Interrupt, DefaultSignal, TypeOK
<1>7. CASE Developer
  BY <1>7 DEF Developer, Save
<1>8. CASE UNCHANGED vars
  BY <1>8 DEF vars
<1> QED BY <1>1, <1>2, <1>3, <1>4, <1>5, <1>6, <1>7, <1>8 DEF Next, Loop

-----------------------------------------------------------------------------
(* The views.                                                              *)

LEMMA ViewStep == TypeOK /\ ViewInv /\ [Next]_vars => ViewInv'
<1> SUFFICES ASSUME TypeOK, ViewInv, [Next]_vars PROVE ViewInv'
  OBVIOUS
<1> USE DEF disk, locals, process, signals, ghosts
<1>t. /\ ViewInputs \subseteq Sources
      /\ tree \in [Sources -> Nat] /\ reading \in [Sources -> Nat]
      /\ base \in [Sources -> Nat] /\ state.src \in [Sources -> Nat]
      /\ gen \in [ViewInputs -> Nat] /\ noticed \in [ViewInputs -> Nat]
      /\ pending \in BOOLEAN
  BY DEF TypeOK, Versions, Sources
<1>u. ASSUME UNCHANGED <<tree, gen, state, pending, noticed, base>>,
             pc' \notin {"readViews", "writeViews"},
             pc' \in BeforeStart => pc \in BeforeStart,
             pc' \in {"planModels", "applyModels", "absorb", "recheck", "stopServer", "reap", "start"}
                => ~pending
      PROVE  ViewInv'
  BY <1>u DEF ViewInv, NoticedIsOwed
<1>1. CASE PlanModels0 \/ ReadViews0 \/ PlanModels \/ ModelsBuilt0 \/ ModelsBuilt
  BY <1>1, <1>u DEF PlanModels0, ReadViews0, PlanModels, BuildReads, ModelsBuilt0, ModelsBuilt,
                    ViewInv, BeforeStart, InitialBuild
<1>2. CASE ReadViews
  BY <1>2, <1>t DEF ReadViews, BuildReads, ViewInv, NoticedIsOwed, BeforeStart, InitialBuild
<1>3. ASSUME NEW v \in ViewInputs, gen' \in WritesSome(gen, ViewInputs)
      PROVE  gen'[v] = gen[v] \/ gen'[v] = reading[v]
  BY <1>3 DEF WritesSome
<1>4. CASE ViewsBuilt
  <2>1. CASE gen' = Written(ViewInputs) /\ pending' = FALSE /\ pc' = "planModels"
    <3>1. \A v \in ViewInputs : ~(noticed[v] > gen'[v])
      BY <1>4, <1>t, <2>1 DEF ViewsBuilt, Written, ViewInv
    <3>2. UNCHANGED <<tree, state, noticed, base>>
      BY <1>4 DEF ViewsBuilt
    <3> QED BY <2>1, <3>1, <3>2 DEF ViewInv, NoticedIsOwed, BeforeStart, InitialBuild
  <2>2. CASE pc' = "wait" /\ UNCHANGED pending
    <3>1. pending
      BY <1>4 DEF ViewsBuilt, ViewInv
    <3>2. UNCHANGED <<tree, state, noticed, base>>
      BY <1>4 DEF ViewsBuilt
    <3> QED BY <2>2, <3>1, <3>2 DEF ViewInv, NoticedIsOwed, BeforeStart, InitialBuild
  <2> QED BY <1>4, <2>1, <2>2 DEF ViewsBuilt
<1>5. CASE ViewsBuilt0
  <2>1. gen' \in [ViewInputs -> Nat]
    BY <1>5, <1>t, WritesSomeType, WrittenType DEF ViewsBuilt0, Versions
  <2>2. \A v \in ViewInputs : ~(noticed[v] > gen'[v])
    BY <1>5, <2>1 DEF ViewsBuilt0, ViewInv, BeforeStart, InitialBuild
  <2>3. UNCHANGED <<tree, state, noticed, base>> /\ pc' \in {"start0", "ended"}
    BY <1>5 DEF ViewsBuilt0
  <2>4. \A v \in ViewInputs : noticed[v] = 0
    BY <1>5 DEF ViewsBuilt0, ViewInv, BeforeStart, InitialBuild
  <2> QED BY <2>2, <2>3, <2>4 DEF ViewInv, NoticedIsOwed
<1>6. CASE FirstSnapshot \/ Absorb
  <2>1. state'.src = tree /\ base' = tree /\ UNCHANGED <<tree, gen, pending, noticed>>
    BY <1>6 DEF FirstSnapshot, Absorb, snapshot
  <2>2. pc' \in {"wait", "recheck"} /\ (pc' = "recheck" => ~pending)
    BY <1>6 DEF FirstSnapshot, Absorb, ViewInv
  <2> QED BY <1>t, <2>1, <2>2 DEF ViewInv, NoticedIsOwed, BeforeStart, InitialBuild
<1>7. CASE TickChanged
  <2>1. state'.src = tree /\ pc' = "wait" /\ UNCHANGED <<tree, gen, base>>
    BY <1>7 DEF TickChanged, Ticking, snapshot
  <2>2. ASSUME NEW v \in ViewInputs
        PROVE  noticed'[v] <= tree[v] /\ (noticed'[v] > gen[v] => pending')
    <3>1. noticed'[v] = IF state.src[v] # tree[v] THEN tree[v] ELSE noticed[v]
      BY <1>7 DEF TickChanged
    <3>2. pending' <=> pending \/ viewsChanged
      BY <1>7 DEF TickChanged
    <3>3. tree[v] \in Nat /\ noticed[v] <= tree[v] /\ (noticed[v] > gen[v] => pending)
      BY <1>t, <2>2 DEF ViewInv, NoticedIsOwed
    <3>4. CASE state.src[v] # tree[v]
      BY <2>2, <3>1, <3>2, <3>3, <3>4 DEF viewsChanged
    <3>5. CASE state.src[v] = tree[v]
      BY <3>1, <3>2, <3>3, <3>5
    <3> QED BY <3>4, <3>5
  <2>3. \A f \in Sources : base[f] <= tree[f]
    BY <1>t DEF ViewInv
  <2> QED BY <1>t, <2>1, <2>2, <2>3 DEF ViewInv, NoticedIsOwed, BeforeStart, InitialBuild
<1>8. CASE TickSettled
  BY <1>8 DEF TickSettled, Ticking, ViewInv, NoticedIsOwed, BeforeStart, InitialBuild
<1>9. CASE Restarting
  <2>1. UNCHANGED <<tree, gen, state, pending, noticed, base>>
    BY <1>9 DEF Restarting, FirstStart, Restart, Recheck, StopServer, KillGroup,
                ReapForRestart, Reap
  <2>2. /\ pc' \in {"snapshot0", "ended", "wait", "stopServer", "start", "reap"}
        /\ pc' \in {"stopServer", "start", "reap"} => pc \in {"recheck", "stopServer", "reap"}
    BY <1>9 DEF Restarting, FirstStart, Restart, Recheck, StopServer, KillGroup,
                ReapForRestart, Reap
  <2> QED BY <1>u, <2>1, <2>2 DEF ViewInv, BeforeStart, InitialBuild
<1>10. CASE Ending
  <2>1. UNCHANGED <<tree, gen, state, pending, noticed, base>>
    BY <1>10 DEF Ending, ServerExited, NilServer, StopWaiting, StopBeforeRestart, Stop,
                 DeferredStop, KillGroup, DeferredReap, Reap
  <2>2. pc' \in {"exiting", "wait", "panicked", "ended", "exitReap"}
    BY <1>10 DEF Ending, ServerExited, NilServer, StopWaiting, StopBeforeRestart, Stop,
                 DeferredStop, KillGroup, DeferredReap, Reap
  <2> QED BY <1>u, <2>1, <2>2 DEF BeforeStart, InitialBuild
<1>11. CASE App \/ Interrupt
  BY <1>11 DEF App, AppCompiles, AppExits, Interrupt, ViewInv, NoticedIsOwed
<1>12. CASE DefaultSignal
  BY <1>12, <1>u DEF DefaultSignal, BeforeStart, InitialBuild
<1>13. CASE Developer
  <2>1. PICK f \in Sources : Save(f)
    BY <1>13 DEF Developer
  <2>2. \A g \in Sources : tree'[g] >= tree[g] /\ tree'[g] \in Nat
    BY <1>t, <2>1 DEF Save
  <2>3. UNCHANGED <<gen, reading, pc, state, pending, noticed, base>>
    BY <2>1 DEF Save
  <2>4. \A g \in Sources : base[g] <= state.src[g] /\ state.src[g] <= tree'[g]
    BY <1>t, <2>2 DEF ViewInv
  <2>5. \A v \in ViewInputs : noticed[v] <= tree'[v]
    BY <1>t, <2>2 DEF ViewInv
  <2> QED BY <2>3, <2>4, <2>5 DEF ViewInv, NoticedIsOwed
<1>14. CASE UNCHANGED vars
  BY <1>14 DEF vars, ViewInv, NoticedIsOwed
<1> QED BY <1>1, <1>2, <1>4, <1>5, <1>6, <1>7, <1>8, <1>9, <1>10, <1>11, <1>12, <1>13, <1>14
        DEF Next, Loop, Building, Watching, Terminal

-----------------------------------------------------------------------------
(* The edits.                                                              *)

LEMMA EditStep == TypeOK /\ ViewInv /\ EditInv /\ [Next]_vars => EditInv'
<1> SUFFICES ASSUME TypeOK, ViewInv, EditInv, [Next]_vars PROVE EditInv'
  OBVIOUS
<1> USE DEF disk, locals, process, signals, ghosts
<1>t. dirty \in BOOLEAN
  BY DEF TypeOK
<1>u. ASSUME UNCHANGED <<queries, state, dirty, base>>,
             pc' \in {"wait"} \cup Stopping \cup Final \/ ~dirty,
             pc' \in Rebuild => pc \in Rebuild,
             pc' \in Watched => pc \in Watched \/ state.queries = queries
      PROVE  EditInv'
  BY <1>u DEF EditInv
<1>1. CASE Building
  <2>1. CASE ModelsBuilt0 \/ ViewsBuilt0 \/ PlanModels0 \/ ReadViews0
    <3>1. ~dirty
      BY <2>1 DEF ModelsBuilt0, ViewsBuilt0, PlanModels0, ReadViews0, BuildReads, EditInv,
                  Stopping, Final
    <3>2. /\ UNCHANGED <<state, dirty, base>>
          /\ pc' \in {"applyModels0", "readViews0", "writeViews0", "start0", "ended"}
      BY <2>1 DEF ModelsBuilt0, ViewsBuilt0, PlanModels0, ReadViews0, BuildReads
    <3> QED BY <3>1, <3>2 DEF EditInv, Rebuild, Watched
  <2>2. CASE ReadViews \/ PlanModels
    BY <2>2, <1>u DEF ReadViews, PlanModels, BuildReads, EditInv, Rebuild, Watched, Stopping, Final
  <2>3. CASE ViewsBuilt
    BY <2>3, <1>u DEF ViewsBuilt, EditInv, Rebuild, Watched, Stopping, Final
  <2>4. CASE ModelsBuilt
    BY <2>4 DEF ModelsBuilt, EditInv, Rebuild, Watched, Stopping, Final
  <2> QED BY <1>1, <2>1, <2>2, <2>3, <2>4 DEF Building
<1>2. CASE FirstSnapshot \/ Absorb
  <2>1. ~dirty
    BY <1>2 DEF FirstSnapshot, Absorb, EditInv, Stopping, Final
  <2>2. /\ state'.queries = queries /\ UNCHANGED <<queries, dirty>>
        /\ pc' \in {"wait", "recheck"}
    BY <1>2 DEF FirstSnapshot, Absorb, snapshot
  <2> QED BY <2>1, <2>2 DEF EditInv, Rebuild
<1>3. CASE TickChanged
  <2>1. /\ pc = "wait" /\ pc' = "wait" /\ state' = snapshot /\ dirty' /\ changed
        /\ UNCHANGED <<tree, queries, base>>
    BY <1>3 DEF TickChanged, Ticking
  <2>2. state.queries = queries
    BY <2>1 DEF EditInv, Watched
  <2>3. state.src # tree
    <3>1. state = [src |-> state.src, queries |-> state.queries]
      BY DEF TypeOK
    <3> QED BY <2>1, <2>2, <3>1 DEF changed, snapshot
  <2>4. \E f \in Sources : state.src[f] # tree[f]
    BY <2>3 DEF TypeOK, Versions
  <2>5. tree # base
    <3>1. PICK f \in Sources : state.src[f] # tree[f]
      BY <2>4
    <3>2. base[f] <= state.src[f] /\ state.src[f] <= tree[f]
      BY <3>1 DEF ViewInv
    <3>3. base[f] \in Nat /\ state.src[f] \in Nat /\ tree[f] \in Nat
      BY <3>1 DEF TypeOK, Versions
    <3> QED BY <3>1, <3>2, <3>3
  <2>6. state'.src = tree /\ state'.queries = queries
    BY <2>1 DEF snapshot
  <2> QED BY <2>1, <2>5, <2>6 DEF EditInv
<1>4. CASE TickSettled
  BY <1>4 DEF TickSettled, Ticking, EditInv, Rebuild, Watched
<1>5. CASE Restarting
  <2>1. UNCHANGED <<queries, state, dirty, base>>
    BY <1>5 DEF Restarting, FirstStart, Restart, Recheck, StopServer, KillGroup,
                ReapForRestart, Reap
  <2>2. /\ pc' \in {"snapshot0", "ended", "wait", "stopServer", "start", "reap"}
        /\ pc \in {"start0", "recheck", "stopServer", "reap", "start"}
        /\ pc' \in Watched => pc \in Watched
    BY <1>5 DEF Restarting, FirstStart, Restart, Recheck, StopServer, KillGroup,
                ReapForRestart, Reap, Watched
  <2>3. ~dirty
    BY <2>2 DEF EditInv, Stopping, Final
  <2> QED BY <1>u, <2>1, <2>2, <2>3 DEF Rebuild
<1>6. CASE Ending
  <2>1. UNCHANGED <<queries, state, dirty, base>>
    BY <1>6 DEF Ending, ServerExited, NilServer, StopWaiting, StopBeforeRestart, Stop,
                DeferredStop, KillGroup, DeferredReap, Reap
  <2>2. /\ pc' \in {"wait", "exiting", "exitReap", "ended", "panicked"}
        /\ pc' = "wait" => pc = "wait"
    BY <1>6 DEF Ending, ServerExited, NilServer, StopWaiting, StopBeforeRestart, Stop,
                DeferredStop, KillGroup, DeferredReap, Reap
  <2> QED BY <1>u, <2>1, <2>2 DEF Rebuild, Watched, Stopping, Final
<1>7. CASE App \/ Interrupt \/ Developer \/ UNCHANGED vars
  <2>1. UNCHANGED <<queries, state, dirty, base, pc>>
    BY <1>7 DEF App, AppCompiles, AppExits, Interrupt, Developer, Save, vars
  <2> QED BY <2>1 DEF EditInv
<1>8. CASE DefaultSignal
  BY <1>8, <1>u DEF DefaultSignal, Rebuild, Watched, Final
<1> QED BY <1>1, <1>2, <1>3, <1>4, <1>5, <1>6, <1>7, <1>8 DEF Next, Loop, Watching, Terminal

-----------------------------------------------------------------------------
(* The inductive invariant and what follows from it.                       *)

LEMMA Inductive == IInv /\ [Next]_vars => IInv'
  BY TypeStep, ProcessStep, SignalStep, ViewStep, EditStep DEF IInv

LEMMA Invariance == Spec => []IInv
  BY InitInv, Inductive, PTL DEF Spec

(***************************************************************************)
(* At most one application runs, and a session that returned from dev      *)
(* leaves none.                                                            *)
(***************************************************************************)
THEOREM Supervision == Spec => [](OneApplication /\ NoOrphan)
<1>1. IInv => OneApplication /\ NoOrphan
  BY DEF IInv, ProcessInv, Running, OneApplication, NoOrphan
<1> QED BY <1>1, Invariance, PTL

(***************************************************************************)
(* A view change the loop reported is owed until a build that read it      *)
(* succeeds, and no restart goes behind it.                                *)
(***************************************************************************)
THEOREM NothingForgotten == Spec => [](NoticedIsOwed /\ RestartNotBehind)
<1>1. IInv => NoticedIsOwed /\ RestartNotBehind
  BY DEF IInv, ViewInv, NoticedIsOwed, RestartNotBehind, TypeOK, Versions
<1> QED BY <1>1, Invariance, PTL

(***************************************************************************)
(* Two restarts are never made for the same tree: the loop does not take   *)
(* what its own builds wrote for a change.                                 *)
(***************************************************************************)
THEOREM NoRestartForOutput == Spec => RestartHasAnEdit
<1>1. IInv /\ [Next]_vars => [pc = "absorb" /\ pc' = "recheck" => base' # base]_vars
  <2> SUFFICES ASSUME IInv, [Next]_vars, pc = "absorb", pc' = "recheck" PROVE base' # base
    OBVIOUS
  <2> USE DEF disk, locals, process, signals, ghosts
  <2>1. Absorb
    <3>1. ~(App \/ Terminal \/ Developer \/ UNCHANGED vars)
      BY DEF App, AppCompiles, AppExits, Terminal, Interrupt, DefaultSignal, Developer, Save, vars
    <3>2. ~Building /\ ~Restarting /\ ~Ending
      BY DEF Building, PlanModels0, ReadViews0, ReadViews, PlanModels, BuildReads,
             ModelsBuilt0, ViewsBuilt0, ViewsBuilt, ModelsBuilt,
             Restarting, FirstStart, Restart, Recheck, StopServer, KillGroup, ReapForRestart, Reap,
             Ending, ServerExited, NilServer, StopWaiting, StopBeforeRestart, Stop,
             DeferredStop, DeferredReap
    <3>3. ~FirstSnapshot /\ ~TickChanged /\ ~TickSettled
      BY DEF FirstSnapshot, TickChanged, TickSettled, Ticking
    <3> QED BY <3>1, <3>2, <3>3 DEF Next, Loop, Watching
  <2>2. base' = tree
    BY <2>1 DEF Absorb
  <2>3. state.src # base
    BY DEF IInv, EditInv, Rebuild
  <2>4. PICK f \in Sources : state.src[f] # base[f]
    BY <2>3 DEF IInv, TypeOK, Versions
  <2>5. base[f] <= state.src[f] /\ state.src[f] <= tree[f]
    BY <2>4 DEF IInv, ViewInv
  <2>6. base[f] \in Nat /\ state.src[f] \in Nat /\ tree[f] \in Nat
    BY <2>4 DEF IInv, TypeOK, Versions
  <2> QED BY <2>2, <2>4, <2>5, <2>6
<1> QED BY <1>1, Invariance, PTL DEF Spec, RestartHasAnEdit

-----------------------------------------------------------------------------
(* The loop implements Supervisor.                                         *)

LEMMA StepRefines == IInv /\ [Next]_vars => [Abstract!Next]_(Abstract!vars)
<1> SUFFICES ASSUME IInv, [Next]_vars PROVE [Abstract!Next]_(Abstract!vars)
  OBVIOUS
<1> USE DEF disk, locals, process, signals, ghosts
<1>t. /\ server \in Nat /\ launched \in Nat /\ armed \in BOOLEAN /\ pc \in Locations
      /\ ProcessInv /\ SignalInv
  BY DEF IInv, TypeOK
<1>s. ASSUME UNCHANGED <<alive, session>> PROVE [Abstract!Next]_(Abstract!vars)
  BY <1>s DEF Abstract!vars
<1>c. ASSUME alive = {}, alive' = {}, session \in {"open", "stopping"}, session' = "closed"
      PROVE  Abstract!Next
  BY <1>c DEF Abstract!Next, Abstract!Close
<1>1. CASE Building
  <2>1. UNCHANGED <<alive, launched>>
    BY <1>1 DEF Building, PlanModels0, ReadViews0, ReadViews, PlanModels, BuildReads,
                ModelsBuilt0, ViewsBuilt0, ViewsBuilt, ModelsBuilt
  <2>2. pc \in InitialBuild \cup Rebuild
    BY <1>1 DEF Building, PlanModels0, ReadViews0, ReadViews, PlanModels, BuildReads,
                ModelsBuilt0, ViewsBuilt0, ViewsBuilt, ModelsBuilt, InitialBuild, Rebuild
  <2>3. session = "open"
    BY <2>2 DEF session, InitialBuild, Rebuild, Stopping
  <2>4. CASE pc' = "ended"
    <3>1. pc \in InitialBuild
      BY <1>1, <2>4 DEF Building, PlanModels0, ReadViews0, ReadViews, PlanModels, BuildReads,
                  ModelsBuilt0, ViewsBuilt0, ViewsBuilt, ModelsBuilt, InitialBuild
    <3>2. alive = {}
      BY <1>t, <3>1 DEF ProcessInv, Running, BeforeStart
    <3>3. session' = "closed"
      BY <2>4 DEF session
    <3> QED BY <1>c, <2>1, <2>3, <3>2, <3>3
  <2>5. CASE pc' # "ended"
    <3>1. pc' \in {"applyModels0", "readViews0", "writeViews0", "start0", "writeViews",
                   "planModels", "wait", "applyModels", "absorb"}
      BY <1>1, <2>5 DEF Building, PlanModels0, ReadViews0, ReadViews, PlanModels, BuildReads,
                  ModelsBuilt0, ViewsBuilt0, ViewsBuilt, ModelsBuilt
    <3>2. session' = "open"
      BY <3>1 DEF session, Stopping
    <3> QED BY <1>s, <2>1, <2>3, <3>2
  <2> QED BY <2>4, <2>5
<1>2. CASE Watching \/ Recheck \/ StopServer \/ ReapForRestart
  <2>1. /\ alive' = alive
        /\ pc \notin Final \cup Stopping /\ pc' \notin Final \cup Stopping
    BY <1>2 DEF Watching, FirstSnapshot, TickChanged, TickSettled, Ticking, Absorb,
                Recheck, StopServer, KillGroup, ReapForRestart, Reap, Final, Stopping
  <2>2. session = "open" /\ session' = "open"
    BY <2>1 DEF session, Final, Stopping
  <2> QED BY <1>s, <2>1, <2>2
<1>3. CASE FirstStart \/ Restart
  <2>1. alive = {} /\ session = "open"
    BY <1>3, <1>t DEF FirstStart, Restart, ProcessInv, Running, BeforeStart, session, Stopping
  <2>2. CASE Spawn /\ pc' \in {"snapshot0", "wait"}
    <3>1. alive' = {launched + 1} /\ launched + 1 \in Nat
      BY <1>t, <2>1, <2>2 DEF Spawn
    <3>2. session' = "open"
      BY <2>2 DEF session, Stopping
    <3> QED BY <2>1, <3>1, <3>2 DEF Abstract!Next, Abstract!Launch
  <2>3. CASE SpawnFailed /\ pc' = "ended"
    BY <1>c, <2>1, <2>3 DEF SpawnFailed, session
  <2>4. CASE SpawnFailed /\ pc' = "wait"
    BY <1>s, <2>1, <2>4 DEF SpawnFailed, session, Stopping
  <2> QED BY <1>3, <2>2, <2>3, <2>4 DEF FirstStart, Restart
<1>4. CASE ServerExited
  <2>1. alive' = alive /\ armed' = armed /\ pc = "wait" /\ pc' \in {"wait", "exiting"} /\ armed
    BY <1>4, <1>t DEF ServerExited, SignalInv, InitialBuild, Stopping, Final
  <2> QED BY <1>s, <2>1 DEF session, Stopping
<1>5. CASE NilServer
  <2>1. alive = {} /\ alive' = alive /\ pc = "wait" /\ pc' = "panicked"
    BY <1>5, <1>t DEF NilServer, ProcessInv, Running
  <2> QED BY <1>c, <2>1 DEF session, Stopping
<1>6. CASE StopWaiting \/ StopBeforeRestart
  <2>1. /\ alive' = alive /\ pc \in {"wait", "recheck"} /\ pc' = "exiting" /\ ~armed'
    BY <1>6 DEF StopWaiting, StopBeforeRestart, Stop
  <2>2. session = "open" /\ session' = "stopping"
    BY <2>1 DEF session, Stopping
  <2> QED BY <2>1, <2>2 DEF Abstract!Next, Abstract!RequestStop
<1>7. CASE DeferredStop \/ DeferredReap
  <2>1. /\ alive' = alive /\ launched' = launched /\ armed' = armed
        /\ pc \in Stopping /\ pc' \in {"exitReap", "ended"}
    BY <1>7 DEF DeferredStop, KillGroup, DeferredReap, Reap, Stopping
  <2>2. pc' = "ended" => alive = {}
    BY <1>7, <1>t DEF DeferredStop, KillGroup, DeferredReap, Reap, ProcessInv, Running
  <2>3. session \in {"open", "stopping"}
    BY <2>1 DEF session, Stopping
  <2>4. CASE pc' = "ended"
    BY <1>c, <2>1, <2>2, <2>3, <2>4 DEF session
  <2>5. CASE pc' = "exitReap"
    <3>1. session' = session
      BY <2>1, <2>5 DEF session, Stopping
    <3> QED BY <1>s, <2>1, <3>1
  <2> QED BY <2>1, <2>4, <2>5
<1>8. CASE AppExits
  <2>1. UNCHANGED <<pc, launched, armed>> /\ \E p \in alive : alive' = alive \ {p}
    BY <1>8 DEF AppExits
  <2>2. session' = session
    BY <2>1 DEF session
  <2> QED BY <2>1, <2>2 DEF Abstract!Next, Abstract!Exit
<1>9. CASE DefaultSignal
  <2>1. /\ pc' = "killed" /\ ~armed /\ UNCHANGED <<alive, launched>>
        /\ pc \in InitialBuild \cup Stopping
    BY <1>9, <1>t DEF DefaultSignal, SignalInv
  <2>2. session \in {"open", "stopping"}
        /\ (pc \in Stopping => session = "stopping")
    BY <2>1 DEF session, InitialBuild, Stopping
  <2>3. launched = 0 => alive = {}
    BY <1>t DEF ProcessInv, Running
  <2>4. CASE launched = 0
    BY <1>c, <2>1, <2>2, <2>3, <2>4 DEF session
  <2>5. CASE launched # 0
    <3>1. pc \in Stopping
      BY <1>t, <2>1, <2>5 DEF ProcessInv, BeforeStart
    <3>2. session = "stopping" /\ session' = "abandoned"
      BY <2>1, <2>2, <2>5, <3>1 DEF session
    <3> QED BY <2>1, <3>2 DEF Abstract!Next, Abstract!Abandon
  <2> QED BY <2>4, <2>5
<1>10. CASE AppCompiles \/ Interrupt \/ Developer \/ UNCHANGED vars
  <2>1. UNCHANGED <<alive, pc, launched, armed>>
    BY <1>10 DEF AppCompiles, Interrupt, Developer, Save, vars
  <2> QED BY <1>s, <2>1 DEF session
<1> QED BY <1>1, <1>2, <1>3, <1>4, <1>5, <1>6, <1>7, <1>8, <1>9, <1>10
        DEF Next, Loop, Restarting, Ending, App, Terminal

(***************************************************************************)
(* `aru dev` implements Supervisor: launches only over a dead process,     *)
(* closes only over a dead process, and leaves one running only when a     *)
(* stopping session is abandoned by a second signal.                       *)
(***************************************************************************)
THEOREM Refinement == Spec => Supervises
<1>1. Init => Abstract!Init
  BY DEF Init, Abstract!Init, session, Stopping
<1> QED BY <1>1, StepRefines, Invariance, PTL DEF Spec, Supervises, Abstract!Spec

-----------------------------------------------------------------------------
(***************************************************************************)
(* `aru serve`: from the moment the views are written, their output is at  *)
(* least as new as the sources were when the command was typed.            *)
(***************************************************************************)
Since(version) == \A v \in Pages : version[v] >= invoked[v]

ServeBuilds == {"buildModels", "readViews", "writeViews"}
ServeRuns == {"wait", "exiting", "exitReap"}

ServeViews ==
    /\ sTree \in Once!Views /\ sGen \in Once!Views /\ sReading \in Once!Views
    /\ invoked \in Once!Views /\ served \in Once!Views
    /\ Since(sTree) /\ Since(sReading)
    /\ sPc \in {"start"} \cup ServeRuns \/ sServer # 0 => Since(sGen)
    /\ Once!ServesTheSave

(***************************************************************************)
(* The application is started once, and its exit is taken once.            *)
(***************************************************************************)
ServeProcess ==
    /\ sServer \in {0, 1}
    /\ sAlive = IF sServer = 1 /\ ~sDone /\ 1 \notin sExited THEN {1} ELSE {}
    /\ sExited \subseteq {1} /\ (sServer = 0 \/ sDone => sExited = {})
    /\ sServer = 0 => ~sDone
    /\ sPc \in ServeBuilds \cup {"start"} => sServer = 0
    /\ sPc \in ServeRuns => sServer = 1
    /\ sPc \in {"wait", "exitReap"} => ~sDone
    /\ sPc = "ended" => sServer = 0 \/ sDone

ServeSignals ==
    /\ sPc \in ServeBuilds \cup ServeRuns \cup {"start", "ended", "killed"}
    /\ sPc \in ServeBuilds => ~sArmed
    /\ sPc \in {"start", "wait"} => sArmed
    /\ sPc = "killed" => ~sArmed

ServeInv == ServeViews /\ ServeProcess /\ ServeSignals

LEMMA ServeStart == Once!Init => ServeInv
<1> SUFFICES ASSUME Once!Init PROVE ServeInv
  OBVIOUS
<1>1. ServeViews
  BY BoundsNat DEF Once!Init, ServeViews, Since, Once!Views, Once!ServesTheSave, ServeRuns
<1>2. ServeProcess /\ ServeSignals
  BY DEF Once!Init, ServeProcess, ServeSignals, ServeBuilds, ServeRuns
<1> QED BY <1>1, <1>2 DEF ServeInv

\* What the commands do to the files, the application and the signals.
LEMMA ServeViewsStep == ServeViews /\ ServeProcess /\ ServeSignals /\ [Once!Next]_(Once!vars) => ServeViews'
<1> SUFFICES ASSUME ServeViews, ServeProcess, ServeSignals, [Once!Next]_(Once!vars) PROVE ServeViews'
  OBVIOUS
<1> USE BoundsNat DEF ServeViews, Since, Once!Views, Once!ServesTheSave, ServeRuns, ServeBuilds
<1>k. ASSUME UNCHANGED <<sTree, sGen, sReading, invoked, served, sCompiled, sServer>>,
             sPc' \in {"start"} \cup ServeRuns => sPc \in {"start"} \cup ServeRuns
      PROVE  ServeViews'
  BY <1>k
<1>1. CASE Once!BuildModels \/ Once!DefaultSignal \/ Once!Interrupt
  BY <1>1, <1>k DEF Once!BuildModels, Once!DefaultSignal, Once!Interrupt, Once!disk, Once!app, Once!signals
<1>2. CASE Once!ReadViews
  <2>1. /\ sPc = "readViews" /\ sPc' = "writeViews" /\ sReading' = sTree
        /\ UNCHANGED <<sTree, sGen, invoked, served, sCompiled, sServer>>
    BY <1>2 DEF Once!ReadViews, Once!app, Once!signals
  <2> QED BY <2>1
<1>3. CASE Once!WriteViews
  <2>1. /\ sPc = "writeViews"
        /\ UNCHANGED <<sTree, sReading, invoked, served, sCompiled, sServer>>
    BY <1>3 DEF Once!WriteViews, Once!app
  <2>2. sServer = 0
    BY <2>1 DEF ServeProcess
  <2>3. CASE sGen' = sReading /\ sPc' = "start"
    BY <2>1, <2>3
  <2>4. CASE /\ sPc' = "ended"
             /\ \E W \in SUBSET Pages : sGen' = [v \in Pages |-> IF v \in W THEN sReading[v] ELSE sGen[v]]
    BY <2>1, <2>2, <2>4
  <2> QED BY <1>3, <2>3, <2>4 DEF Once!WriteViews
<1>4. CASE Once!Start
  <2>1. sPc = "start" /\ UNCHANGED <<sTree, sGen, sReading, invoked, served, sCompiled>>
    BY <1>4 DEF Once!Start, Once!disk
  <2> QED BY <2>1
<1>5. CASE Once!ServerExited \/ Once!Stop \/ Once!DeferredStop \/ Once!DeferredReap
  <2>1. sPc \in ServeRuns /\ UNCHANGED <<sTree, sGen, sReading, invoked, served, sCompiled, sServer>>
    BY <1>5 DEF Once!ServerExited, Once!Stop, Once!DeferredStop, Once!DeferredReap, Once!disk, Once!app
  <2> QED BY <1>k, <2>1
<1>6. CASE Once!AppCompiles
  <2>1. sAlive # {} /\ served' = sGen /\ UNCHANGED <<sTree, sGen, sReading, invoked, sPc, sServer>>
    BY <1>6 DEF Once!AppCompiles, Once!disk
  <2>2. sServer = 1
    BY <2>1 DEF ServeProcess
  <2> QED BY <2>1, <2>2
<1>7. CASE Once!AppExits \/ UNCHANGED Once!vars
  BY <1>7, <1>k DEF Once!AppExits, Once!vars, Once!disk, Once!app
<1>8. ASSUME NEW v \in Pages, Once!Save(v) PROVE ServeViews'
  <2>1. /\ sTree[v] < MaxPage /\ sTree' = [sTree EXCEPT ![v] = @ + 1]
        /\ UNCHANGED <<sGen, sReading, invoked, sPc, served, sCompiled, sServer>>
    BY <1>8 DEF Once!Save, Once!app
  <2> QED BY <2>1
<1> QED
  BY <1>1, <1>2, <1>3, <1>4, <1>5, <1>6, <1>7, <1>8 DEF Once!Next, Once!Command

LEMMA ServeProcessStep == ServeProcess /\ ServeSignals /\ [Once!Next]_(Once!vars) => ServeProcess' /\ ServeSignals'
<1> SUFFICES ASSUME ServeProcess, ServeSignals, [Once!Next]_(Once!vars) PROVE ServeProcess' /\ ServeSignals'
  OBVIOUS
<1> USE DEF ServeProcess, ServeSignals, ServeBuilds, ServeRuns
<1>k. ASSUME UNCHANGED <<sServer, sAlive, sExited, sDone>> PROVE ServeProcess' <=>
        /\ sPc' \in ServeBuilds \cup {"start"} => sServer = 0
        /\ sPc' \in ServeRuns => sServer = 1
        /\ sPc' \in {"wait", "exitReap"} => ~sDone
        /\ sPc' = "ended" => sServer = 0 \/ sDone
  BY <1>k
<1>1. CASE Once!BuildModels \/ Once!ReadViews \/ Once!WriteViews
  <2>1. /\ UNCHANGED <<sServer, sAlive, sExited, sDone>>
        /\ sPc \in ServeBuilds /\ sPc' \in ServeBuilds \cup {"start", "ended"}
    BY <1>1 DEF Once!BuildModels, Once!ReadViews, Once!WriteViews, Once!app
  <2>2. (sPc' = "start" => sArmed') /\ (sPc' # "start" => sArmed' = sArmed)
    BY <1>1 DEF Once!BuildModels, Once!ReadViews, Once!WriteViews, Once!signals
  <2>3. sServer = 0 /\ ~sArmed
    BY <2>1
  <2>4. ServeProcess'
    BY <1>k, <2>1, <2>3
  <2>5. ServeSignals'
    BY <2>1, <2>2, <2>3
  <2> QED BY <2>4, <2>5
<1>2. CASE Once!Start
  <2>1. sPc = "start" /\ UNCHANGED <<sExited, sDone, sArmed>>
    BY <1>2 DEF Once!Start, Once!signals
  <2>2. sServer = 0 /\ sExited = {} /\ ~sDone
    BY <2>1
  <2>3. CASE sServer' = 1 /\ sAlive' = {1} /\ sPc' = "wait"
    BY <2>1, <2>2, <2>3
  <2>4. CASE sPc' = "ended" /\ UNCHANGED <<sServer, sAlive>>
    BY <2>1, <2>2, <2>4
  <2> QED BY <1>2, <2>3, <2>4 DEF Once!Start
<1>3. CASE Once!ServerExited \/ Once!DeferredReap
  <2>1. /\ sServer \in sExited /\ sExited' = sExited \ {sServer} /\ sDone'
        /\ UNCHANGED <<sServer, sAlive, sArmed>>
        /\ \/ sPc = "wait" /\ sPc' = "exiting"
           \/ sPc = "exitReap" /\ sPc' = "ended"
    BY <1>3 DEF Once!ServerExited, Once!DeferredReap, Once!signals
  <2> QED BY <2>1
<1>4. CASE Once!Stop \/ Once!DeferredStop
  <2>1. /\ UNCHANGED <<sServer, sAlive, sExited, sDone>>
        /\ \/ sPc = "wait" /\ sPc' = "exiting"
           \/ sPc = "exiting" /\ sPc' = "ended" /\ sDone
           \/ sPc = "exiting" /\ sPc' = "exitReap" /\ ~sDone
    BY <1>4 DEF Once!Stop, Once!DeferredStop, Once!app
  <2> QED BY <1>k, <2>1
<1>5. CASE Once!AppExits
  <2>1. PICK p \in sAlive : sAlive' = sAlive \ {p} /\ sExited' = sExited \cup {p}
    BY <1>5 DEF Once!AppExits
  <2>2. UNCHANGED <<sPc, sServer, sDone, sArmed>>
    BY <1>5 DEF Once!AppExits, Once!signals
  <2>3. p = 1 /\ sAlive = {1} /\ sServer = 1 /\ ~sDone
    BY <2>1
  <2> QED BY <2>1, <2>2, <2>3
<1>6. CASE Once!AppCompiles \/ Once!Interrupt \/ UNCHANGED Once!vars \/ \E v \in Pages : Once!Save(v)
  <2>1. UNCHANGED <<sPc, sServer, sAlive, sExited, sDone, sArmed>>
    BY <1>6 DEF Once!AppCompiles, Once!Interrupt, Once!Save, Once!vars, Once!app, Once!signals
  <2> QED BY <2>1
<1>7. CASE Once!DefaultSignal
  <2>1. ~sArmed /\ sPc' = "killed" /\ UNCHANGED <<sServer, sAlive, sExited, sDone, sArmed>>
    BY <1>7 DEF Once!DefaultSignal, Once!app, Once!signals
  <2> QED BY <1>k, <2>1
<1> QED
  BY <1>1, <1>2, <1>3, <1>4, <1>5, <1>6, <1>7 DEF Once!Next, Once!Command

LEMMA ServeInvariance == Once!Spec => []ServeInv
<1>1. ServeInv /\ [Once!Next]_(Once!vars) => ServeInv'
  BY ServeViewsStep, ServeProcessStep DEF ServeInv
<1> QED BY <1>1, ServeStart, PTL DEF Once!Spec

\* Each step of `aru serve` is a step of the Supervisor, or none.
LEMMA ServeRefines == ServeInv /\ [Once!Next]_(Once!vars) => [Once!Abstract!Next]_(Once!Abstract!vars)
<1> SUFFICES ASSUME ServeInv, [Once!Next]_(Once!vars) PROVE [Once!Abstract!Next]_(Once!Abstract!vars)
  OBVIOUS
<1> USE DEF ServeBuilds, ServeRuns
<1>i. ServeProcess /\ ServeSignals
  BY DEF ServeInv
<1>e. sServer = 0 => sAlive = {}
  BY <1>i DEF ServeProcess
<1>s. ASSUME UNCHANGED <<sAlive, Once!session>> PROVE [Once!Abstract!Next]_(Once!Abstract!vars)
  BY <1>s DEF Once!Abstract!vars
<1>c. ASSUME sAlive = {}, sAlive' = {}, Once!session \in {"open", "stopping"}, Once!session' = "closed"
      PROVE  Once!Abstract!Next
  BY <1>c DEF Once!Abstract!Next, Once!Abstract!Close
<1>1. CASE Once!BuildModels \/ Once!ReadViews \/ Once!WriteViews
  <2>1. /\ sAlive' = sAlive /\ sPc \in ServeBuilds
        /\ sPc' \in ServeBuilds \cup {"start", "ended"}
    BY <1>1 DEF Once!BuildModels, Once!ReadViews, Once!WriteViews, Once!app
  <2>2. Once!session = "open" /\ sAlive = {}
    BY <1>i, <1>e, <2>1 DEF Once!session, ServeProcess
  <2>3. CASE sPc' = "ended"
    BY <1>c, <2>1, <2>2, <2>3 DEF Once!session
  <2>4. CASE sPc' # "ended"
    BY <1>s, <2>1, <2>2, <2>4 DEF Once!session
  <2> QED BY <2>3, <2>4
<1>2. CASE Once!Start
  <2>1. sPc = "start"
    BY <1>2 DEF Once!Start
  <2>2. Once!session = "open" /\ sAlive = {}
    BY <1>i, <1>e, <2>1 DEF Once!session, ServeProcess
  <2>3. CASE sAlive' = {1} /\ sPc' = "wait"
    <3>1. Once!session' = "open"
      BY <2>3 DEF Once!session
    <3> QED BY <2>2, <2>3, <3>1 DEF Once!Abstract!Next, Once!Abstract!Launch
  <2>4. CASE sPc' = "ended" /\ sAlive' = sAlive
    BY <1>c, <2>2, <2>4 DEF Once!session
  <2> QED BY <1>2, <2>3, <2>4 DEF Once!Start
<1>3. CASE Once!ServerExited
  <2>1. sPc = "wait" /\ sPc' = "exiting" /\ UNCHANGED <<sAlive, sArmed>>
    BY <1>3 DEF Once!ServerExited, Once!signals
  <2>2. sArmed
    BY <1>i, <2>1 DEF ServeSignals
  <2> QED BY <1>s, <2>1, <2>2 DEF Once!session
<1>4. CASE Once!Stop
  <2>1. sPc = "wait" /\ sPc' = "exiting" /\ ~sArmed' /\ sAlive' = sAlive
    BY <1>4 DEF Once!Stop, Once!app
  <2>2. Once!session = "open" /\ Once!session' = "stopping"
    BY <2>1 DEF Once!session
  <2> QED BY <2>1, <2>2 DEF Once!Abstract!Next, Once!Abstract!RequestStop
<1>5. CASE Once!DeferredStop \/ Once!DeferredReap
  <2>1. /\ UNCHANGED <<sAlive, sArmed>>
        /\ sPc \in {"exiting", "exitReap"} /\ sPc' \in {"exitReap", "ended"}
        /\ sPc' = "ended" => sDone \/ sServer \in sExited
    BY <1>5 DEF Once!DeferredStop, Once!DeferredReap, Once!signals
  <2>2. Once!session \in {"open", "stopping"}
    BY <2>1 DEF Once!session
  <2>3. CASE sPc' = "ended"
    <3>1. sAlive = {}
      BY <1>i, <2>1, <2>3 DEF ServeProcess
    <3> QED BY <1>c, <2>1, <2>2, <2>3, <3>1 DEF Once!session
  <2>4. CASE sPc' = "exitReap"
    BY <1>s, <2>1, <2>4 DEF Once!session
  <2> QED BY <2>1, <2>3, <2>4
<1>6. CASE Once!AppExits
  <2>1. UNCHANGED <<sPc, sServer, sArmed>> /\ \E p \in sAlive : sAlive' = sAlive \ {p}
    BY <1>6 DEF Once!AppExits, Once!signals
  <2>2. UNCHANGED Once!session
    BY <2>1 DEF Once!session
  <2> QED BY <2>1, <2>2 DEF Once!Abstract!Next, Once!Abstract!Exit
<1>7. CASE Once!AppCompiles \/ Once!Interrupt \/ UNCHANGED Once!vars \/ \E v \in Pages : Once!Save(v)
  <2>1. UNCHANGED <<sPc, sServer, sAlive, sArmed>>
    BY <1>7 DEF Once!AppCompiles, Once!Interrupt, Once!Save, Once!vars, Once!app, Once!signals
  <2> QED BY <1>s, <2>1 DEF Once!session
<1>8. CASE Once!DefaultSignal
  <2>1. /\ ~sArmed /\ sPc \notin {"ended", "killed"} /\ sPc' = "killed"
        /\ UNCHANGED <<sServer, sAlive>>
    BY <1>8 DEF Once!DefaultSignal, Once!app, Once!Final
  <2>2. sPc \in ServeBuilds \cup {"exiting", "exitReap"}
    BY <1>i, <2>1 DEF ServeSignals
  <2>3. CASE sPc \in ServeBuilds
    <3>1. sServer = 0 /\ Once!session = "open"
      BY <1>i, <2>3 DEF ServeProcess, Once!session
    <3>2. Once!session' = "closed"
      BY <2>1, <3>1 DEF Once!session
    <3> QED BY <1>c, <1>e, <2>1, <3>1, <3>2
  <2>4. CASE sPc \in {"exiting", "exitReap"}
    <3>1. sServer = 1 /\ Once!session = "stopping"
      BY <1>i, <2>1, <2>4 DEF ServeProcess, Once!session
    <3>2. Once!session' = "abandoned"
      BY <2>1, <3>1 DEF Once!session
    <3> QED BY <2>1, <3>1, <3>2 DEF Once!Abstract!Next, Once!Abstract!Abandon
  <2> QED BY <2>2, <2>3, <2>4
<1> QED
  BY <1>1, <1>2, <1>3, <1>4, <1>5, <1>6, <1>7, <1>8 DEF Once!Next, Once!Command

LEMMA ServeSupervises == Once!Spec => Once!Supervises
<1>1. Once!Init => Once!Abstract!Init
  BY DEF Once!Init, Once!Abstract!Init, Once!session
<1> QED BY <1>1, ServeRefines, ServeInvariance, PTL DEF Once!Spec, Once!Supervises, Once!Abstract!Spec

-----------------------------------------------------------------------------
(***************************************************************************)
(* `aru native:dev`: the window that is alive is the one running holds,    *)
(* and running is nil from the moment a restart has closed it until the    *)
(* next one is open.                                                       *)
(***************************************************************************)
WindowClosed == {"compile", "link", "open", "ended"}
WindowEnding == {"exiting", "exitWait"}

NativeInv ==
    /\ nLaunched \in Nat
    /\ nAlive \subseteq {running} \ {0}
    /\ nPc \in WindowClosed => running = 0
    /\ nPc \notin WindowEnding \cup Native!Final => nArmed

LEMMA NativeStep == NativeInv /\ [Native!Next]_(Native!vars) => NativeInv'
<1> SUFFICES ASSUME NativeInv, [Native!Next]_(Native!vars) PROVE NativeInv'
  OBVIOUS
<1> USE DEF NativeInv, WindowClosed, WindowEnding, Native!Final
<1>1. CASE Native!StartRestart \/ Native!DeferredClose
  <2>1. /\ UNCHANGED <<running, nLaunched, nAlive, nArmed>>
        /\ \/ nPc = "restart" /\ nPc' \in {"compile", "closing"}
           \/ nPc = "exiting" /\ nPc' \in {"ended", "exitWait"}
        /\ nPc' \in {"compile", "ended"} => running = 0
    BY <1>1 DEF Native!StartRestart, Native!DeferredClose, Native!CloseWindow, Native!signals
  <2> QED BY <2>1
<1>2. CASE Native!Closed \/ Native!DeferredClosed
  <2>1. /\ running \notin nAlive /\ running' = 0 /\ UNCHANGED <<nLaunched, nAlive, nArmed>>
        /\ \/ nPc = "closing" /\ nPc' = "compile"
           \/ nPc = "exitWait" /\ nPc' = "ended"
    BY <1>2 DEF Native!Closed, Native!DeferredClosed, Native!WindowGone, Native!signals
  <2> QED BY <2>1
<1>3. CASE Native!Compile \/ Native!Link
  <2>1. /\ UNCHANGED <<running, nLaunched, nAlive, nArmed>>
        /\ nPc \in {"compile", "link"} /\ nPc' \in {"link", "open", "wait", "snapshot"}
    BY <1>3 DEF Native!Compile, Native!Link, Native!BackFromRestart, Native!window, Native!signals
  <2> QED BY <2>1
<1>4. CASE Native!OpenWindow
  <2>1. nPc = "open" /\ nPc' \in {"wait", "snapshot"} /\ nArmed' = nArmed
    BY <1>4 DEF Native!OpenWindow, Native!BackFromRestart, Native!signals
  <2>2. CASE /\ nLaunched' = nLaunched + 1 /\ running' = nLaunched + 1
             /\ nAlive' = nAlive \cup {nLaunched + 1}
    BY <2>1, <2>2
  <2>3. CASE UNCHANGED <<nLaunched, running, nAlive>>
    BY <2>1, <2>3
  <2> QED BY <1>4, <2>2, <2>3 DEF Native!OpenWindow
<1>5. CASE Native!FirstSnapshot \/ Native!TickChanged \/ Native!TickSettled
  <2>1. /\ UNCHANGED <<running, nLaunched, nAlive, nArmed>>
        /\ nPc \in {"snapshot", "wait"} /\ nPc' \in {"wait", "restart"}
    BY <1>5 DEF Native!FirstSnapshot, Native!TickChanged, Native!TickSettled, Native!window, Native!signals
  <2> QED BY <2>1
<1>6. CASE Native!Stop
  <2>1. UNCHANGED <<running, nLaunched, nAlive>> /\ nPc' = "exiting"
    BY <1>6 DEF Native!Stop, Native!window
  <2> QED BY <2>1
<1>7. CASE Native!WindowExits \/ Native!Interrupt \/ Native!Save \/ UNCHANGED Native!vars
  <2>1. UNCHANGED <<nPc, running, nLaunched, nArmed>> /\ nAlive' \subseteq nAlive
    BY <1>7 DEF Native!WindowExits, Native!Interrupt, Native!Save, Native!vars, Native!window, Native!signals
  <2> QED BY <2>1
<1>8. CASE Native!DefaultSignal
  <2>1. UNCHANGED <<running, nLaunched, nAlive>> /\ nPc' = "killed"
    BY <1>8 DEF Native!DefaultSignal, Native!window
  <2> QED BY <2>1
<1> QED
  BY <1>1, <1>2, <1>3, <1>4, <1>5, <1>6, <1>7, <1>8 DEF Native!Next, Native!Loop

LEMMA NativeInvariance == Native!Spec => []NativeInv
<1>1. Native!Init => NativeInv
  BY DEF Native!Init, NativeInv, WindowClosed
<1> QED BY <1>1, NativeStep, PTL DEF Native!Spec

\* Each step of `aru native:dev` is a step of the Supervisor, or none.
LEMMA NativeRefines == NativeInv /\ [Native!Next]_(Native!vars) => [Native!Abstract!Next]_(Native!Abstract!vars)
<1> SUFFICES ASSUME NativeInv, [Native!Next]_(Native!vars)
             PROVE  [Native!Abstract!Next]_(Native!Abstract!vars)
  OBVIOUS
<1>s. ASSUME UNCHANGED <<nAlive, Native!session>> PROVE [Native!Abstract!Next]_(Native!Abstract!vars)
  BY <1>s DEF Native!Abstract!vars
<1>1. CASE \/ Native!StartRestart \/ Native!Closed \/ Native!Compile \/ Native!Link
           \/ Native!FirstSnapshot \/ Native!TickChanged \/ Native!TickSettled
  <2>1. /\ nPc \notin WindowEnding \cup Native!Final /\ nPc' \notin WindowEnding \cup Native!Final
        /\ nAlive' = nAlive
    BY <1>1 DEF Native!StartRestart, Native!CloseWindow, Native!Closed, Native!WindowGone, Native!Compile,
                Native!Link, Native!BackFromRestart, Native!FirstSnapshot, Native!TickChanged,
                Native!TickSettled, Native!window, WindowEnding, Native!Final
  <2> QED BY <1>s, <2>1 DEF Native!session, WindowEnding, Native!Final
<1>2. CASE Native!OpenWindow
  <2>1. nPc = "open" /\ nPc' \in {"wait", "snapshot"} /\ nAlive = {} /\ nLaunched + 1 \in Nat
    BY <1>2 DEF Native!OpenWindow, Native!BackFromRestart, NativeInv, WindowClosed
  <2>2. Native!session = "open" /\ Native!session' = "open"
    BY <2>1 DEF Native!session
  <2>3. CASE nAlive' = nAlive \cup {nLaunched + 1}
    <3>1. nAlive' = {nLaunched + 1}
      BY <2>1, <2>3
    <3> QED BY <2>1, <2>2, <3>1 DEF Native!Abstract!Next, Native!Abstract!Launch
  <2>4. CASE nAlive' = nAlive
    BY <1>s, <2>2, <2>4
  <2> QED BY <1>2, <2>3, <2>4 DEF Native!OpenWindow
<1>3. CASE Native!Stop
  <2>1. nPc = "wait" /\ nPc' = "exiting" /\ nAlive' = nAlive
    BY <1>3 DEF Native!Stop, Native!window
  <2>2. Native!session = "open" /\ Native!session' = "stopping"
    BY <2>1 DEF Native!session
  <2> QED BY <2>1, <2>2 DEF Native!Abstract!Next, Native!Abstract!RequestStop
<1>4. CASE Native!DeferredClose \/ Native!DeferredClosed
  <2>1. /\ nAlive' = nAlive /\ nPc \in WindowEnding /\ nPc' \in {"exitWait", "ended"}
        /\ nPc' = "ended" => running = 0 \/ running \notin nAlive
    BY <1>4 DEF Native!DeferredClose, Native!CloseWindow, Native!DeferredClosed, Native!WindowGone, WindowEnding
  <2>2. Native!session = "stopping"
    BY <2>1 DEF Native!session, WindowEnding
  <2>3. CASE nPc' = "ended"
    <3>1. nAlive = {}
      BY <2>1, <2>3 DEF NativeInv
    <3>2. Native!session' = "closed"
      BY <2>3 DEF Native!session
    <3> QED BY <2>1, <2>2, <3>1, <3>2 DEF Native!Abstract!Next, Native!Abstract!Close
  <2>4. CASE nPc' = "exitWait"
    BY <1>s, <2>1, <2>2, <2>4 DEF Native!session
  <2> QED BY <2>1, <2>3, <2>4
<1>5. CASE Native!WindowExits
  <2>1. nPc' = nPc /\ \E w \in nAlive : nAlive' = nAlive \ {w}
    BY <1>5 DEF Native!WindowExits
  <2>2. UNCHANGED Native!session
    BY <2>1 DEF Native!session
  <2> QED BY <2>1, <2>2 DEF Native!Abstract!Next, Native!Abstract!Exit
<1>6. CASE Native!DefaultSignal
  <2>1. ~nArmed /\ nPc \notin Native!Final /\ nPc' = "killed" /\ nAlive' = nAlive
    BY <1>6 DEF Native!DefaultSignal, Native!window
  <2>2. nPc \in WindowEnding
    BY <2>1 DEF NativeInv
  <2>3. Native!session = "stopping" /\ Native!session' = "abandoned"
    BY <2>1, <2>2 DEF Native!session, WindowEnding
  <2> QED BY <2>1, <2>3 DEF Native!Abstract!Next, Native!Abstract!Abandon
<1>7. CASE Native!Interrupt \/ Native!Save \/ UNCHANGED Native!vars
  <2>1. UNCHANGED <<nPc, nAlive>>
    BY <1>7 DEF Native!Interrupt, Native!Save, Native!vars, Native!window
  <2> QED BY <1>s, <2>1 DEF Native!session
<1> QED
  BY <1>1, <1>2, <1>3, <1>4, <1>5, <1>6, <1>7 DEF Native!Next, Native!Loop

LEMMA NativeSupervises == Native!Spec => Native!Supervises
<1>1. Native!Init => Native!Abstract!Init
  BY DEF Native!Init, Native!Abstract!Init, Native!session
<1> QED BY <1>1, NativeRefines, NativeInvariance, PTL DEF Native!Spec, Native!Supervises, Native!Abstract!Spec

-----------------------------------------------------------------------------
(* What is typed is one of the three, and the other two stand still.       *)

LEMMA EachIsACommand == LauncherSpec => Spec /\ Once!Spec /\ Native!Spec
<1>1. LauncherInit => Init /\ Once!Init /\ Native!Init
  BY DEF LauncherInit
<1>2. [LauncherNext]_all => [Next]_vars /\ [Once!Next]_(Once!vars) /\ [Native!Next]_(Native!vars)
  <2>1. CASE Watches(Next)
    BY <2>1 DEF Watches, serve, native, Once!vars, Once!disk, Once!app, Once!signals,
                Native!vars, Native!disk, Native!locals, Native!window, Native!signals
  <2>2. CASE Serves(Once!Next)
    BY <2>2 DEF Serves, native, vars, Native!vars, Native!disk, Native!locals, Native!window, Native!signals
  <2>3. CASE Shows(Native!Next)
    BY <2>3 DEF Shows, serve, vars, Once!vars, Once!disk, Once!app, Once!signals
  <2>4. CASE UNCHANGED all
    BY <2>4 DEF all, serve, native, vars, Once!vars, Once!disk, Once!app, Once!signals,
                Native!vars, Native!disk, Native!locals, Native!window, Native!signals
  <2> QED BY <2>1, <2>2, <2>3, <2>4 DEF LauncherNext
<1> QED BY <1>1, <1>2, PTL DEF LauncherSpec, Spec, Once!Spec, Native!Spec

(***************************************************************************)
(* What `aru serve` serves was compiled from views no older than the ones  *)
(* on disk when it was typed, for any views and any saves.                 *)
(***************************************************************************)
THEOREM ServedIsCurrent == LauncherSpec => []ServesTheSave
<1>1. ServeInv => ServesTheSave
  BY DEF ServeInv, ServeViews, ServesTheSave
<1> QED BY <1>1, EachIsACommand, ServeInvariance, PTL

(***************************************************************************)
(* The compiler of `aru native:dev` never writes the program of a window   *)
(* that is still there: a restart waits for the window it closed.          *)
(***************************************************************************)
THEOREM NeverOverwritesARunningWindow == LauncherSpec => []BinaryNotInUse
<1>1. NativeInv => BinaryNotInUse
  BY DEF NativeInv, WindowClosed, BinaryNotInUse, Native!BinaryNotInUse
<1> QED BY <1>1, EachIsACommand, NativeInvariance, PTL

(***************************************************************************)
(* Each of the three commands implements Supervisor: one program at a      *)
(* time, the next only over a dead one, and none after the command         *)
(* returned, unless a second signal abandoned it.                          *)
(***************************************************************************)
THEOREM AllSupervise == LauncherSpec => EveryoneSupervises
  BY EachIsACommand, Refinement, ServeSupervises, NativeSupervises, PTL
  DEF EveryoneSupervises, OthersSupervise
=============================================================================
