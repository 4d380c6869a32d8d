----------------------------- MODULE BuildCache -----------------------------
(***************************************************************************)
(* The trim of the build cache (internal/buildcache/buildcache.go), run by *)
(* every command that is about to start the Go toolchain, while the builds *)
(* of the other commands read and write the outputs it removes.            *)
(*                                                                         *)
(* A file's modification time is `used`; `touched` is when a build really  *)
(* last read it, which the toolchain records at most once per Refresh.     *)
(* Everything in the cache that is not an output is Overhead.              *)
(***************************************************************************)
EXTENDS Integers, FiniteSets

CONSTANTS
    Commands, Outputs, Size, Overhead,
    Ceiling, LowWater, RecentUse, MeasureEvery, Refresh,
    Start0, MaxTime          \* bounds: the first and the last instant

ASSUME Finite == IsFiniteSet(Outputs)
ASSUME Sizes == Size \in [Outputs -> Nat \ {0}] /\ Overhead \in Nat
ASSUME Limits == LowWater \in Nat /\ Ceiling \in Nat /\ LowWater < Ceiling
ASSUME Times == {RecentUse, MeasureEvery, Refresh, Start0, MaxTime} \subseteq Nat \ {0}

Never == 0
Time == 1 .. MaxTime
Measure == [output : Outputs, used : Time]

VARIABLES
    clock,
    onDisk, used, touched,       \* the outputs
    stamp,                       \* the time of the stamp file, Never without one
    pc, now,                     \* each command, and the time it read in Env
    unwalked, todo, total,       \* its walk, and what trim sorts and subtracts from
    victim,                      \* the output unusedSince answered for
    checked,                     \* when unusedSince last answered
    stuck                        \* the outputs whose removal failed

cache == <<onDisk, used, touched>>
locals == <<now, unwalked, todo, total, victim, checked, stuck>>
vars == <<clock, cache, stamp, pc, locals>>

\* What a set of outputs takes, counted unit by unit.
Units(S) == UNION {{o} \X (1 .. Size[o]) : o \in S}
Sum(S) == Cardinality(Units(S))

TypeOK ==
    /\ clock \in Time
    /\ onDisk \subseteq Outputs
    /\ used \in [Outputs -> Time] /\ touched \in [Outputs -> Time]
    /\ stamp \in Time \cup {Never}
    /\ pc \in [Commands -> {"idle", "stat", "stamp", "walk", "loop", "remove"}]
    /\ now \in [Commands -> Time] /\ checked \in [Commands -> Time]
    /\ unwalked \in [Commands -> SUBSET Outputs]
    /\ todo \in [Commands -> SUBSET Measure]
    /\ victim \in [Commands -> SUBSET Measure]
    /\ total \in [Commands -> Nat]
    /\ stuck \in [Commands -> SUBSET Outputs]

\* The cache and its stamp are what earlier commands, and a clock that was wrong
\* once, left.
Init ==
    /\ clock = Start0
    /\ onDisk \in SUBSET Outputs
    /\ used \in [Outputs -> 1 .. Start0] /\ touched = used
    /\ stamp \in Time \cup {Never}
    /\ pc = [c \in Commands |-> "idle"]
    /\ now = [c \in Commands |-> Start0] /\ checked = now
    /\ unwalked = [c \in Commands |-> {}]
    /\ todo = [c \in Commands |-> {}]
    /\ victim = [c \in Commands |-> {}]
    /\ total = [c \in Commands |-> 0]
    /\ stuck = [c \in Commands |-> {}]

Goto(c, from, to) == pc[c] = from /\ pc' = [pc EXCEPT ![c] = to]

-----------------------------------------------------------------------------
(* One command: Env, trim, measure.                                        *)

\* Env reads the clock before anything else.
Env(c) ==
    /\ Goto(c, "idle", "stat")
    /\ now' = [now EXCEPT ![c] = clock]
    /\ unwalked' = [unwalked EXCEPT ![c] = {}]
    /\ todo' = [todo EXCEPT ![c] = {}]
    /\ stuck' = [stuck EXCEPT ![c] = {}]
    /\ victim' = [victim EXCEPT ![c] = {}]
    /\ total' = [total EXCEPT ![c] = 0]
    /\ checked' = [checked EXCEPT ![c] = clock]
    /\ UNCHANGED <<clock, cache, stamp>>

\* A stamp from the future by MeasureEvery or more is not trusted.
MeasuredRecently(c) ==
    /\ stamp # Never
    /\ now[c] - stamp < MeasureEvery /\ now[c] - stamp > -MeasureEvery

Skip(c) ==
    /\ Goto(c, "stat", "idle")
    /\ MeasuredRecently(c) \/ onDisk = {}     \* or the directory does not exist
    /\ UNCHANGED <<clock, cache, stamp, locals>>

Due(c) ==
    /\ Goto(c, "stat", "stamp")
    /\ ~MeasuredRecently(c)
    /\ UNCHANGED <<clock, cache, stamp, locals>>

\* The stamp is written before the walk; a stamp that cannot be written is not
\* an error.
WriteStamp(c) ==
    /\ Goto(c, "stamp", "walk")
    /\ stamp' \in {now[c], stamp}
    /\ unwalked' = [unwalked EXCEPT ![c] = Outputs]
    /\ total' = [total EXCEPT ![c] = Overhead]
    /\ UNCHANGED <<clock, cache, now, todo, victim, checked, stuck>>

\* The walk reaches one output, and finds it or not.
Walk(c) ==
    /\ pc[c] = "walk"
    /\ \E o \in unwalked[c] :
        /\ unwalked' = [unwalked EXCEPT ![c] = @ \ {o}]
        /\ IF o \in onDisk
           THEN /\ todo' = [todo EXCEPT ![c] = @ \cup {[output |-> o, used |-> used[o]]}]
                /\ total' = [total EXCEPT ![c] = @ + Size[o]]
           ELSE UNCHANGED <<todo, total>>
    /\ UNCHANGED <<clock, cache, stamp, pc, now, victim, checked, stuck>>

Measured(c) ==
    /\ unwalked[c] = {}
    /\ Goto(c, "walk", IF total[c] < Ceiling THEN "idle" ELSE "loop")
    /\ UNCHANGED <<clock, cache, stamp, locals>>

-----------------------------------------------------------------------------
(* The removal loop, oldest use first.                                     *)

\* Mutant: in the order of the walk.
InWalkOrder(c) == todo[c]

\* The head of the sorted slice: no output left in it is older.
Oldest(c) == {m \in todo[c] : \A n \in todo[c] : m.used <= n.used}

TooRecent(c, m) == now[c] - m.used < RecentUse

Break(c) ==
    /\ Goto(c, "loop", "idle")
    /\ \/ todo[c] = {}
       \/ total[c] <= LowWater
       \/ \E m \in Oldest(c) : TooRecent(c, m)
    /\ UNCHANGED <<clock, cache, stamp, locals>>

\* Mutant: an output that is still there is taken to be unused.
StillThere(m) == m.output \in onDisk

UnusedSince(m) == m.output \in onDisk /\ used[m.output] <= m.used

\* The stat in unusedSince.  The removal is the next call, but not the same one.
Check(c) ==
    /\ pc[c] = "loop" /\ total[c] > LowWater
    /\ \E m \in Oldest(c) :
        /\ ~TooRecent(c, m)
        /\ todo' = [todo EXCEPT ![c] = @ \ {m}]
        /\ IF UnusedSince(m)
           THEN /\ pc' = [pc EXCEPT ![c] = "remove"]
                /\ victim' = [victim EXCEPT ![c] = {m}]
           ELSE UNCHANGED <<pc, victim>>
    /\ checked' = [checked EXCEPT ![c] = clock]
    /\ UNCHANGED <<clock, cache, stamp, now, unwalked, total, stuck>>

\* Mutant: what could not be removed is subtracted as well.
RemoveOptimist(c) ==
    /\ Goto(c, "remove", "loop")
    /\ \E m \in victim[c] :
        /\ total' = [total EXCEPT ![c] = @ - Size[m.output]]
        /\ \/ onDisk' = onDisk \ {m.output} /\ UNCHANGED stuck
           \/ /\ stuck' = [stuck EXCEPT ![c] = @ \cup {m.output}]
              /\ UNCHANGED onDisk
    /\ victim' = [victim EXCEPT ![c] = {}]
    /\ UNCHANGED <<clock, used, touched, stamp, now, unwalked, todo, checked>>

\* os.Remove, which fails on an output another command removed, or for any
\* other reason the file system has; os.RemoveAll is silent about an absent one.
Remove(c) ==
    /\ Goto(c, "remove", "loop")
    /\ \E m \in victim[c] :
        \/ /\ onDisk' = onDisk \ {m.output}
           /\ total' = [total EXCEPT ![c] = @ - Size[m.output]]
           /\ UNCHANGED stuck
        \/ /\ stuck' = [stuck EXCEPT ![c] = @ \cup {m.output}]
           /\ UNCHANGED <<onDisk, total>>
    /\ victim' = [victim EXCEPT ![c] = {}]
    /\ UNCHANGED <<clock, used, touched, stamp, now, unwalked, todo, checked>>

Trim(c) == \/ Env(c) \/ Skip(c) \/ Due(c) \/ WriteStamp(c) \/ Walk(c)
           \/ Measured(c) \/ Break(c) \/ Check(c) \/ Remove(c)

\* The command is interrupted; what it removed and stamped stays.
Interrupted(c) ==
    /\ pc[c] # "idle"
    /\ pc' = [pc EXCEPT ![c] = "idle"]
    /\ UNCHANGED <<clock, cache, stamp, locals>>

-----------------------------------------------------------------------------
(* The Go toolchain, running for any command.                              *)

\* A miss: the package is compiled again and its output written.
Compile(o) ==
    /\ o \notin onDisk
    /\ onDisk' = onDisk \cup {o}
    /\ used' = [used EXCEPT ![o] = clock]
    /\ touched' = [touched EXCEPT ![o] = clock]
    /\ UNCHANGED <<clock, stamp, pc, locals>>

\* A hit: the time is refreshed, unless it was less than Refresh ago.
Read(o) ==
    /\ o \in onDisk
    /\ touched' = [touched EXCEPT ![o] = clock]
    /\ used' = [used EXCEPT ![o] = IF clock - @ >= Refresh THEN clock ELSE @]
    /\ UNCHANGED <<clock, onDisk, stamp, pc, locals>>

Tick ==
    /\ clock < MaxTime
    /\ clock' = clock + 1
    /\ UNCHANGED <<cache, stamp, pc, locals>>

Next ==
    \/ \E c \in Commands : Trim(c) \/ Interrupted(c)
    \/ \E o \in Outputs : Compile(o) \/ Read(o)
    \/ Tick

Spec == Init /\ [][Next]_vars

-----------------------------------------------------------------------------
Removes(c, o) == pc[c] = "remove" /\ pc'[c] = "loop" /\ o \in onDisk \ onDisk'
OldOnDisk(c) == {o \in onDisk : now[c] - used[o] >= RecentUse}

\* An output whose time is recent is kept, unless a build refreshed it in the
\* instant between the stat of unusedSince and the removal.
KeepsRecent ==
    [][\A c \in Commands, o \in Outputs :
        Removes(c, o) /\ now[c] - used[o] < RecentUse => used[o] >= checked[c]]_vars

\* Least recently used first, of the disk itself and not of a listing of it: an
\* output is removed only when none of those left, but the ones the file system
\* would not let this command remove, has an older time.
OldestFirst ==
    [][\A c \in Commands, o \in Outputs :
        Removes(c, o) /\ used[o] < checked[c]
        => \A p \in onDisk \ stuck[c] : used[o] <= used[p]]_vars

\* A command alone in the cache takes it no lower than it must: what is on disk
\* is above LowWater before every removal, whatever was compiled during the walk.
StopsAtLowWater ==
    [][\A c \in Commands, o \in Outputs :
        Removes(c, o) => Overhead + Sum(onDisk) > LowWater]_vars

\* A command that ran the loop to its end leaves nothing old that does not fit
\* below LowWater, except what the file system would not let it remove.
LeavesRoom ==
    [][\A c \in Commands :
        Break(c) => \/ OldOnDisk(c) \subseteq stuck[c]
                    \/ Overhead + Sum(OldOnDisk(c)) <= LowWater]_vars

\* The trim ends between the two: no lower than it must, no higher than it can
\* (trim's two conditions).
MakesRoom == StopsAtLowWater /\ LeavesRoom

\* "Two outputs are never removed: one used within recentUse" (buildcache.go:208),
\* of the uses at an instant before the one at which the command asked, which leaves
\* out a read between the stat and the removal.
UsedWithinRecentUseIsKept ==
    [][\A c \in Commands, o \in Outputs :
        Removes(c, o) /\ touched[o] < now[c] => now[c] - touched[o] >= RecentUse]_vars
=============================================================================
