-------------------------- MODULE BuildCacheProofs --------------------------
(***************************************************************************)
(* What a trim removes, for every number of commands, outputs and limits:  *)
(* KeepsRecent, OldestFirst and MakesRoom of BuildCache.                   *)
(***************************************************************************)
EXTENDS BuildCache, FiniteSetTheorems, TLAPS

\* What the arguments below need of the types; a trim's totals play no part.
Types ==
    /\ clock \in Nat
    /\ onDisk \subseteq Outputs
    /\ used \in [Outputs -> Nat]
    /\ pc \in [Commands -> {"idle", "stat", "stamp", "walk", "loop", "remove"}]
    /\ now \in [Commands -> Nat] /\ checked \in [Commands -> Nat]
    /\ unwalked \in [Commands -> SUBSET Outputs]
    /\ todo \in [Commands -> SUBSET [output : Outputs, used : Nat]]
    /\ victim \in [Commands -> SUBSET [output : Outputs, used : Nat]]
    /\ stuck \in [Commands -> SUBSET Outputs]

\* Nothing was read or written after the present.
Past ==
    /\ \A o \in Outputs : used[o] <= clock
    /\ \A c \in Commands : now[c] <= clock /\ checked[c] <= clock

\* Between unusedSince and the removal: one output, old when it was measured,
\* older than the rest of the list, and refreshed since at most after the stat.
VictimInv ==
    \A c \in Commands :
        /\ pc[c] \in {"stat", "stamp", "walk", "loop"} => victim[c] = {}
        /\ pc[c] = "remove" =>
            \A m \in victim[c] :
                /\ now[c] - m.used >= RecentUse
                /\ used[m.output] <= m.used \/ used[m.output] >= checked[c]
                /\ \A n \in todo[c] : m.used <= n.used
                /\ victim[c] = {m}

\* An output that is old on disk is on the list with the time it has, or still
\* to be walked, or could not be removed: none is lost from sight.
SeenInv ==
    \A c \in Commands : \A p \in onDisk \ stuck[c] :
        now[c] - used[p] >= RecentUse =>
            \/ pc[c] \in {"idle", "stat", "stamp"}
            \/ pc[c] = "walk" /\ p \in unwalked[c]
            \/ [output |-> p, used |-> used[p]] \in todo[c] \cup victim[c]

IInv == Types /\ Past /\ VictimInv /\ SeenInv

USE Times

LEMMA Start == Init => IInv
  <1>1. SUFFICES ASSUME Init PROVE IInv
    OBVIOUS
  <1>2. Types
    BY <1>1 DEF Init, Types, Time
  <1>3. Past /\ VictimInv /\ SeenInv
    BY <1>1 DEF Init, Past, VictimInv, SeenInv, Time
  <1> QED BY <1>2, <1>3 DEF IInv

USE DEF cache, locals

\* The steps that only move a command: what Goto leaves of the invariant.
LEMMA Moves ==
  ASSUME IInv, NEW c \in Commands,
         Skip(c) \/ Due(c) \/ Measured(c) \/ Break(c) \/ Interrupted(c)
  PROVE  IInv'
  <1>1. UNCHANGED <<clock, onDisk, used, now, unwalked, todo, victim, checked, stuck>>
    BY DEF Skip, Due, Measured, Break, Interrupted
  <1>2. PICK to \in {"idle", "stamp", "loop"} :
           /\ pc' = [pc EXCEPT ![c] = to]
           /\ to = "loop" => pc[c] = "walk" /\ unwalked[c] = {}
           /\ to = "stamp" => pc[c] = "stat"
    BY DEF Skip, Due, Measured, Break, Interrupted, Goto
  <1>3. Types'
    BY <1>1, <1>2 DEF IInv, Types
  <1>4. Past'
    BY <1>1 DEF IInv, Past
  <1>5. VictimInv'
    BY <1>1, <1>2 DEF IInv, Types, VictimInv
  <1>6. SeenInv'
    BY <1>1, <1>2 DEF IInv, Types, SeenInv
  <1> QED BY <1>3, <1>4, <1>5, <1>6 DEF IInv

LEMMA Starts ==
  ASSUME IInv, NEW c \in Commands, Env(c) \/ WriteStamp(c)
  PROVE  IInv'
  <1>1. CASE Env(c)
    <2>1. Types'
      BY <1>1 DEF IInv, Types, Env, Goto
    <2>2. Past'
      BY <1>1 DEF IInv, Types, Past, Env, Goto
    <2>3. VictimInv'
      BY <1>1 DEF IInv, Types, VictimInv, Env, Goto
    <2>4. /\ pc'[c] = "stat" /\ \A d \in Commands \ {c} : pc'[d] = pc[d] /\ now'[d] = now[d]
          /\ \A d \in Commands \ {c} : unwalked'[d] = unwalked[d] /\ stuck'[d] = stuck[d]
          /\ \A d \in Commands \ {c} : todo'[d] = todo[d] /\ victim'[d] = victim[d]
          /\ UNCHANGED <<onDisk, used>>
      BY <1>1 DEF IInv, Types, Env, Goto
    <2>5. SeenInv'
      BY <2>4 DEF IInv, SeenInv
    <2> QED BY <2>1, <2>2, <2>3, <2>5 DEF IInv
  <1>2. CASE WriteStamp(c)
    <2>1. Types'
      BY <1>2 DEF IInv, Types, WriteStamp, Goto
    <2>2. Past'
      BY <1>2 DEF IInv, Types, Past, WriteStamp, Goto
    <2>3. VictimInv'
      BY <1>2 DEF IInv, Types, VictimInv, WriteStamp, Goto
    <2>4. SeenInv'
      BY <1>2 DEF IInv, Types, SeenInv, WriteStamp, Goto
    <2> QED BY <2>1, <2>2, <2>3, <2>4 DEF IInv
  <1> QED BY <1>1, <1>2

LEMMA Walks ==
  ASSUME IInv, NEW c \in Commands, Walk(c)
  PROVE  IInv'
  <1>1. PICK o \in unwalked[c] :
           /\ unwalked' = [unwalked EXCEPT ![c] = @ \ {o}]
           /\ IF o \in onDisk
              THEN todo' = [todo EXCEPT ![c] = @ \cup {[output |-> o, used |-> used[o]]}]
              ELSE todo' = todo
    BY DEF Walk
  <1>2. /\ pc[c] = "walk" /\ victim[c] = {}
        /\ UNCHANGED <<clock, onDisk, used, pc, now, victim, checked, stuck>>
    BY DEF Walk, IInv, VictimInv
  <1>3. o \in Outputs
    BY <1>1 DEF IInv, Types
  <1>4. Types'
    BY <1>1, <1>2, <1>3 DEF IInv, Types
  <1>5. Past'
    BY <1>2 DEF IInv, Past
  <1>6. VictimInv'
    BY <1>1, <1>2 DEF IInv, Types, VictimInv
  <1>7. SeenInv'
    BY <1>1, <1>2 DEF IInv, Types, SeenInv
  <1> QED BY <1>4, <1>5, <1>6, <1>7 DEF IInv

LEMMA Checks ==
  ASSUME IInv, NEW c \in Commands, Check(c)
  PROVE  IInv'
  <1>0. PICK m \in Oldest(c) :
           /\ ~TooRecent(c, m)
           /\ todo' = [todo EXCEPT ![c] = @ \ {m}]
           /\ IF UnusedSince(m)
              THEN /\ pc' = [pc EXCEPT ![c] = "remove"]
                   /\ victim' = [victim EXCEPT ![c] = {m}]
              ELSE UNCHANGED <<pc, victim>>
    BY DEF Check
  <1>1. /\ m \in todo[c] /\ \A n \in todo[c] : m.used <= n.used
        /\ now[c] - m.used >= RecentUse
        /\ todo' = [todo EXCEPT ![c] = @ \ {m}]
        /\ \/ /\ m.output \in onDisk /\ used[m.output] <= m.used
              /\ pc' = [pc EXCEPT ![c] = "remove"]
              /\ victim' = [victim EXCEPT ![c] = {m}]
           \/ /\ ~(m.output \in onDisk /\ used[m.output] <= m.used)
              /\ UNCHANGED <<pc, victim>>
    <2>1. m \in todo[c] /\ \A n \in todo[c] : m.used <= n.used
      BY <1>0 DEF Oldest
    <2>2. m.used \in Nat /\ now[c] \in Nat
      BY <2>1 DEF IInv, Types
    <2>3. now[c] - m.used >= RecentUse
      BY <1>0, <2>2 DEF TooRecent
    <2> QED BY <1>0, <2>1, <2>3 DEF UnusedSince
  <1>2. /\ pc[c] = "loop" /\ victim[c] = {}
        /\ checked' = [checked EXCEPT ![c] = clock]
        /\ UNCHANGED <<clock, onDisk, used, now, unwalked, stuck>>
    BY DEF Check, IInv, VictimInv
  <1>3. m \in [output : Outputs, used : Nat]
    BY <1>1 DEF IInv, Types
  <1>4. Types'
    BY <1>1, <1>2, <1>3 DEF IInv, Types
  <1>5. Past'
    BY <1>2 DEF IInv, Types, Past
  <1>6. VictimInv'
    BY <1>1, <1>2, <1>3 DEF IInv, Types, VictimInv
  <1>7. SeenInv'
    <2>1. SUFFICES ASSUME NEW d \in Commands, NEW p \in onDisk \ stuck[d],
                          now[d] - used[p] >= RecentUse,
                          pc[d] \notin {"idle", "stat", "stamp"},
                          ~(pc[d] = "walk" /\ p \in unwalked[d])
                   PROVE  [output |-> p, used |-> used[p]] \in todo'[d] \cup victim'[d]
      BY <1>1, <1>2 DEF SeenInv, IInv, Types
    <2>2. [output |-> p, used |-> used[p]] \in todo[d] \cup victim[d]
      BY <2>1 DEF IInv, SeenInv
    <2>3. CASE d # c
      BY <1>1, <2>2, <2>3 DEF IInv, Types
    <2>4. CASE d = c /\ [output |-> p, used |-> used[p]] # m
      BY <1>1, <1>2, <2>2, <2>4 DEF IInv, Types
    <2>5. CASE d = c /\ [output |-> p, used |-> used[p]] = m
      <3>1. m.output = p /\ m.used = used[p]
        BY <2>5
      <3>2. used[p] \in Nat
        BY <2>1 DEF IInv, Types
      <3>3. victim'[c] = {m}
        BY <1>1, <3>1, <3>2, <2>1 DEF IInv, Types
      <3> QED BY <2>5, <3>3
    <2> QED BY <2>3, <2>4, <2>5
  <1> QED BY <1>4, <1>5, <1>6, <1>7 DEF IInv

LEMMA Removals ==
  ASSUME IInv, NEW c \in Commands, Remove(c)
  PROVE  IInv'
  <1>1. /\ pc[c] = "remove" /\ pc' = [pc EXCEPT ![c] = "loop"]
        /\ victim' = [victim EXCEPT ![c] = {}]
        /\ UNCHANGED <<clock, used, now, unwalked, todo, checked>>
    BY DEF Remove, Goto
  <1>2. PICK m \in victim[c] :
           \/ onDisk' = onDisk \ {m.output} /\ UNCHANGED stuck
           \/ stuck' = [stuck EXCEPT ![c] = stuck[c] \cup {m.output}] /\ UNCHANGED onDisk
    BY DEF Remove, IInv, Types
  <1>3. m \in [output : Outputs, used : Nat]
    BY <1>2 DEF IInv, Types
  <1>4. Types'
    BY <1>1, <1>2, <1>3 DEF IInv, Types
  <1>5. Past'
    BY <1>1 DEF IInv, Past
  <1>6. VictimInv'
    BY <1>1 DEF IInv, Types, VictimInv
  <1>7. SeenInv'
    <2>1. SUFFICES ASSUME NEW d \in Commands, NEW p \in onDisk' \ stuck'[d],
                          now[d] - used[p] >= RecentUse,
                          pc'[d] \notin {"idle", "stat", "stamp"},
                          ~(pc'[d] = "walk" /\ p \in unwalked[d])
                   PROVE  [output |-> p, used |-> used[p]] \in todo[d] \cup victim'[d]
      BY <1>1 DEF SeenInv, IInv, Types
    <2>2. /\ p \in onDisk \ stuck[d]
          /\ d = c => p # m.output
      BY <1>2, <1>3, <2>1 DEF IInv, Types
    <2>3. [output |-> p, used |-> used[p]] \in todo[d] \cup victim[d]
      BY <1>1, <2>1, <2>2 DEF IInv, SeenInv, Types
    <2>4. CASE d # c
      BY <1>1, <2>3, <2>4 DEF IInv, Types
    <2>5. CASE d = c
      <3>1. victim[c] = {m}
        BY <1>1, <1>2 DEF IInv, VictimInv
      <3>2. [output |-> p, used |-> used[p]] # m
        BY <2>2, <2>5
      <3> QED BY <2>3, <2>5, <3>1, <3>2
    <2> QED BY <2>4, <2>5
  <1> QED BY <1>4, <1>5, <1>6, <1>7 DEF IInv

\* The toolchain: it only makes an output newer than anything a command knows.
LEMMA Toolchain ==
  ASSUME IInv, Tick \/ \E o \in Outputs : Compile(o) \/ Read(o)
  PROVE  IInv'
  <1>1. UNCHANGED <<pc, now, unwalked, todo, victim, checked, stuck>>
    BY DEF Tick, Compile, Read
  <1>2. CASE Tick
    <2>1. clock' = clock + 1 /\ UNCHANGED <<onDisk, used>>
      BY <1>2 DEF Tick
    <2>2. Types' /\ Past'
      BY <1>1, <2>1 DEF IInv, Types, Past
    <2>3. VictimInv' /\ SeenInv'
      BY <1>1, <2>1 DEF IInv, VictimInv, SeenInv
    <2> QED BY <2>2, <2>3 DEF IInv
  <1>3. CASE \E o \in Outputs : Compile(o) \/ Read(o)
    <2>1. PICK o \in Outputs :
             /\ onDisk' = onDisk \cup {o}
             /\ \/ used' = [used EXCEPT ![o] = clock]
                \/ used' = used /\ o \in onDisk
      BY <1>3 DEF Compile, Read, IInv, Types
    <2>2. clock' = clock
      BY <1>3 DEF Compile, Read
    <2>3. Types' /\ Past'
      BY <1>1, <2>1, <2>2 DEF IInv, Types, Past
    <2>4. VictimInv'
      BY <1>1, <2>1 DEF IInv, Types, Past, VictimInv
    <2>5. SeenInv'
      BY <1>1, <2>1 DEF IInv, Types, Past, SeenInv
    <2> QED BY <2>3, <2>4, <2>5 DEF IInv
  <1> QED BY <1>2, <1>3

LEMMA Inductive == IInv /\ [Next]_vars => IInv'
  <1>1. CASE \E c \in Commands : Trim(c) \/ Interrupted(c)
    BY <1>1, Moves, Starts, Walks, Checks, Removals DEF Trim
  <1>2. CASE (\E o \in Outputs : Compile(o) \/ Read(o)) \/ Tick
    BY <1>2, Toolchain
  <1>3. CASE UNCHANGED vars
    BY <1>3 DEF vars, IInv, Types, Past, VictimInv, SeenInv
  <1> QED BY <1>1, <1>2, <1>3 DEF Next

\* The one step that removes an output for a command is that command's own.
LEMMA WhoRemoves ==
  ASSUME IInv, [Next]_vars, NEW c \in Commands, NEW o \in Outputs, Removes(c, o)
  PROVE  \E m \in victim[c] : m.output = o /\ pc[c] = "remove" /\ UNCHANGED used
  <1>1. PICK d \in Commands : Remove(d)
    BY DEF Removes, Next, vars, Trim, Env, Skip, Due, WriteStamp, Walk, Measured, Break,
           Check, Interrupted, Compile, Read, Tick
  <1>2. d = c
    BY <1>1 DEF Removes, Remove, Goto, IInv, Types
  <1> QED BY <1>1, <1>2 DEF Removes, Remove, Goto

\* An output whose recorded time is recent survives every trim, except for a
\* refresh in the instant between the stat and the removal (trim, unusedSince).
THEOREM RecentIsKept == Spec => KeepsRecent
  <1>1. ASSUME IInv, [Next]_vars
        PROVE  [\A c \in Commands, o \in Outputs :
                  Removes(c, o) /\ now[c] - used[o] < RecentUse => used[o] >= checked[c]]_vars
    <2>1. SUFFICES ASSUME NEW c \in Commands, NEW o \in Outputs,
                          Removes(c, o), now[c] - used[o] < RecentUse
                   PROVE  used[o] >= checked[c]
      OBVIOUS
    <2>2. PICK m \in victim[c] : m.output = o /\ pc[c] = "remove"
      BY <1>1, <2>1, WhoRemoves
    <2>3. m.used \in Nat /\ used[o] \in Nat /\ now[c] \in Nat /\ RecentUse \in Nat
      BY <1>1, <2>2 DEF IInv, Types
    <2>4. now[c] - m.used >= RecentUse /\ (used[o] <= m.used \/ used[o] >= checked[c])
      BY <1>1, <2>2 DEF IInv, VictimInv
    <2> QED BY <2>1, <2>3, <2>4
  <1> QED BY <1>1, Start, Inductive, PTL DEF Spec, KeepsRecent

\* Least recently used first, of the disk: what a trim removes has the oldest
\* time on it, among what it may remove (the sort in trim, and the walk before it).
THEOREM LeastRecentlyUsed == Spec => OldestFirst
  <1>1. ASSUME IInv, [Next]_vars
        PROVE  [\A c \in Commands, o \in Outputs :
                  Removes(c, o) /\ used[o] < checked[c]
                  => \A p \in onDisk \ stuck[c] : used[o] <= used[p]]_vars
    <2>1. SUFFICES ASSUME NEW c \in Commands, NEW o \in Outputs,
                          Removes(c, o), used[o] < checked[c],
                          NEW p \in onDisk \ stuck[c], used[p] < used[o]
                   PROVE  FALSE
      BY <1>1 DEF IInv, Types
    <2>2. PICK m \in victim[c] : m.output = o /\ pc[c] = "remove"
      BY <1>1, <2>1, WhoRemoves
    <2>3. /\ m.used \in Nat /\ used[o] \in Nat /\ used[p] \in Nat
          /\ now[c] \in Nat /\ RecentUse \in Nat /\ checked[c] \in Nat
      BY <1>1, <2>2 DEF IInv, Types
    <2>4. /\ now[c] - m.used >= RecentUse
          /\ used[o] <= m.used \/ used[o] >= checked[c]
          /\ \A n \in todo[c] : m.used <= n.used
          /\ victim[c] = {m}
      BY <1>1, <2>2 DEF IInv, VictimInv
    <2>5. now[c] - used[p] >= RecentUse
      BY <2>1, <2>3, <2>4
    <2>6. [output |-> p, used |-> used[p]] \in todo[c] \cup victim[c]
      BY <1>1, <2>2, <2>5 DEF IInv, SeenInv
    <2>7. CASE [output |-> p, used |-> used[p]] \in todo[c]
      BY <2>1, <2>3, <2>4, <2>7
    <2>8. CASE [output |-> p, used |-> used[p]] = m
      <3>1. p = o
        BY <2>2, <2>8
      <3> QED BY <2>1, <2>3, <3>1
    <2> QED BY <2>4, <2>6, <2>7, <2>8
  <1> QED BY <1>1, Start, Inductive, PTL DEF Spec, OldestFirst

(***************************************************************************)
(* What a set of outputs takes.                                            *)
(***************************************************************************)
LEMMA UnitsOfOne ==
  ASSUME NEW o \in Outputs
  PROVE  /\ IsFiniteSet({o} \X (1 .. Size[o]))
         /\ Cardinality({o} \X (1 .. Size[o])) = Size[o]
  <1>1. Size[o] \in Nat \ {0}
    BY Sizes
  <1>2. IsFiniteSet(1 .. Size[o]) /\ Cardinality(1 .. Size[o]) = Size[o]
    <2>1. 1 \in Int /\ Size[o] \in Int /\ ~(1 > Size[o]) /\ Size[o] - 1 + 1 = Size[o]
      BY <1>1
    <2>2. /\ IsFiniteSet(1 .. Size[o])
          /\ Cardinality(1 .. Size[o]) = IF 1 > Size[o] THEN 0 ELSE Size[o] - 1 + 1
      BY <2>1, FS_Interval
    <2> QED BY <2>1, <2>2
  <1>3. IsFiniteSet({o}) /\ Cardinality({o}) = 1
    BY FS_Singleton
  <1>4. /\ IsFiniteSet({o} \X (1 .. Size[o]))
        /\ Cardinality({o} \X (1 .. Size[o])) = Cardinality({o}) * Cardinality(1 .. Size[o])
    BY <1>2, <1>3, FS_Product
  <1> QED BY <1>1, <1>2, <1>3, <1>4

LEMMA UnitsAreFinite ==
  ASSUME NEW S \in SUBSET Outputs
  PROVE  IsFiniteSet(Units(S)) /\ Sum(S) \in Nat
  <1> DEFINE f == [o \in S |-> {o} \X (1 .. Size[o])]
             T == {{o} \X (1 .. Size[o]) : o \in S}
  <1>1. IsFiniteSet(S)
    BY Finite, FS_Subset
  <1>2. f \in Surjection(S, T)
    BY DEF Surjection
  <1>3. \A t \in T : IsFiniteSet(t)
    BY UnitsOfOne
  <1> HIDE DEF f, T
  <1>4. IsFiniteSet(T)
    BY <1>1, <1>2, FS_Surjection
  <1>5. IsFiniteSet(UNION T)
    BY <1>3, <1>4, FS_UNION
  <1>6. Units(S) = UNION T
    BY DEF Units, T
  <1> QED BY <1>5, <1>6, FS_CardinalityType DEF Sum

LEMMA SumOfMore ==
  ASSUME NEW T \in SUBSET Outputs, NEW S \in SUBSET T
  PROVE  Sum(S) <= Sum(T)
  <1>1. Units(S) \subseteq Units(T)
    BY DEF Units
  <1> QED BY <1>1, UnitsAreFinite, FS_Subset DEF Sum

LEMMA SumOfOneMore ==
  ASSUME NEW S \in SUBSET Outputs, NEW o \in Outputs \ S
  PROVE  Sum(S \cup {o}) = Sum(S) + Size[o]
  <1> DEFINE U == {o} \X (1 .. Size[o])
  <1>1. Units(S \cup {o}) = Units(S) \cup U
    BY DEF Units
  <1>2. Units(S) \cap U = {}
    BY DEF Units
  <1>3. IsFiniteSet(U) /\ Cardinality(U) = Size[o] /\ IsFiniteSet(Units(S)) /\ Cardinality(Units(S)) \in Nat
    BY UnitsOfOne, UnitsAreFinite DEF Sum
  <1> HIDE DEF U
  <1>4. Cardinality(Units(S) \cup U) = Cardinality(Units(S)) + Cardinality(U) - Cardinality(Units(S) \cap U)
    BY <1>3, FS_Union
  <1>5. Cardinality(Units(S) \cap U) = 0
    BY <1>2, FS_EmptySet
  <1>6. Size[o] \in Nat
    BY Sizes
  <1>7. Cardinality(Units(S) \cup U) = Cardinality(Units(S)) + Size[o]
    BY ONLY <1>3, <1>4, <1>5, <1>6
  <1> QED BY <1>1, <1>7 DEF Sum

LEMMA SumOfNone == Sum({}) = 0
  <1>1. Units({}) = {}
    BY DEF Units
  <1> QED BY <1>1, FS_EmptySet DEF Sum

LEMMA SumOfOneLess ==
  ASSUME NEW S \in SUBSET Outputs, NEW o \in S
  PROVE  Sum(S \ {o}) = Sum(S) - Size[o]
  <1>1. (S \ {o}) \cup {o} = S
    OBVIOUS
  <1>2. Sum((S \ {o}) \cup {o}) = Sum(S \ {o}) + Size[o]
    BY SumOfOneMore
  <1>3. Sum(S \ {o}) \in Nat /\ Size[o] \in Nat
    BY UnitsAreFinite, Sizes
  <1>4. Sum(S) = Sum(S \ {o}) + Size[o]
    BY ONLY <1>1, <1>2
  <1> QED BY ONLY <1>3, <1>4

(***************************************************************************)
(* What a trim has counted: a set of outputs that has everything old and   *)
(* everything on its list, and that is all on disk when no other command   *)
(* removes anything.                                                       *)
(***************************************************************************)
Listed(c) == todo[c] \cup victim[c]

Counted(c, K) ==
    /\ total[c] = Overhead + Sum(K)
    /\ \A m \in Listed(c) : m.output \in K
    /\ K \cap unwalked[c] = {}
    /\ OldOnDisk(c) \subseteq K \cup unwalked[c]
    /\ Commands = {c} => K \subseteq onDisk

CountInv ==
    /\ total \in [Commands -> Int]
    /\ \A c \in Commands :
          /\ pc[c] \in {"stat", "stamp"} => todo[c] = {}
          /\ pc[c] \in {"walk", "loop", "remove"} =>
                /\ \E K \in SUBSET Outputs : Counted(c, K)
                /\ \A m, n \in Listed(c) : m.output = n.output => m = n
                /\ todo[c] \cap victim[c] = {}
          /\ pc[c] \in {"loop", "remove"} => unwalked[c] = {}
          /\ pc[c] = "remove" => total[c] > LowWater

\* The one command that takes the step, and one that another's step leaves alone.
OthersKept(c) ==
    \A d \in Commands \ {c} :
        /\ pc'[d] = pc[d] /\ now'[d] = now[d] /\ unwalked'[d] = unwalked[d]
        /\ todo'[d] = todo[d] /\ victim'[d] = victim[d] /\ total'[d] = total[d]

CountOf(c) ==
    /\ pc[c] \in {"stat", "stamp"} => todo[c] = {}
    /\ pc[c] \in {"walk", "loop", "remove"} =>
          /\ \E K \in SUBSET Outputs : Counted(c, K)
          /\ \A m, n \in Listed(c) : m.output = n.output => m = n
          /\ todo[c] \cap victim[c] = {}
    /\ pc[c] \in {"loop", "remove"} => unwalked[c] = {}
    /\ pc[c] = "remove" => total[c] > LowWater

\* What is old on disk only shrinks, for a command whose time stays.
LEMMA OldShrinks ==
  ASSUME IInv, [Next]_vars, NEW c \in Commands, now'[c] = now[c]
  PROVE  OldOnDisk(c)' \subseteq OldOnDisk(c)
  <1> SUFFICES ASSUME NEW p \in onDisk', now[c] - used'[p] >= RecentUse
               PROVE  p \in onDisk /\ now[c] - used[p] >= RecentUse
    BY DEF OldOnDisk
  <1>1. now[c] \in Nat /\ clock \in Nat /\ now[c] <= clock /\ RecentUse \in Nat \ {0}
    BY DEF IInv, Types, Past
  <1>2. CASE \E o \in Outputs : Compile(o)
    <2>1. PICK o \in Outputs : onDisk' = onDisk \cup {o} /\ used' = [used EXCEPT ![o] = clock]
      BY <1>2 DEF Compile
    <2> QED BY <1>1, <2>1 DEF IInv, Types
  <1>3. CASE \E o \in Outputs : Read(o)
    <2>1. PICK o \in Outputs : UNCHANGED onDisk /\ used'  = [used EXCEPT ![o] = IF clock - used[o] >= Refresh THEN clock ELSE used[o]]
      BY <1>3 DEF Read
    <2> QED BY <1>1, <2>1 DEF IInv, Types, Past
  <1>4. CASE UNCHANGED used /\ onDisk' \subseteq onDisk
    BY <1>4
  <1>5. CASE Tick \/ UNCHANGED vars
    BY <1>4, <1>5 DEF Tick, vars
  <1>6. CASE \E d \in Commands : Trim(d) \/ Interrupted(d)
    BY <1>4, <1>6 DEF Trim, Env, Skip, Due, WriteStamp, Walk, Measured, Break, Check, Remove, Interrupted
  <1> QED BY <1>2, <1>3, <1>5, <1>6 DEF Next

\* What was counted stays so, for the commands that another's step leaves alone.
LEMMA CountOfOthers ==
  ASSUME IInv, CountInv, [Next]_vars, NEW c \in Commands, OthersKept(c), NEW d \in Commands \ {c}
  PROVE  CountOf(d)'
  <1>1. /\ pc'[d] = pc[d] /\ now'[d] = now[d] /\ unwalked'[d] = unwalked[d]
        /\ todo'[d] = todo[d] /\ victim'[d] = victim[d] /\ total'[d] = total[d]
    BY DEF OthersKept
  <1>2. OldOnDisk(d)' \subseteq OldOnDisk(d)
    BY <1>1, OldShrinks
  <1>3. Commands # {d}
    OBVIOUS
  <1>4. ASSUME NEW K \in SUBSET Outputs, Counted(d, K) PROVE Counted(d, K)'
    BY <1>1, <1>2, <1>3, <1>4 DEF Counted, Listed
  <1>5. (\E K \in SUBSET Outputs : Counted(d, K)) => (\E K \in SUBSET Outputs : Counted(d, K)')
    BY <1>4
  <1> QED BY <1>1, <1>5 DEF CountInv, CountOf, Listed

LEMMA CountOfMoves ==
  ASSUME IInv, CountInv, NEW c \in Commands,
         Skip(c) \/ Due(c) \/ Measured(c) \/ Break(c) \/ Interrupted(c)
  PROVE  CountOf(c)' /\ OthersKept(c) /\ total' \in [Commands -> Int]
  <1>1. UNCHANGED <<clock, onDisk, used, now, unwalked, todo, victim, total>>
    BY DEF Skip, Due, Measured, Break, Interrupted
  <1>2. PICK to \in {"idle", "stamp", "loop"} :
           /\ pc' = [pc EXCEPT ![c] = to]
           /\ to = "loop" => pc[c] = "walk" /\ unwalked[c] = {}
           /\ to = "stamp" => pc[c] = "stat"
    BY DEF Skip, Due, Measured, Break, Interrupted, Goto
  <1>3. pc'[c] = to /\ OthersKept(c)
    BY <1>1, <1>2 DEF OthersKept, IInv, Types
  <1>4. \A K : Counted(c, K)' <=> Counted(c, K)
    BY <1>1 DEF Counted, Listed, OldOnDisk
  <1> QED BY <1>1, <1>2, <1>3, <1>4 DEF CountInv, CountOf, Listed

LEMMA CountOfStarts ==
  ASSUME IInv, CountInv, NEW c \in Commands, Env(c) \/ WriteStamp(c)
  PROVE  CountOf(c)' /\ OthersKept(c) /\ total' \in [Commands -> Int]
  <1>1. CASE Env(c)
    BY <1>1 DEF Env, Goto, CountOf, OthersKept, IInv, Types, CountInv
  <1>2. CASE WriteStamp(c)
    <2>1. /\ pc[c] = "stamp" /\ pc'[c] = "walk" /\ unwalked'[c] = Outputs /\ total'[c] = Overhead
          /\ UNCHANGED <<onDisk, used, now, todo, victim>>
          /\ OthersKept(c) /\ total' \in [Commands -> Int]
      BY <1>2, Sizes DEF WriteStamp, Goto, OthersKept, IInv, Types, CountInv
    <2>2. Listed(c)' = {}
      BY <2>1 DEF Listed, CountInv, IInv, VictimInv
    <2>3. OldOnDisk(c)' \subseteq Outputs
      BY <2>1 DEF OldOnDisk, IInv, Types
    <2>4. Counted(c, {})'
      BY <2>1, <2>2, <2>3, SumOfNone, Sizes DEF Counted
    <2>5. \E K \in SUBSET Outputs : Counted(c, K)'
      BY <2>4
    <2> QED BY <2>1, <2>2, <2>5 DEF CountOf, Listed
  <1> QED BY <1>1, <1>2

LEMMA CountOfWalk ==
  ASSUME IInv, CountInv, NEW c \in Commands, Walk(c)
  PROVE  CountOf(c)' /\ OthersKept(c) /\ total' \in [Commands -> Int]
  <1>1. PICK o \in unwalked[c] :
           /\ unwalked' = [unwalked EXCEPT ![c] = unwalked[c] \ {o}]
           /\ IF o \in onDisk
              THEN /\ todo' = [todo EXCEPT ![c] = todo[c] \cup {[output |-> o, used |-> used[o]]}]
                   /\ total' = [total EXCEPT ![c] = total[c] + Size[o]]
              ELSE UNCHANGED <<todo, total>>
    BY DEF Walk
  <1>2. pc[c] = "walk" /\ victim[c] = {} /\ UNCHANGED <<onDisk, used, pc, now, victim>>
    BY DEF Walk, IInv, VictimInv
  <1>3. o \in Outputs /\ unwalked'[c] = unwalked[c] \ {o} /\ Size[o] \in Nat
    BY <1>1, Sizes DEF IInv, Types
  <1>4. OthersKept(c) /\ total' \in [Commands -> Int]
    BY <1>1, <1>2, <1>3 DEF OthersKept, CountInv, IInv, Types
  <1>5. PICK K \in SUBSET Outputs : Counted(c, K)
    BY <1>2 DEF CountInv
  <1>6. UNCHANGED OldOnDisk(c)
    BY <1>2 DEF OldOnDisk
  <1>7. CASE o \in onDisk
    <2>1. /\ todo'[c] = todo[c] \cup {[output |-> o, used |-> used[o]]} /\ total'[c] = total[c] + Size[o]
      BY <1>1, <1>7 DEF CountInv, IInv, Types
    <2>2. Listed(c)' = Listed(c) \cup {[output |-> o, used |-> used[o]]}
      BY <1>2, <2>1 DEF Listed
    <2>3. o \notin K /\ \A m \in Listed(c) : m.output # o
      BY <1>1, <1>5 DEF Counted
    <2>4. Sum(K \cup {o}) = Sum(K) + Size[o] /\ Sum(K) \in Nat
      BY <1>3, <2>3, SumOfOneMore, UnitsAreFinite
    <2>5. Counted(c, K \cup {o})'
      <3>1. total'[c] = Overhead + Sum(K \cup {o})
        BY <2>1, <2>4, <1>3, <1>5, Sizes DEF Counted
      <3>2. \A m \in Listed(c)' : m.output \in K \cup {o}
        BY <2>2, <1>5 DEF Counted
      <3>3. (K \cup {o}) \cap unwalked'[c] = {} /\ OldOnDisk(c)' \subseteq (K \cup {o}) \cup unwalked'[c]
        BY <1>3, <1>5, <1>6 DEF Counted
      <3>4. Commands = {c} => K \cup {o} \subseteq onDisk'
        BY <1>2, <1>5, <1>7 DEF Counted
      <3> QED BY <3>1, <3>2, <3>3, <3>4 DEF Counted
    <2>6. \E L \in SUBSET Outputs : Counted(c, L)'
      BY <2>5, <1>3
    <2>7. \A m, n \in Listed(c)' : m.output = n.output => m = n
      BY <2>2, <2>3, <1>2 DEF CountInv
    <2> QED BY <1>2, <1>4, <2>6, <2>7 DEF CountOf
  <1>8. CASE o \notin onDisk
    <2>1. todo'[c] = todo[c] /\ total'[c] = total[c]
      BY <1>1, <1>8
    <2>2. Listed(c)' = Listed(c)
      BY <1>2, <2>1 DEF Listed
    <2>3. o \notin OldOnDisk(c)
      BY <1>8 DEF OldOnDisk
    <2>4. Counted(c, K)'
      BY <1>2, <1>3, <1>5, <1>6, <2>1, <2>2, <2>3 DEF Counted
    <2>5. \E L \in SUBSET Outputs : Counted(c, L)'
      BY <2>4
    <2> QED BY <1>2, <1>4, <2>2, <2>5 DEF CountOf, CountInv
  <1> QED BY <1>7, <1>8

LEMMA CountOfCheck ==
  ASSUME IInv, CountInv, NEW c \in Commands, Check(c)
  PROVE  CountOf(c)' /\ OthersKept(c) /\ total' \in [Commands -> Int]
  <1>1. /\ pc[c] = "loop" /\ total[c] > LowWater /\ victim[c] = {}
        /\ UNCHANGED <<onDisk, used, now, unwalked, total>>
    BY DEF Check, IInv, VictimInv
  <1>2. PICK m \in Oldest(c) :
           /\ todo' = [todo EXCEPT ![c] = todo[c] \ {m}]
           /\ IF UnusedSince(m)
              THEN /\ pc' = [pc EXCEPT ![c] = "remove"] /\ victim' = [victim EXCEPT ![c] = {m}]
              ELSE UNCHANGED <<pc, victim>>
    BY DEF Check
  <1>3. m \in todo[c] /\ todo'[c] = todo[c] \ {m} /\ pc'[c] \in {"loop", "remove"} /\ victim'[c] \subseteq {m}
    BY <1>1, <1>2 DEF Oldest, IInv, Types
  <1>4. OthersKept(c)
    BY <1>1, <1>2 DEF OthersKept, IInv, Types
  <1>5. Listed(c)' \subseteq Listed(c) /\ todo'[c] \cap victim'[c] = {}
    BY <1>3 DEF Listed
  <1>6. PICK K \in SUBSET Outputs : Counted(c, K)
    BY <1>1 DEF CountInv
  <1>7. Counted(c, K)'
    BY <1>1, <1>5, <1>6 DEF Counted, OldOnDisk
  <1>8. \E L \in SUBSET Outputs : Counted(c, L)'
    BY <1>7
  <1>9. \A x, y \in Listed(c)' : x.output = y.output => x = y
    BY <1>1, <1>5 DEF CountInv
  <1> QED BY <1>1, <1>3, <1>4, <1>5, <1>8, <1>9 DEF CountOf, CountInv

LEMMA CountOfRemove ==
  ASSUME IInv, CountInv, NEW c \in Commands, Remove(c)
  PROVE  CountOf(c)' /\ OthersKept(c) /\ total' \in [Commands -> Int]
  <1>1. /\ pc[c] = "remove" /\ pc' = [pc EXCEPT ![c] = "loop"]
        /\ victim' = [victim EXCEPT ![c] = {}]
        /\ UNCHANGED <<used, now, unwalked, todo>>
    BY DEF Remove, Goto
  <1>2. PICK m \in victim[c] :
           \/ onDisk' = onDisk \ {m.output} /\ total' = [total EXCEPT ![c] = total[c] - Size[m.output]]
           \/ UNCHANGED <<onDisk, total>>
    BY DEF Remove
  <1>3. m \in Listed(c) /\ m.output \in Outputs /\ Size[m.output] \in Nat
    BY <1>2, Sizes DEF Listed, IInv, Types
  <1>4. pc'[c] = "loop" /\ victim'[c] = {} /\ OthersKept(c) /\ total' \in [Commands -> Int]
    BY <1>1, <1>2, <1>3 DEF OthersKept, IInv, Types, CountInv
  <1>5. PICK K \in SUBSET Outputs : Counted(c, K)
    BY <1>1 DEF CountInv
  <1>6. Listed(c)' = todo[c] /\ todo[c] \subseteq Listed(c) /\ m \notin todo[c]
    BY <1>1, <1>2, <1>4 DEF Listed, CountInv
  <1>7. \A n \in todo[c] : n.output # m.output
    BY <1>1, <1>3, <1>6 DEF CountInv
  <1>8. unwalked[c] = {}
    BY <1>1 DEF CountInv
  <1>9. \E L \in SUBSET Outputs : Counted(c, L)'
    <2>1. CASE onDisk' = onDisk \ {m.output} /\ total' = [total EXCEPT ![c] = total[c] - Size[m.output]]
      <3>1. m.output \in K
        BY <1>3, <1>5 DEF Counted
      <3>2. Sum(K \ {m.output}) = Sum(K) - Size[m.output] /\ Sum(K) \in Nat
        BY <3>1, SumOfOneLess, UnitsAreFinite
      <3>3. total'[c] = Overhead + Sum(K \ {m.output})
        BY <2>1, <3>2, <1>3, <1>5, Sizes DEF Counted, CountInv
      <3>4. OldOnDisk(c)' \subseteq OldOnDisk(c) \ {m.output}
        BY <2>1, <1>1 DEF OldOnDisk
      <3>5. Counted(c, K \ {m.output})'
        BY <2>1, <3>3, <3>4, <1>1, <1>5, <1>6, <1>7, <1>8 DEF Counted
      <3> QED BY <3>5
    <2>2. CASE UNCHANGED <<onDisk, total>>
      <3>1. Counted(c, K)'
        BY <2>2, <1>1, <1>5, <1>6 DEF Counted, OldOnDisk
      <3> QED BY <3>1
    <2> QED BY <1>2, <2>1, <2>2
  <1>10. \A x, y \in Listed(c)' : x.output = y.output => x = y
    BY <1>1, <1>6 DEF CountInv
  <1> QED BY <1>1, <1>4, <1>8, <1>9, <1>10 DEF CountOf

\* The toolchain removes nothing, and what it writes is recent.
LEMMA CountOfToolchain ==
  ASSUME IInv, CountInv, [Next]_vars, UNCHANGED <<pc, locals>>, onDisk \subseteq onDisk'
  PROVE  CountInv'
  <1>1. UNCHANGED <<pc, now, unwalked, todo, victim, total>>
    OBVIOUS
  <1>2. ASSUME NEW c \in Commands, NEW K \in SUBSET Outputs, Counted(c, K) PROVE Counted(c, K)'
    <2>1. OldOnDisk(c)' \subseteq OldOnDisk(c)
      BY <1>1, OldShrinks
    <2> QED BY <1>1, <1>2, <2>1 DEF Counted, Listed
  <1>3. \A c \in Commands : (\E K \in SUBSET Outputs : Counted(c, K)) => (\E K \in SUBSET Outputs : Counted(c, K)')
    BY <1>2
  <1> QED BY <1>1, <1>3 DEF CountInv, Listed

LEMMA CountStart == Init => CountInv
  BY DEF Init, CountInv

LEMMA CountStep == IInv /\ CountInv /\ [Next]_vars => CountInv'
  <1> SUFFICES ASSUME IInv, CountInv, [Next]_vars PROVE CountInv'
    OBVIOUS
  <1>1. ASSUME NEW c \in Commands, CountOf(c)' /\ OthersKept(c) /\ total' \in [Commands -> Int]
        PROVE  CountInv'
    <2>1. \A d \in Commands : CountOf(d)'
      BY <1>1, CountOfOthers
    <2> QED BY <1>1, <2>1 DEF CountOf, CountInv
  <1>2. CASE \E c \in Commands : Trim(c) \/ Interrupted(c)
    BY <1>1, <1>2, CountOfMoves, CountOfStarts, CountOfWalk, CountOfCheck, CountOfRemove DEF Trim
  <1>3. CASE (\E o \in Outputs : Compile(o) \/ Read(o)) \/ Tick \/ UNCHANGED vars
    <2>1. UNCHANGED <<pc, locals>> /\ onDisk \subseteq onDisk'
      BY <1>3 DEF Compile, Read, Tick, vars
    <2> QED BY <2>1, CountOfToolchain
  <1> QED BY <1>2, <1>3 DEF Next

LEMMA Counting == Spec => [](IInv /\ CountInv)
  BY Start, Inductive, CountStart, CountStep, PTL DEF Spec

\* A trim that ran its loop to the end leaves nothing old that does not fit below
\* LowWater, whatever the other commands and the toolchain do meanwhile (trim).
THEOREM RoomIsLeft == Spec => LeavesRoom
  <1>1. ASSUME IInv, CountInv, NEW c \in Commands, Break(c)
        PROVE  OldOnDisk(c) \subseteq stuck[c] \/ Overhead + Sum(OldOnDisk(c)) <= LowWater
    <2>1. pc[c] = "loop" /\ victim[c] = {} /\ unwalked[c] = {}
      BY <1>1 DEF Break, Goto, IInv, VictimInv, CountInv
    <2>2. CASE total[c] <= LowWater
      <3>1. PICK K \in SUBSET Outputs : Counted(c, K)
        BY <1>1, <2>1 DEF CountInv
      <3>2. OldOnDisk(c) \subseteq K
        BY <2>1, <3>1 DEF Counted
      <3>3. Sum(OldOnDisk(c)) <= Sum(K) /\ Sum(OldOnDisk(c)) \in Nat /\ Sum(K) \in Nat
        <4>1. OldOnDisk(c) \in SUBSET Outputs
          BY <3>2
        <4> QED BY <3>2, <4>1, SumOfMore, UnitsAreFinite
      <3> QED BY <2>2, <3>1, <3>3, Sizes, Limits DEF Counted
    <2>3. ASSUME todo[c] = {} \/ \E m \in Oldest(c) : TooRecent(c, m), NEW p \in OldOnDisk(c) \ stuck[c] PROVE FALSE
      <3>1. p \in onDisk \ stuck[c] /\ now[c] - used[p] >= RecentUse
        BY DEF OldOnDisk
      <3>2. [output |-> p, used |-> used[p]] \in todo[c]
        BY <1>1, <2>1, <3>1 DEF IInv, SeenInv
      <3>3. PICK m \in todo[c] : now[c] - m.used < RecentUse /\ m.used <= used[p]
        BY <2>3, <3>2 DEF Oldest, TooRecent
      <3>4. m.used \in Nat /\ used[p] \in Nat /\ now[c] \in Nat
        BY <1>1, <3>1, <3>3 DEF IInv, Types
      <3> QED BY <3>1, <3>3, <3>4
    <2> QED BY <1>1, <2>2, <2>3 DEF Break
  <1>2. IInv /\ CountInv =>
           [\A c \in Commands :
              Break(c) => \/ OldOnDisk(c) \subseteq stuck[c]
                          \/ Overhead + Sum(OldOnDisk(c)) <= LowWater]_vars
    BY <1>1
  <1> QED BY <1>2, Counting, PTL DEF LeavesRoom

\* The trim of a command that is alone in the cache stops where it must: no lower
\* than LowWater (the condition of trim's loop), and no higher than it can.
THEOREM StopsWhereItMust ==
  ASSUME \A c, d \in Commands : c = d
  PROVE  Spec => MakesRoom
  <1>1. ASSUME IInv, CountInv, [Next]_vars, NEW c \in Commands, NEW o \in Outputs, Removes(c, o)
        PROVE  Overhead + Sum(onDisk) > LowWater
    <2>1. pc[c] = "remove" /\ Commands = {c}
      BY <1>1 DEF Removes
    <2>2. PICK K \in SUBSET Outputs : Counted(c, K)
      BY <1>1, <2>1 DEF CountInv
    <2>3. Sum(K) <= Sum(onDisk) /\ Sum(K) \in Nat /\ Sum(onDisk) \in Nat
      BY <1>1, <2>1, <2>2, SumOfMore, UnitsAreFinite DEF Counted, IInv, Types
    <2>4. Overhead + Sum(K) > LowWater
      BY <1>1, <2>1, <2>2 DEF Counted, CountInv
    <2> QED BY <2>3, <2>4, Sizes, Limits
  <1>2. IInv /\ CountInv /\ [Next]_vars =>
           [\A c \in Commands, o \in Outputs : Removes(c, o) => Overhead + Sum(onDisk) > LowWater]_vars
    BY <1>1
  <1>3. Spec => StopsAtLowWater
    BY <1>2, Counting, PTL DEF Spec, StopsAtLowWater
  <1> QED BY <1>3, RoomIsLeft DEF MakesRoom
=============================================================================
