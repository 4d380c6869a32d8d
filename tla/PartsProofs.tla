----------------------------- MODULE PartsProofs ----------------------------
(***************************************************************************)
(* Of the parts of Outputs that work through something asked for, one      *)
(* element after another: the manifests of an Android package, the faces   *)
(* of a font and the skills of the origins.                                *)
(* And of its package builds: the lock and the settings between any number *)
(* of callers, and the steps of every platform.                            *)
(* For each, of any length: an inductive invariant, that the initial       *)
(* states satisfy it (Start), that a step keeps it (Step) and what follows *)
(* from it (Safe).  What they are proved by comes first: induction over    *)
(* the numbers as a fact about sets, since what is proved by it here is    *)
(* always what a recursive function has made up to an element.             *)
(***************************************************************************)
EXTENDS Outputs, Integers, WellFoundedInduction, SequenceTheorems, FiniteSetTheorems, TLAPS

Ext == INSTANCE SequencesExt

\* A set of numbers that is not empty has a least one.
LEMMA Least ==
    ASSUME NEW T, T \subseteq Nat, T # {}
    PROVE  \E x \in T : \A y \in T : x <= y
<1> DEFINE R == {p \in Nat \X Nat : p[1] < p[2]}
<1>1. IsWellFoundedOn(R, Nat)
  <2>1. IsWellFoundedOn(OpToRel(<, Nat), Nat)
    BY NatLessThanWellFounded
  <2>2. R = OpToRel(<, Nat)
    BY DEF OpToRel
  <2> QED BY <2>1, <2>2
<1>2. PICK x \in T : \A y \in T : ~(<<y, x>> \in R)
  <2> HIDE DEF R
  <2> QED BY <1>1, WFMin
<1>3. ASSUME NEW y \in T, y < x PROVE FALSE
  <2>1. <<y, x>> \in R
    BY <1>3
  <2> QED BY <1>2, <2>1
<1>4. \A y \in T : x <= y
  BY <1>3
<1> QED BY <1>4

\* Induction: of a set that has zero and, with each number, the next.
LEMMA Induction ==
    ASSUME NEW S, 0 \in S, \A n \in Nat : n \in S => n + 1 \in S
    PROVE  Nat \subseteq S
<1> DEFINE T == Nat \ S
<1> SUFFICES ASSUME T # {} PROVE FALSE
  OBVIOUS
<1>1. PICK x \in T : \A y \in T : x <= y
  BY Least
<1>2. x \in Nat /\ x # 0 /\ x - 1 \in Nat /\ (x - 1) + 1 = x /\ ~(x <= x - 1)
  BY <1>1
<1>3. x - 1 \in S
  BY <1>1, <1>2
<1> QED BY <1>1, <1>2, <1>3

\* The same, up to a number.
LEMMA InductionUpTo ==
    ASSUME NEW N \in Nat, NEW S, 0 \in S, \A n \in 0 .. N - 1 : n \in S => n + 1 \in S
    PROVE  0 .. N \subseteq S
<1> DEFINE T == {n \in Nat : n <= N => n \in S}
<1>1. 0 \in T
  OBVIOUS
<1>2. \A n \in Nat : n \in T => n + 1 \in T
  OBVIOUS
<1>3. Nat \subseteq T
  <2> HIDE DEF T
  <2> QED BY <1>1, <1>2, Induction
<1> QED BY <1>3

(***************************************************************************)
(* A value made step by step: there is one, when every step is taken in a  *)
(* set that it stays in.                                                   *)
(***************************************************************************)
Makes(f, N, e, step) == f[0] = e /\ \A k \in 1 .. N : f[k] = step[<<f[k - 1], k>>]

\* What is made step by step exists, up to any number.
LEMMA Recursion ==
    ASSUME NEW N \in Nat, NEW X, NEW e \in X, NEW step \in [X \X (1 .. N) -> X]
    PROVE  \E f \in [0 .. N -> X] : Makes(f, N, e, step)
<1> DEFINE Made(f, n) == f[0] = e /\ \A k \in 1 .. n : f[k] = step[<<f[k - 1], k>>]
           Held == {n \in 0 .. N : \E f \in [0 .. n -> X] : Made(f, n)}
<1>1. 0 \in Held
  <2> DEFINE f == [k \in 0 .. 0 |-> e]
  <2>1. f \in [0 .. 0 -> X] /\ Made(f, 0)
    OBVIOUS
  <2> HIDE DEF Made
  <2> QED BY <2>1
<1>2. ASSUME NEW n \in 0 .. N - 1, n \in Held PROVE n + 1 \in Held
  <2>1. PICK f \in [0 .. n -> X] : Made(f, n)
    BY <1>2
  <2>2. n + 1 \in 0 .. N /\ n + 1 \in 1 .. N /\ n \in 0 .. n /\ n \in Nat
    OBVIOUS
  <2> DEFINE g == [k \in 0 .. n + 1 |-> IF k <= n THEN f[k] ELSE step[<<f[n], n + 1>>]]
  <2>3. step[<<f[n], n + 1>>] \in X
    BY <2>2
  <2>4. g \in [0 .. n + 1 -> X]
    BY <2>3
  <2>5. g[0] = e
    BY <2>1, <2>2
  <2>6. ASSUME NEW k \in 1 .. n + 1 PROVE g[k] = step[<<g[k - 1], k>>]
    <3>1. k - 1 \in 0 .. n /\ k - 1 <= n /\ k - 1 \in 0 .. n + 1
      BY <2>2
    <3>2. g[k - 1] = f[k - 1]
      BY <3>1
    <3>3. CASE k <= n
      <4>1. k \in 1 .. n /\ g[k] = f[k]
        BY <3>3
      <4> HIDE DEF g
      <4> QED BY <2>1, <3>2, <4>1
    <3>4. CASE ~(k <= n)
      <4>1. k = n + 1 /\ k - 1 = n
        BY <2>2, <3>4
      <4>2. g[k] = step[<<f[n], n + 1>>]
        BY <3>4
      <4> HIDE DEF g
      <4> QED BY <3>2, <4>1, <4>2
    <3> QED BY <3>3, <3>4
  <2> HIDE DEF g
  <2>7. Made(g, n + 1)
    BY <2>5, <2>6
  <2> HIDE DEF Made
  <2> QED BY <2>2, <2>4, <2>7
<1>3. N \in Held
  <2> HIDE DEF Held
  <2>1. 0 .. N \subseteq Held
    BY <1>1, <1>2, InductionUpTo
  <2> QED BY <2>1
<1> QED BY <1>3 DEF Makes

(***************************************************************************)
(* The sequences of a sequence, end to end: what has been put together     *)
(* after each of them.                                                     *)
(***************************************************************************)
EndsWith(P, seqs) == P[0] = <<>> /\ \A k \in 1 .. Len(seqs) : P[k] = P[k - 1] \o seqs[k]

\* What SequencesExt puts end to end, put together one sequence after another.
LEMMA EndToEnd ==
    ASSUME NEW S, NEW seqs \in Seq(Seq(S))
    PROVE  \E P \in [0 .. Len(seqs) -> Seq(S)] : EndsWith(P, seqs) /\ Ext!FlattenSeq(seqs) = P[Len(seqs)]
<1> DEFINE N == Len(seqs)
           Nth(f, i) == IF i = 1 THEN seqs[i] ELSE f[i - 1] \o seqs[i]
           Flat(f, n) == /\ f = [i \in 1 .. n |-> f[i]]
                         /\ \A i \in 1 .. n : f[i] = Nth(f, i)
           Held == {n \in Nat : \E f : Flat(f, n)}
<1>0. N \in Nat /\ \A i \in 1 .. N : seqs[i] \in Seq(S)
  OBVIOUS
<1>1. 0 \in Held
  <2> DEFINE f == [i \in 1 .. 0 |-> <<>>]
  <2>1. Flat(f, 0)
    OBVIOUS
  <2> HIDE DEF f, Nth
  <2> QED BY <2>1
<1>2. ASSUME NEW n \in Nat, n \in Held PROVE n + 1 \in Held
  <2>1. PICK f : Flat(f, n)
    BY <1>2
  <2> DEFINE g == [i \in 1 .. n + 1 |-> IF i <= n THEN f[i] ELSE IF i = 1 THEN seqs[i] ELSE f[i - 1] \o seqs[i]]
  <2>2. ASSUME NEW i \in 1 .. n + 1 PROVE g[i] = Nth(g, i)
    <3>1. CASE i <= n
      <4>0. i \in 1 .. n /\ g[i] = f[i]
        BY <3>1
      <4>1. g[i] = f[i] /\ f[i] = Nth(f, i)
        <5> HIDE DEF Nth, g
        <5> QED BY <2>1, <4>0
      <4>2. CASE i = 1
        BY <4>1, <4>2
      <4>3. CASE i # 1
        <5>1. i - 1 \in 1 .. n + 1 /\ i - 1 <= n
          BY <3>1, <4>3
        <5>2. g[i - 1] = f[i - 1]
          BY <5>1
        <5> HIDE DEF g
        <5> QED BY <4>1, <4>3, <5>2
      <4> QED BY <4>2, <4>3
    <3>2. CASE ~(i <= n)
      <4>1. i # 1 => i - 1 \in 1 .. n + 1 /\ i - 1 <= n
        BY <3>2
      <4>2. g[i] = IF i = 1 THEN seqs[i] ELSE f[i - 1] \o seqs[i]
        BY <3>2
      <4>3. i # 1 => g[i - 1] = f[i - 1]
        BY <4>1
      <4> HIDE DEF g
      <4> QED BY <4>2, <4>3
    <3> QED BY <3>1, <3>2
  <2>3. g = [i \in 1 .. n + 1 |-> g[i]]
    OBVIOUS
  <2> HIDE DEF g, Nth
  <2> QED BY <2>2, <2>3
<1>3. N \in Held
  <2> HIDE DEF Held
  <2> QED BY <1>0, <1>1, <1>2, Induction
<1> DEFINE F == CHOOSE f : f = [i \in 1 .. N |-> Nth(f, i)]
<1>4. F = [i \in 1 .. N |-> Nth(F, i)]
  <2>1. PICK f : Flat(f, N)
    BY <1>3
  <2>2. f = [i \in 1 .. N |-> Nth(f, i)]
    <3> HIDE DEF Nth
    <3> QED BY <2>1
  <2> HIDE DEF Nth
  <2> QED BY <2>2
<1>5. N # 0 => Ext!FlattenSeq(seqs) = F[N]
  BY DEF Ext!FlattenSeq
<1>6. N = 0 => Ext!FlattenSeq(seqs) = <<>>
  BY DEF Ext!FlattenSeq
<1> DEFINE P == [k \in 0 .. N |-> IF k = 0 THEN <<>> ELSE F[k]]
<1> HIDE DEF F, Held
<1>7. \A i \in 1 .. N : F[i] = Nth(F, i)
  <2> HIDE DEF Nth
  <2> QED BY <1>4
<1> HIDE DEF Flat
<1>a. ASSUME NEW i \in 1 .. N, i # 1 PROVE i - 1 \in 1 .. N /\ F[i] = F[i - 1] \o seqs[i]
  <2>1. i - 1 \in 1 .. N
    BY <1>0, <1>a
  <2>2. F[i] = Nth(F, i)
    <3> HIDE DEF Nth
    <3> QED BY <1>7
  <2> QED BY <1>a, <2>1, <2>2
<1>b. 1 \in 1 .. N => F[1] = seqs[1]
  BY <1>7
<1>8. 0 .. N \subseteq {k \in 0 .. N : P[k] \in Seq(S)}
  <2> DEFINE T == {k \in 0 .. N : P[k] \in Seq(S)}
  <2>1. 0 \in T
    BY <1>0
  <2>2. ASSUME NEW n \in 0 .. N - 1, n \in T PROVE n + 1 \in T
    <3>1. n + 1 \in 1 .. N /\ (n + 1) - 1 = n /\ n + 1 # 0 /\ n + 1 \in 0 .. N
      BY <1>0
    <3>2. F[n + 1] \in Seq(S)
      <4>1. CASE n = 0
        BY <1>0, <1>b, <3>1, <4>1
      <4>2. CASE n # 0
        <5>1. F[n] \in Seq(S)
          BY <2>2, <4>2
        <5>2. F[n + 1] = F[(n + 1) - 1] \o seqs[n + 1]
          <6>1. n + 1 \in 1 .. N /\ n + 1 # 1
            BY <3>1, <4>2
          <6> QED BY <1>a, <6>1
        <5>3. F[n] \o seqs[n + 1] \in Seq(S)
          BY <1>0, <3>1, <5>1, ConcatProperties
        <5> QED BY <3>1, <5>2, <5>3
      <4> QED BY <4>1, <4>2
    <3>3. P[n + 1] = F[n + 1]
      BY <3>1
    <3> QED BY <3>1, <3>2, <3>3
  <2> HIDE DEF T
  <2>3. 0 .. N \subseteq T
    BY <1>0, <2>1, <2>2, InductionUpTo
  <2> QED BY <2>3 DEF T
<1>9. P \in [0 .. N -> Seq(S)]
  BY <1>8
<1>10. EndsWith(P, seqs)
  <2>1. P[0] = <<>>
    BY <1>0
  <2>2. ASSUME NEW k \in 1 .. N PROVE P[k] = P[k - 1] \o seqs[k]
    <3>1. CASE k = 1
      <4>1. P[k] = seqs[1] /\ P[k - 1] = <<>> /\ seqs[1] \in Seq(S)
        BY <1>0, <1>b, <3>1
      <4> HIDE DEF P
      <4> QED BY <3>1, <4>1, ConcatEmptySeq
    <3>2. CASE k # 1
      <4>1. P[k] = F[k] /\ P[k - 1] = F[k - 1]
        BY <1>0, <3>2
      <4> HIDE DEF P
      <4> QED BY <1>a, <3>2, <4>1
    <3> QED BY <3>1, <3>2
  <2> HIDE DEF P
  <2> QED BY <2>1, <2>2 DEF EndsWith
<1>11. Ext!FlattenSeq(seqs) = P[N]
  BY <1>0, <1>5, <1>6
<1> HIDE DEF P
<1> QED BY <1>9, <1>10, <1>11

(***************************************************************************)
(* The manifests of an Android package: what is merged so far declares     *)
(* what the children read so far declare.                                  *)
(***************************************************************************)
ElementAt(p) == Manifest!qualifyComponent(sources[p[1]].children[p[2]], sources[p[1]].pkg)
ChildrenRead ==
    {p \in (1 .. Len(sources)) \X Nat :
        p[2] \in 1 .. Len(sources[p[1]].children) /\ (p[1] < src \/ (p[1] = src /\ p[2] < nth))}
ElementsRead == {ElementAt(p) : p \in ChildrenRead}

Components == Manifest!componentTags \cup {"meta-data"}
Like(c, elements) == {e \in elements : e.tag = c.tag /\ e.name = c.name}

\* EveryDeclarationOnce, of the elements of any set.
Declares(o, elements) ==
    /\ Manifest!ToSet(o.permissions) = {e.name : e \in {x \in elements : x.tag = "uses-permission"}}
    /\ Manifest!Distinct(o.permissions)
    /\ Manifest!Tags(o.components) = {<<e.tag, e.name>> : e \in {x \in elements : x.tag \in Components}}
    /\ \A i, j \in DOMAIN o.components :
          o.components[i].tag = o.components[j].tag /\ o.components[i].name = o.components[j].name => i = j
    /\ \A i \in DOMAIN o.components :
          ~o.components[i].empty => o.components[i].meta = UNION {e.meta : e \in Like(o.components[i], elements)}

Merged ==
    [permissions : Seq([pkg : STRING, id : STRING]), features : Seq([pkg : STRING, id : STRING]), top : Seq(Manifest!Element),
     queries : Seq(Manifest!Element), components : Seq(Manifest!Element)]

\* What is merged declares what is read, and no more.
ManifestInv ==
    /\ sources \in Sources
    /\ src \in Nat \ {0} /\ nth \in Nat \ {0}
    /\ out \in Merged
    /\ Declares(out, ElementsRead)

\* A name that is relative is of its package; of the rest nothing changes.
LEMMA Qualified ==
    ASSUME NEW c \in Manifest!Element, NEW pkg \in STRING
    PROVE  /\ Manifest!qualifyComponent(c, pkg) \in Manifest!Element
           /\ Manifest!qualifyComponent(c, pkg).tag = c.tag
           /\ c.tag \notin Components => Manifest!qualifyComponent(c, pkg) = c
BY DEF Manifest!qualifyComponent, Manifest!Element, Components

\* The meta-data of one element more.
LEMMA UnionOfOneMore ==
    ASSUME NEW S, NEW c
    PROVE  UNION {e.meta : e \in S \cup {c}} = (UNION {e.meta : e \in S}) \cup c.meta
OBVIOUS

\* A permission or a feature is added once.
LEMMA OnceAdds ==
    ASSUME NEW S, NEW seq \in Seq(S), NEW x \in S
    PROVE  /\ Manifest!Once(seq, x) \in Seq(S)
           /\ Manifest!ToSet(Manifest!Once(seq, x)) = Manifest!ToSet(seq) \cup {x}
           /\ Manifest!Distinct(seq) => Manifest!Distinct(Manifest!Once(seq, x))
<1>1. CASE x \in Manifest!ToSet(seq)
  BY <1>1 DEF Manifest!Once
<1>2. CASE x \notin Manifest!ToSet(seq)
  <2>1. Manifest!Once(seq, x) = Append(seq, x)
    BY <1>2 DEF Manifest!Once
  <2>2. /\ Append(seq, x) \in Seq(S) /\ Len(Append(seq, x)) = Len(seq) + 1 /\ Len(seq) \in Nat
        /\ \A i \in 1 .. Len(seq) : Append(seq, x)[i] = seq[i]
        /\ Append(seq, x)[Len(seq) + 1] = x
        /\ DOMAIN Append(seq, x) = 1 .. Len(seq) + 1 /\ DOMAIN seq = 1 .. Len(seq)
    OBVIOUS
  <2> HIDE DEF Components
  <2>3. Manifest!ToSet(Append(seq, x)) = Manifest!ToSet(seq) \cup {x}
    BY <2>2 DEF Manifest!ToSet
  <2>4. ASSUME Manifest!Distinct(seq) PROVE Manifest!Distinct(Append(seq, x))
    BY <2>2, <2>4, <1>2 DEF Manifest!Distinct, Manifest!ToSet
  <2> QED BY <2>1, <2>2, <2>3, <2>4
<1> QED BY <1>1, <1>2

\* A component is added to those there, or its meta-data to the one of its name.
LEMMA ComponentAdds ==
    ASSUME NEW seq \in Seq(Manifest!Element), NEW c \in Manifest!Element, NEW elements,
           elements \subseteq Manifest!Element, c.tag \in Components,
           Manifest!Tags(seq) = {<<e.tag, e.name>> : e \in {x \in elements : x.tag \in Components}},
           \A i, j \in DOMAIN seq : seq[i].tag = seq[j].tag /\ seq[i].name = seq[j].name => i = j,
           \A i \in DOMAIN seq : ~seq[i].empty => seq[i].meta = UNION {e.meta : e \in Like(seq[i], elements)}
    PROVE  LET new == Manifest!AddComponent(seq, c)
               all2 == elements \cup {c}
           IN  /\ new \in Seq(Manifest!Element)
               /\ Manifest!Tags(new) = {<<e.tag, e.name>> : e \in {x \in all2 : x.tag \in Components}}
               /\ \A i, j \in DOMAIN new : new[i].tag = new[j].tag /\ new[i].name = new[j].name => i = j
               /\ \A i \in DOMAIN new : ~new[i].empty => new[i].meta = UNION {e.meta : e \in Like(new[i], all2)}
<1> DEFINE new == Manifest!AddComponent(seq, c)
           all2 == elements \cup {c}
<1>0. {<<e.tag, e.name>> : e \in {x \in all2 : x.tag \in Components}} = Manifest!Tags(seq) \cup {<<c.tag, c.name>>}
  OBVIOUS
<1>t. \A i \in DOMAIN seq : seq[i].tag \in Components
  <2> TAKE i \in DOMAIN seq
  <2>1. <<seq[i].tag, seq[i].name>> \in Manifest!Tags(seq)
    BY DEF Manifest!Tags
  <2> QED BY <2>1
<1>1. CASE Manifest!Placed(seq, c) = {}
  <2>1. new = Append(seq, c)
    BY <1>1 DEF Manifest!AddComponent
  <2>2. /\ new \in Seq(Manifest!Element) /\ Len(seq) \in Nat
        /\ \A i \in 1 .. Len(seq) : new[i] = seq[i]
        /\ new[Len(seq) + 1] = c
        /\ DOMAIN new = 1 .. Len(seq) + 1 /\ DOMAIN seq = 1 .. Len(seq)
    BY <2>1
  <2>3. \A i \in DOMAIN seq : ~(seq[i].tag = c.tag /\ seq[i].name = c.name)
    BY <1>1 DEF Manifest!Placed
  <2>4. Like(c, elements) = {}
    <3> SUFFICES ASSUME NEW e \in elements, e.tag = c.tag, e.name = c.name PROVE FALSE
      BY DEF Like
    <3>1. <<e.tag, e.name>> \in Manifest!Tags(seq)
      OBVIOUS
    <3> QED BY <3>1, <2>3 DEF Manifest!Tags
  <2> HIDE DEF new
  <2>5. Manifest!Tags(new) = Manifest!Tags(seq) \cup {<<c.tag, c.name>>}
    BY <2>2 DEF Manifest!Tags
  <2>6. \A i, j \in DOMAIN new : new[i].tag = new[j].tag /\ new[i].name = new[j].name => i = j
    BY <2>2, <2>3
  <2>7. ASSUME NEW i \in DOMAIN new, ~new[i].empty
        PROVE  new[i].meta = UNION {e.meta : e \in Like(new[i], all2)}
    <3>1. CASE i \in DOMAIN seq
      <4>1. Like(new[i], all2) = Like(seq[i], elements)
        BY <3>1, <2>2, <2>3 DEF Like
      <4> QED BY <3>1, <4>1, <2>2, <2>7
    <3>2. CASE i = Len(seq) + 1
      <4>1. Like(new[i], all2) = {c}
        BY <3>2, <2>2, <2>4 DEF Like
      <4>2. UNION {e.meta : e \in {c}} = c.meta
        OBVIOUS
      <4> QED BY <3>2, <4>1, <4>2, <2>2
    <3>3. i \in DOMAIN seq \/ i = Len(seq) + 1
      BY <2>2
    <3> QED BY <3>1, <3>2, <3>3
  <2> QED BY <1>0, <2>2, <2>5, <2>6, <2>7 DEF new
<1>2. CASE Manifest!Placed(seq, c) # {}
  <2> DEFINE k == CHOOSE j \in Manifest!Placed(seq, c) : TRUE
  <2>1. k \in DOMAIN seq /\ seq[k].tag = c.tag /\ seq[k].name = c.name
    BY <1>2 DEF Manifest!Placed
  <2>2. new = [seq EXCEPT ![k] = Manifest!addMetaData(seq[k], c)]
    BY <1>2 DEF Manifest!AddComponent
  <2> HIDE DEF k, new
  <2>3. seq[k] \in Manifest!Element
    BY <2>1
  <2>4. /\ Manifest!addMetaData(seq[k], c) \in Manifest!Element
        /\ Manifest!addMetaData(seq[k], c).tag = seq[k].tag /\ Manifest!addMetaData(seq[k], c).name = seq[k].name
        /\ Manifest!addMetaData(seq[k], c).empty = seq[k].empty
        /\ ~seq[k].empty => Manifest!addMetaData(seq[k], c).meta = seq[k].meta \cup c.meta
    BY <2>3 DEF Manifest!addMetaData, Manifest!Element
  <2>5. /\ new \in Seq(Manifest!Element) /\ DOMAIN new = DOMAIN seq
        /\ \A i \in DOMAIN seq : i # k => new[i] = seq[i]
        /\ new[k] = Manifest!addMetaData(seq[k], c)
    BY <2>1, <2>2, <2>4
  <2>6. \A i \in DOMAIN seq : new[i].tag = seq[i].tag /\ new[i].name = seq[i].name /\ new[i].empty = seq[i].empty
    BY <2>4, <2>5
  <2>7. Manifest!Tags(new) = Manifest!Tags(seq)
    BY <2>5, <2>6 DEF Manifest!Tags
  <2>8. <<c.tag, c.name>> \in Manifest!Tags(seq)
    BY <2>1 DEF Manifest!Tags
  <2>9. ASSUME NEW i \in DOMAIN new, ~new[i].empty
        PROVE  new[i].meta = UNION {e.meta : e \in Like(new[i], all2)}
    <3>1. CASE i # k
      <4>1. ~(seq[i].tag = c.tag /\ seq[i].name = c.name)
        BY <3>1, <2>1, <2>5
      <4>2. Like(new[i], all2) = Like(seq[i], elements)
        BY <3>1, <4>1, <2>5, <2>6 DEF Like
      <4> QED BY <3>1, <4>2, <2>5, <2>9
    <3>2. CASE i = k
      <4>1. Like(new[i], all2) = Like(seq[k], elements) \cup {c}
        BY <3>2, <2>1, <2>6 DEF Like
      <4>2. UNION {e.meta : e \in Like(seq[k], elements) \cup {c}} = (UNION {e.meta : e \in Like(seq[k], elements)}) \cup c.meta
        BY UnionOfOneMore
      <4>3. seq[k].meta = UNION {e.meta : e \in Like(seq[k], elements)}
        BY <3>2, <2>1, <2>6, <2>9
      <4>4. new[i].meta = seq[k].meta \cup c.meta
        BY <3>2, <2>1, <2>4, <2>5, <2>6, <2>9
      <4> QED BY <4>1, <4>2, <4>3, <4>4
    <3> QED BY <3>1, <3>2
  <2>10. \A i, j \in DOMAIN new : new[i].tag = new[j].tag /\ new[i].name = new[j].name => i = j
    BY <2>5, <2>6
  <2> QED BY <1>0, <2>5, <2>7, <2>8, <2>9, <2>10 DEF new
<1> QED BY <1>1, <1>2 DEF new

\* A child that is read is declared, and nothing else is.
LEMMA ChildAdds ==
    ASSUME NEW o \in Merged, NEW child \in Manifest!Element, NEW pkg \in STRING, NEW elements,
           elements \subseteq Manifest!Element, Declares(o, elements)
    PROVE  /\ Manifest!AddChild(o, child, pkg) \in Merged
           /\ Declares(Manifest!AddChild(o, child, pkg), elements \cup {Manifest!qualifyComponent(child, pkg)})
<1> DEFINE c == Manifest!qualifyComponent(child, pkg)
           new == Manifest!AddChild(o, child, pkg)
           all2 == elements \cup {c}
           granted(S) == {e.name : e \in {x \in S : x.tag = "uses-permission"}}
           placed(S) == {<<e.tag, e.name>> : e \in {x \in S : x.tag \in Components}}
<1>1. c \in Manifest!Element /\ c.tag = child.tag /\ (child.tag \notin Components => c = child)
  BY Qualified
<1>2. child.name \in [pkg : STRING, id : STRING]
  BY DEF Manifest!Element
<1>p. CASE child.tag = "uses-permission"
  <2>1. new = [o EXCEPT !.permissions = Manifest!Once(o.permissions, child.name)]
    BY <1>p DEF Manifest!AddChild, Manifest!componentTags
  <2>2. c = child
    BY <1>p, <1>1 DEF Components, Manifest!componentTags
  <2>t. o.permissions \in Seq([pkg : STRING, id : STRING])
    BY DEF Merged
  <2>s. Manifest!Once(o.permissions, child.name) \in Seq([pkg : STRING, id : STRING])
    BY <2>t, <1>2, OnceAdds
  <2>3. /\ new \in Merged /\ new.components = o.components
        /\ new.permissions = Manifest!Once(o.permissions, child.name)
    BY <2>1, <2>s DEF Merged
  <2>4. granted(all2) = granted(elements) \cup {child.name}
    BY <2>2, <1>p
  <2>5. placed(all2) = placed(elements)
    BY <2>2, <1>p DEF Components, Manifest!componentTags
  <2>6. ASSUME NEW i \in DOMAIN o.components PROVE Like(o.components[i], all2) = Like(o.components[i], elements)
    <3>1. <<o.components[i].tag, o.components[i].name>> \in Manifest!Tags(o.components)
      BY DEF Manifest!Tags
    <3>2. o.components[i].tag \in Components
      BY <3>1 DEF Declares
    <3> QED BY <3>2, <2>2, <1>p DEF Like, Components, Manifest!componentTags
  <2>7. /\ Manifest!ToSet(new.permissions) = Manifest!ToSet(o.permissions) \cup {child.name}
        /\ Manifest!Distinct(new.permissions)
    <3>1. o.permissions \in Seq([pkg : STRING, id : STRING])
      BY DEF Merged
    <3>2. Manifest!Distinct(o.permissions)
      BY DEF Declares
    <3>3. /\ Manifest!ToSet(Manifest!Once(o.permissions, child.name)) = Manifest!ToSet(o.permissions) \cup {child.name}
          /\ Manifest!Distinct(Manifest!Once(o.permissions, child.name))
      <4> DEFINE Names == [pkg : STRING, id : STRING]
      <4>1. o.permissions \in Seq(Names) /\ child.name \in Names
        BY <1>2, <3>1
      <4> HIDE DEF Names
      <4> QED BY ONLY <4>1, <3>2, OnceAdds
    <3> QED BY <2>3, <3>3
  <2> HIDE DEF new, c, all2
  <2> QED BY <2>3, <2>4, <2>5, <2>6, <2>7 DEF Declares, new, all2, c
<1>c. CASE child.tag \in Components
  <2>1. new = [o EXCEPT !.components = Manifest!AddComponent(o.components, c)]
    BY <1>c DEF Manifest!AddChild, Manifest!componentTags, Components
  <2>2. o.components \in Seq(Manifest!Element)
    BY DEF Merged
  <2>3. /\ Manifest!AddComponent(o.components, c) \in Seq(Manifest!Element)
        /\ Manifest!Tags(Manifest!AddComponent(o.components, c)) = placed(all2)
        /\ \A i, j \in DOMAIN Manifest!AddComponent(o.components, c) :
              /\ Manifest!AddComponent(o.components, c)[i].tag = Manifest!AddComponent(o.components, c)[j].tag
              /\ Manifest!AddComponent(o.components, c)[i].name = Manifest!AddComponent(o.components, c)[j].name
              => i = j
        /\ \A i \in DOMAIN Manifest!AddComponent(o.components, c) : ~Manifest!AddComponent(o.components, c)[i].empty =>
              Manifest!AddComponent(o.components, c)[i].meta
                = UNION {e.meta : e \in Like(Manifest!AddComponent(o.components, c)[i], all2)}
    <3> HIDE DEF c
    <3> QED BY <1>1, <1>c, <2>2, ComponentAdds DEF Declares
  <2>4. /\ new \in Merged /\ new.permissions = o.permissions
        /\ new.components = Manifest!AddComponent(o.components, c)
    BY <2>1, <2>3 DEF Merged
  <2>5. granted(all2) = granted(elements)
    BY <1>1, <1>c DEF Components, Manifest!componentTags
  <2> HIDE DEF new, c, all2
  <2> QED BY <2>3, <2>4, <2>5 DEF Declares, new, all2, c
<1>o. CASE child.tag \notin Components \cup {"uses-permission"}
  <2>1. c = child
    BY <1>o, <1>1
  <2>2. \/ new = o
        \/ new = [o EXCEPT !.features = Manifest!Once(o.features, child.name)]
        \/ new = [o EXCEPT !.queries = Manifest!Once(o.queries, child)]
        \/ new = [o EXCEPT !.top = Manifest!Once(o.top, child)]
    <3>1. CASE child.tag = "uses-sdk"
      BY <3>1 DEF Manifest!AddChild, Manifest!componentTags
    <3>2. CASE child.tag = "uses-feature"
      <4>1. new = [o EXCEPT !.features = IF child.name.id = "" THEN o.features ELSE Manifest!Once(o.features, child.name)]
        BY <3>2 DEF Manifest!AddChild, Manifest!componentTags
      <4>2. [o EXCEPT !.features = o.features] = o
        BY DEF Merged
      <4> QED BY <4>1, <4>2
    <3>3. CASE child.tag = "queries"
      BY <3>3 DEF Manifest!AddChild, Merged, Manifest!componentTags
    <3>4. CASE child.tag \notin {"uses-sdk", "uses-feature", "queries"}
      BY <3>4, <1>o DEF Manifest!AddChild, Merged, Manifest!componentTags, Components
    <3> QED BY <3>1, <3>2, <3>3, <3>4
  <2>3. new \in Merged /\ new.permissions = o.permissions /\ new.components = o.components
    <3>1. o.features \in Seq([pkg : STRING, id : STRING]) /\ o.queries \in Seq(Manifest!Element) /\ o.top \in Seq(Manifest!Element)
      BY DEF Merged
    <3>2. /\ Manifest!Once(o.features, child.name) \in Seq([pkg : STRING, id : STRING])
          /\ Manifest!Once(o.queries, child) \in Seq(Manifest!Element)
          /\ Manifest!Once(o.top, child) \in Seq(Manifest!Element)
      BY <1>2, <3>1, OnceAdds
    <3> HIDE DEF new
    <3> QED BY <2>2, <3>2 DEF Merged
  <2>4. granted(all2) = granted(elements) /\ placed(all2) = placed(elements)
    BY <2>1, <1>o
  <2>6. ASSUME NEW i \in DOMAIN o.components PROVE Like(o.components[i], all2) = Like(o.components[i], elements)
    <3>1. <<o.components[i].tag, o.components[i].name>> \in Manifest!Tags(o.components)
      BY DEF Manifest!Tags
    <3>2. o.components[i].tag \in Components
      BY <3>1 DEF Declares
    <3> QED BY <3>2, <2>1, <1>o DEF Like
  <2> HIDE DEF new, c, all2
  <2> QED BY <2>3, <2>4, <2>6 DEF Declares, new, all2, c
<1> QED BY <1>p, <1>c, <1>o

\* What there is to read is manifests of elements.
LEMMA ReadIsTyped ==
    ASSUME sources \in Sources, Sources \subseteq Seq(Manifest!Source)
    PROVE  /\ sources \in Seq(Manifest!Source) /\ DOMAIN sources = 1 .. Len(sources) /\ Len(sources) \in Nat
           /\ \A i \in 1 .. Len(sources) :
                 /\ sources[i].pkg \in STRING /\ sources[i].children \in Seq(Manifest!Element)
                 /\ DOMAIN sources[i].children = 1 .. Len(sources[i].children) /\ Len(sources[i].children) \in Nat
                 /\ \A j \in 1 .. Len(sources[i].children) : ElementAt(<<i, j>>) \in Manifest!Element
           /\ ElementsRead \subseteq Manifest!Element
<1>1. sources \in Seq(Manifest!Source) /\ DOMAIN sources = 1 .. Len(sources) /\ Len(sources) \in Nat
  OBVIOUS
<1>2. ASSUME NEW i \in 1 .. Len(sources)
      PROVE  /\ sources[i].pkg \in STRING /\ sources[i].children \in Seq(Manifest!Element)
             /\ DOMAIN sources[i].children = 1 .. Len(sources[i].children) /\ Len(sources[i].children) \in Nat
             /\ \A j \in 1 .. Len(sources[i].children) : ElementAt(<<i, j>>) \in Manifest!Element
  <2>1. sources[i] \in Manifest!Source
    BY <1>1
  <2>2. sources[i].pkg \in STRING /\ sources[i].children \in Seq(Manifest!Element)
    BY <2>1 DEF Manifest!Source
  <2>3. ASSUME NEW j \in 1 .. Len(sources[i].children) PROVE ElementAt(<<i, j>>) \in Manifest!Element
    <3>1. sources[i].children[j] \in Manifest!Element
      BY <2>2
    <3> QED BY <2>2, <3>1, Qualified DEF ElementAt
  <2> QED BY <2>2, <2>3
<1>3. ElementsRead \subseteq Manifest!Element
  BY <1>2 DEF ElementsRead, ChildrenRead, ElementAt
<1> QED BY <1>1, <1>2, <1>3

\* Nothing is read and nothing is merged.
LEMMA ManifestStart ==
    ASSUME Sources \subseteq Seq(Manifest!Source), Manifest!Init
    PROVE  ManifestInv
<1>1. sources \in Sources /\ src = 1 /\ nth = 1 /\ out = Manifest!Nothing
  BY DEF Manifest!Init
<1>2. ElementsRead = {}
  BY <1>1 DEF ElementsRead, ChildrenRead
<1>3. out \in Merged
  BY <1>1 DEF Manifest!Nothing, Merged
<1>4. out.permissions = <<>> /\ out.components = <<>>
  BY <1>1 DEF Manifest!Nothing
<1>5. Declares(out, {})
  BY <1>4 DEF Declares, Manifest!ToSet, Manifest!Distinct, Manifest!Tags
<1> QED BY <1>1, <1>2, <1>3, <1>5 DEF ManifestInv

\* One child more, the next manifest, or an error.
LEMMA ManifestStep ==
    ASSUME Sources \subseteq Seq(Manifest!Source), ManifestInv, [Manifest!Next]_(Manifest!vars)
    PROVE  ManifestInv'
<1> USE DEF ManifestInv
<1>1. CASE Manifest!Merge
  <2>1. /\ UNCHANGED <<sources, src>> /\ nth' = nth + 1 /\ src \in 1 .. Len(sources) /\ nth \in 1 .. Len(sources[src].children)
        /\ out' = Manifest!AddChild(out, sources[src].children[nth], sources[src].pkg)
    BY <1>1, ReadIsTyped DEF Manifest!Merge, Manifest!Reading, Manifest!Child
  <2>2. ChildrenRead' = ChildrenRead \cup {<<src, nth>>}
    BY <2>1, ReadIsTyped DEF ChildrenRead
  <2>3. ElementsRead' = ElementsRead \cup {ElementAt(<<src, nth>>)}
    BY <2>1, <2>2 DEF ElementsRead, ElementAt
  <2>4. sources[src].children[nth] \in Manifest!Element /\ sources[src].pkg \in STRING
    BY <2>1, ReadIsTyped
  <2>5. ElementAt(<<src, nth>>) = Manifest!qualifyComponent(sources[src].children[nth], sources[src].pkg)
    BY DEF ElementAt
  <2>6. ElementsRead \subseteq Manifest!Element
    BY ReadIsTyped
  <2>7. out' \in Merged /\ Declares(out', ElementsRead \cup {ElementAt(<<src, nth>>)})
    BY <2>1, <2>4, <2>5, <2>6, ChildAdds
  <2>8. Declares(out', ElementsRead') = Declares(out, ElementsRead)'
    BY DEF Declares
  <2> QED BY <2>1, <2>3, <2>7, <2>8
<1>2. CASE Manifest!NextSource
  <2>1. /\ UNCHANGED <<sources, out>> /\ src' = src + 1 /\ nth' = 1 /\ src \in 1 .. Len(sources)
        /\ nth > Len(sources[src].children)
    BY <1>2, ReadIsTyped DEF Manifest!NextSource, Manifest!Reading
  <2>2. ChildrenRead' = ChildrenRead
    BY <2>1, ReadIsTyped DEF ChildrenRead
  <2>3. ElementsRead' = ElementsRead
    BY <2>1, <2>2 DEF ElementsRead, ElementAt
  <2> QED BY <2>1, <2>3 DEF Declares
<1>3. CASE Manifest!Unresolved \/ UNCHANGED Manifest!vars
  <2>1. UNCHANGED <<sources, src, nth, out>>
    BY <1>3 DEF Manifest!Unresolved, Manifest!vars
  <2>2. UNCHANGED ElementsRead
    BY <2>1 DEF ElementsRead, ChildrenRead, ElementAt
  <2> QED BY <2>1, <2>2 DEF Declares
<1> QED BY <1>1, <1>2, <1>3 DEF Manifest!Next

\* When all is read, each declaration is there once.
LEMMA ManifestSafe ==
    ASSUME Sources \subseteq Seq(Manifest!Source), ManifestInv
    PROVE  Manifest!EveryDeclarationOnce
<1> SUFFICES ASSUME src > Len(sources) PROVE Manifest!EveryDeclarationOnce
  BY DEF Manifest!EveryDeclarationOnce
<1> USE DEF ManifestInv
<1>1. ElementsRead = Manifest!Elements
  <2>1. ASSUME NEW e \in ElementsRead PROVE e \in Manifest!Elements
    <3>1. PICK p \in ChildrenRead : e = ElementAt(p)
      BY DEF ElementsRead
    <3>2. /\ p[1] \in DOMAIN sources /\ p[2] \in DOMAIN sources[p[1]].children
      BY ReadIsTyped DEF ChildrenRead
    <3>3. sources[p[1]] \in Manifest!ToSet(sources)
      BY <3>2 DEF Manifest!ToSet
    <3> QED BY <3>1, <3>2, <3>3 DEF Manifest!Elements, ElementAt
  <2>2. ASSUME NEW e \in Manifest!Elements PROVE e \in ElementsRead
    <3>1. PICK s \in Manifest!ToSet(sources) : \E j \in DOMAIN s.children : e = Manifest!qualifyComponent(s.children[j], s.pkg)
      BY DEF Manifest!Elements
    <3>2. PICK i \in DOMAIN sources : s = sources[i]
      BY DEF Manifest!ToSet
    <3>3. PICK j \in DOMAIN s.children : e = Manifest!qualifyComponent(s.children[j], s.pkg)
      BY <3>1
    <3>4. <<i, j>> \in ChildrenRead
      BY <3>2, ReadIsTyped DEF ChildrenRead
    <3> QED BY <3>2, <3>3, <3>4 DEF ElementsRead, ElementAt
  <2> QED BY <2>1, <2>2
<1>2. out.components \in Seq(Manifest!Element)
  BY DEF Merged
<1>3. Manifest!Of({"uses-permission"}) = {x \in ElementsRead : x.tag = "uses-permission"}
  BY <1>1 DEF Manifest!Of
<1>4. Manifest!Of(Manifest!componentTags \cup {"meta-data"}) = {x \in ElementsRead : x.tag \in Components}
  BY <1>1 DEF Manifest!Of, Components
<1>5. ASSUME NEW i \in DOMAIN out.components, NEW j \in DOMAIN out.components,
             Manifest!Tags(<<out.components[i]>>) = Manifest!Tags(<<out.components[j]>>)
      PROVE  i = j
  <2>1. \A x : Manifest!Tags(<<x>>) = {<<x.tag, x.name>>}
    BY DEF Manifest!Tags
  <2>2. <<out.components[i].tag, out.components[i].name>> = <<out.components[j].tag, out.components[j].name>>
    BY <2>1, <1>5
  <2> QED BY <2>2 DEF Declares
<1>6. ASSUME NEW c \in Manifest!ToSet(out.components), ~c.empty
      PROVE  c.meta = UNION {e.meta : e \in {x \in Manifest!Of({c.tag}) : x.name = c.name}}
  <2>1. PICK i \in DOMAIN out.components : c = out.components[i]
    BY DEF Manifest!ToSet
  <2>2. {x \in Manifest!Of({c.tag}) : x.name = c.name} = Like(c, ElementsRead)
    BY <1>1 DEF Manifest!Of, Like
  <2> QED BY <1>6, <2>1, <2>2 DEF Declares
<1> QED BY <1>3, <1>4, <1>5, <1>6 DEF Manifest!EveryDeclarationOnce, Declares


(***************************************************************************)
(* The fonts: the names of the faces, what is derived from the notes, and  *)
(* what a command has still to do.                                         *)
(***************************************************************************)
NameParts == {"face"} \cup STRING \cup Nat
FontName == Seq(NameParts)
FaceAsked == [file : FontName, range : Nat, body : Nat]
Named == [file : FontName, range : Nat, body : Nat, asked : FaceAsked]
Notes == [file : FontName, range : Nat, hash : Nat]

\* A family comes in faces as the proofs take them.
LEMMA FontsAsked == Roles \in Seq(STRING) /\ Roles # <<>> /\ Faces \subseteq FaceAsked
<1>1. Seq(STRING) \subseteq FontName
  BY DEF FontName, NameParts
<1> QED BY <1>1, FontsAssumption DEF FaceAsked

FilesOf(faceSeq) == {faceSeq[i].file : i \in DOMAIN faceSeq}

\* What follows the name and the hash tells the numbers apart.
LEMMA NumbersDiffer ==
    ASSUME NEW f \in FaceAsked, NEW j \in Nat, NEW k \in Nat, Font!Numbered(f, j) = Font!Numbered(f, k)
    PROVE  j = k /\ Font!Numbered(f, k) \in FontName
<1> DEFINE S == NameParts
           n == Len(f.file)
<1>1. f.file \in Seq(S) /\ n \in Nat /\ <<f.body, j>> \in Seq(S) /\ <<f.body, k>> \in Seq(S)
  <2>1. f.file \in FontName /\ f.body \in Nat
    BY DEF FaceAsked
  <2>2. \A x \in Nat : x \in NameParts
    BY DEF NameParts
  <2> QED BY <2>1, <2>2 DEF FontName
<1>2. /\ f.file \o <<f.body, k>> \in Seq(S)
      /\ (f.file \o <<f.body, k>>)[n + 2] = k
      /\ (f.file \o <<f.body, j>>)[n + 2] = j
  <2> HIDE DEF S
  <2>1. /\ \A i \in 1 .. n + 2 : (f.file \o <<f.body, k>>)[i] = IF i <= n THEN f.file[i] ELSE <<f.body, k>>[i - n]
        /\ \A i \in 1 .. n + 2 : (f.file \o <<f.body, j>>)[i] = IF i <= n THEN f.file[i] ELSE <<f.body, j>>[i - n]
        /\ f.file \o <<f.body, k>> \in Seq(S)
    BY <1>1, ConcatProperties
  <2>2. n + 2 \in 1 .. n + 2 /\ ~(n + 2 <= n) /\ (n + 2) - n = 2
    BY <1>1
  <2> QED BY <2>1, <2>2
<1> QED BY <1>2 DEF Font!Numbered, FontName

\* Some number up to one more than the names in use is free, and the least is taken.
LEMMA FreshIsFree ==
    ASSUME NEW f \in FaceAsked, NEW busy, IsFiniteSet(busy)
    PROVE  Font!Fresh(f, busy) \notin busy /\ Font!Fresh(f, busy) \in FontName
<1> DEFINE c == Cardinality(busy)
           N == 2 .. c + 2
           Free == {k \in N : Font!Numbered(f, k) \notin busy}
<1>1. c \in Nat
  BY FS_CardinalityType
<1>2. Font!Cardinality(busy) = c
  BY DEF Font!Cardinality, Cardinality
<1>3. Free # {}
  <2> SUFFICES ASSUME Free = {} PROVE FALSE
    OBVIOUS
  <2> DEFINE g == [k \in N |-> Font!Numbered(f, k)]
  <2>1. g \in [N -> busy]
    OBVIOUS
  <2>2. \A j, k \in N : g[j] = g[k] => j = k
    <3> TAKE j, k \in N
    <3>1. j \in Nat /\ k \in Nat
      BY <1>1
    <3> QED BY <3>1, NumbersDiffer
  <2>3. IsFiniteSet(N) /\ Cardinality(N) = c + 1
    <3>1. /\ IsFiniteSet(2 .. c + 2)
          /\ Cardinality(2 .. c + 2) = IF 2 > c + 2 THEN 0 ELSE (c + 2) - 2 + 1
      <4>1. 2 \in Int /\ c + 2 \in Int
        BY <1>1
      <4> HIDE DEF c
      <4> QED BY <4>1, FS_Interval
    <3>2. ~(2 > c + 2) /\ (c + 2) - 2 + 1 = c + 1
      BY <1>1
    <3> QED BY <3>1, <3>2
  <2>4. c < Cardinality(N)
    BY <1>1, <2>3
  <2> HIDE DEF g, N
  <2> QED BY <2>1, <2>2, <2>3, <2>4, FS_PigeonHole
<1>4. PICK k \in Free : \A j \in Free : k <= j
  <2>1. Free \subseteq Nat
    BY <1>1
  <2> HIDE DEF Free
  <2> QED BY <1>3, <2>1, Least
<1>5. Font!Numbered(f, k) \notin busy /\ \A j \in 2 .. k - 1 : Font!Numbered(f, j) \in busy
  <2>1. ASSUME NEW j \in 2 .. k - 1 PROVE Font!Numbered(f, j) \in busy
    <3>1. k \in 2 .. c + 2
      OBVIOUS
    <3>2. j \in 2 .. c + 2 /\ ~(k <= j)
      BY <1>1, <2>1, <3>1
    <3>3. j \notin Free
      <4> HIDE DEF Free
      <4> QED BY <1>4, <3>2
    <3> QED BY <3>2, <3>3
  <2> QED BY <2>1
<1> DEFINE h == CHOOSE i \in 2 .. Font!Cardinality(busy) + 2 :
                   Font!Numbered(f, i) \notin busy /\ \A j \in 2 .. i - 1 : Font!Numbered(f, j) \in busy
<1>6. h \in N /\ Font!Numbered(f, h) \notin busy
  <2>1. k \in 2 .. Font!Cardinality(busy) + 2
    BY <1>2
  <2> QED BY <1>2, <1>5, <2>1
<1>7. Font!Numbered(f, h) \in FontName
  <2>1. h \in Nat
    BY <1>1, <1>6
  <2> HIDE DEF h
  <2> QED BY <2>1, NumbersDiffer
<1>8. f.file \in FontName /\ Append(f.file, f.body) \in FontName
  <2>1. f.file \in FontName /\ f.body \in NameParts
    BY DEF FaceAsked, NameParts
  <2> QED BY <2>1, AppendProperties DEF FontName
<1>9. Font!Fresh(f, busy) =
        IF f.file \notin busy THEN f.file
        ELSE IF Append(f.file, f.body) \notin busy THEN Append(f.file, f.body)
        ELSE Font!Numbered(f, h)
  BY DEF Font!Fresh
<1> HIDE DEF h
<1> QED BY <1>6, <1>7, <1>8, <1>9

Different(faceSeq) == \A i, j \in DOMAIN faceSeq : faceSeq[i].file = faceSeq[j].file => i = j

\* A sequence of faces has finitely many names.
LEMMA FilesAreFinite ==
    ASSUME NEW S, NEW o \in Seq(S)
    PROVE  IsFiniteSet(FilesOf(o))
<1> DEFINE g == [i \in 1 .. Len(o) |-> o[i].file]
<1>1. Len(o) \in Nat /\ DOMAIN o = 1 .. Len(o)
  OBVIOUS
<1>2. IsFiniteSet(1 .. Len(o))
  BY <1>1, FS_Interval
<1>3. g \in Surjection(1 .. Len(o), FilesOf(o))
  BY <1>1 DEF Surjection, FilesOf
<1> HIDE DEF g
<1> QED BY <1>2, <1>3, FS_Surjection

\* One face more is named apart from those before it and from those in use.
LEMMA NameOneAdds ==
    ASSUME NEW o \in Seq(Named), NEW f \in FaceAsked, NEW busy, IsFiniteSet(busy)
    PROVE  /\ Font!NameOne(o, f, busy) \in Seq(Named)
           /\ Different(o) /\ FilesOf(o) \cap busy = {} =>
                 Different(Font!NameOne(o, f, busy)) /\ FilesOf(Font!NameOne(o, f, busy)) \cap busy = {}
<1>1. CASE \E i \in DOMAIN o : o[i].asked = f
  BY <1>1 DEF Font!NameOne
<1>2. CASE ~ \E i \in DOMAIN o : o[i].asked = f
  <2> DEFINE inUse == busy \cup FilesOf(o)
             x == [file |-> Font!Fresh(f, inUse), range |-> f.range, body |-> f.body, asked |-> f]
  <2>1. Font!NameOne(o, f, busy) = Append(o, x)
    BY <1>2 DEF Font!NameOne, FilesOf
  <2>2. IsFiniteSet(inUse)
    BY FilesAreFinite, FS_Union
  <2>3. Font!Fresh(f, inUse) \notin inUse /\ Font!Fresh(f, inUse) \in FontName
    <3> HIDE DEF inUse
    <3> QED BY <2>2, FreshIsFree
  <2>4. x \in Named /\ x.file = Font!Fresh(f, inUse)
    <3>1. f.range \in Nat /\ f.body \in Nat
      BY DEF FaceAsked
    <3> QED BY <2>3, <3>1 DEF Named
  <2> HIDE DEF x
  <2>5. /\ Append(o, x) \in Seq(Named) /\ Len(o) \in Nat /\ DOMAIN o = 1 .. Len(o)
        /\ DOMAIN Append(o, x) = 1 .. Len(o) + 1
        /\ \A i \in 1 .. Len(o) : Append(o, x)[i] = o[i]
        /\ Append(o, x)[Len(o) + 1] = x
    BY <2>4, AppendProperties
  <2>6. \A i \in 1 .. Len(o) : o[i].file # x.file
    BY <2>3, <2>4, <2>5 DEF FilesOf
  <2>7. x.file \notin busy
    BY <2>3, <2>4
  <2>8. ASSUME Different(o), FilesOf(o) \cap busy = {}
        PROVE  Different(Append(o, x)) /\ FilesOf(Append(o, x)) \cap busy = {}
    <3>1. \A i \in 1 .. Len(o) + 1 : i \in 1 .. Len(o) \/ i = Len(o) + 1
      BY <2>5
    <3>2. Different(Append(o, x))
      BY <2>5, <2>6, <2>8, <3>1 DEF Different
    <3>3. FilesOf(Append(o, x)) \cap busy = {}
      BY <2>5, <2>7, <2>8, <3>1 DEF FilesOf
    <3> QED BY <3>2, <3>3
  <2> QED BY <2>1, <2>5, <2>8
<1> QED BY <1>1, <1>2

\* A family of any length is named apart, and from what is in use (uniqueFaceFiles).
LEMMA NamesAreFree ==
    ASSUME NEW g \in Seq(FaceAsked), NEW busy, IsFiniteSet(busy)
    PROVE  LET named == Font!uniqueFaceFiles(g, busy)
           IN  named \in Seq(Named) /\ Different(named) /\ FilesOf(named) \cap busy = {}
<1> DEFINE N == Len(g)
           step == [p \in Seq(Named) \X (1 .. N) |-> Font!NameOne(p[1], g[p[2]], busy)]
           MadeSo(F) == F = [n \in 0 .. N |-> IF n = 0 THEN <<>> ELSE Font!NameOne(F[n - 1], g[n], busy)]
           F == CHOOSE F : MadeSo(F)
<1>1. N \in Nat /\ \A n \in 1 .. N : g[n] \in FaceAsked
  OBVIOUS
<1>2. step \in [Seq(Named) \X (1 .. N) -> Seq(Named)]
  BY <1>1, NameOneAdds
<1>3. PICK H \in [0 .. N -> Seq(Named)] : H[0] = <<>> /\ \A k \in 1 .. N : H[k] = step[<<H[k - 1], k>>]
  <2> DEFINE X == Seq(Named)
             e == <<>>
  <2>1. N \in Nat /\ e \in X /\ step \in [X \X (1 .. N) -> X]
    BY <1>1, <1>2
  <2> HIDE DEF N, step, X, e
  <2>2. \E f \in [0 .. N -> X] : Makes(f, N, e, step)
    BY <2>1, Recursion
  <2> QED BY <2>2 DEF X, e, Makes
<1>4. \A k \in 1 .. N : k - 1 \in 0 .. N /\ H[k] = Font!NameOne(H[k - 1], g[k], busy)
  <2> TAKE k \in 1 .. N
  <2>1. k - 1 \in 0 .. N
    BY <1>1
  <2>2. <<H[k - 1], k>> \in Seq(Named) \X (1 .. N)
    BY <2>1
  <2> QED BY <1>3, <2>1, <2>2
<1>5. MadeSo(H)
  <2>1. H = [n \in 0 .. N |-> H[n]]
    OBVIOUS
  <2>2. \A n \in 0 .. N : H[n] = IF n = 0 THEN <<>> ELSE Font!NameOne(H[n - 1], g[n], busy)
    <3> TAKE n \in 0 .. N
    <3>1. n # 0 => n \in 1 .. N
      BY <1>1
    <3> QED BY <1>3, <1>4, <3>1
  <2> HIDE DEF N, step
  <2> QED BY <2>1, <2>2
<1>6. MadeSo(F)
  <2> HIDE DEF MadeSo
  <2> QED BY <1>5
<1> HIDE DEF step
<1>7. /\ F[0] = <<>>
      /\ \A k \in 1 .. N : F[k] = Font!NameOne(F[k - 1], g[k], busy)
  <2> HIDE DEF F
  <2>1. 0 \in 0 .. N /\ \A k \in 1 .. N : k \in 0 .. N /\ k # 0
    BY <1>1
  <2> HIDE DEF N
  <2> QED BY <1>6, <2>1
<1>8. Font!uniqueFaceFiles(g, busy) = F[N]
  BY DEF Font!uniqueFaceFiles
<1> HIDE DEF F, MadeSo
<1> DEFINE T == {n \in 0 .. N : F[n] \in Seq(Named) /\ Different(F[n]) /\ FilesOf(F[n]) \cap busy = {}}
<1>9. 0 \in T
  <2>1. <<>> \in Seq(Named) /\ Different(<<>>) /\ FilesOf(<<>>) \cap busy = {}
    BY DEF Different, FilesOf
  <2>2. F[0] \in Seq(Named) /\ Different(F[0]) /\ FilesOf(F[0]) \cap busy = {}
    BY <1>7, <2>1
  <2> QED BY <1>1, <2>2
<1>10. ASSUME NEW n \in 0 .. N - 1, n \in T PROVE n + 1 \in T
  <2>1. n + 1 \in 1 .. N /\ (n + 1) - 1 = n /\ n + 1 \in 0 .. N
    BY <1>1
  <2>2. F[n + 1] = Font!NameOne(F[(n + 1) - 1], g[n + 1], busy)
    BY <1>7, <2>1
  <2>3. F[n + 1] = Font!NameOne(F[n], g[n + 1], busy)
    BY <2>1, <2>2
  <2>4. F[n] \in Seq(Named) /\ Different(F[n]) /\ FilesOf(F[n]) \cap busy = {} /\ g[n + 1] \in FaceAsked
    BY <1>1, <1>10, <2>1
  <2> DEFINE o == F[n]
             x == g[n + 1]
  <2>5. /\ Font!NameOne(o, x, busy) \in Seq(Named)
        /\ Different(Font!NameOne(o, x, busy)) /\ FilesOf(Font!NameOne(o, x, busy)) \cap busy = {}
    <3> HIDE DEF o, x
    <3>1. o \in Seq(Named) /\ Different(o) /\ FilesOf(o) \cap busy = {} /\ x \in FaceAsked
      BY <2>4 DEF o, x
    <3> QED BY <3>1, NameOneAdds
  <2>6. F[n + 1] \in Seq(Named) /\ Different(F[n + 1]) /\ FilesOf(F[n + 1]) \cap busy = {}
    BY <2>3, <2>5
  <2> QED BY <2>1, <2>6
<1>11. N \in T
  <2> HIDE DEF T
  <2>1. 0 .. N \subseteq T
    BY <1>1, <1>9, <1>10, InductionUpTo
  <2> QED BY <1>1, <2>1
<1> QED BY <1>8, <1>11

Once(seq) == \A i, j \in DOMAIN seq : seq[i] = seq[j] => i = j
AddName(names, x) == IF x \in Font!ToSet(names) THEN names ELSE Append(names, x)

\* One name more is registered, once.
LEMMA AddNameAdds ==
    ASSUME NEW names \in Seq(FontName), NEW x \in FontName
    PROVE  /\ AddName(names, x) \in Seq(FontName)
           /\ Font!ToSet(AddName(names, x)) = Font!ToSet(names) \cup {x}
           /\ Once(names) => Once(AddName(names, x))
<1>1. CASE x \in Font!ToSet(names)
  BY <1>1 DEF AddName
<1>2. CASE x \notin Font!ToSet(names)
  <2>1. AddName(names, x) = Append(names, x)
    BY <1>2 DEF AddName
  <2> DEFINE new == Append(names, x)
  <2>2. /\ new \in Seq(FontName) /\ Len(names) \in Nat
        /\ \A i \in 1 .. Len(names) : new[i] = names[i]
        /\ new[Len(names) + 1] = x
        /\ DOMAIN new = 1 .. Len(names) + 1 /\ DOMAIN names = 1 .. Len(names)
    BY AppendProperties
  <2>3. \A i \in 1 .. Len(names) + 1 : i \in 1 .. Len(names) \/ i = Len(names) + 1
    BY <2>2
  <2> HIDE DEF new
  <2>4. Font!ToSet(new) = Font!ToSet(names) \cup {x}
    BY <2>2, <2>3 DEF Font!ToSet
  <2>5. \A i \in 1 .. Len(names) : names[i] # x
    BY <1>2, <2>2 DEF Font!ToSet
  <2>6. Once(names) => Once(new)
    BY <2>2, <2>3, <2>5 DEF Once
  <2> QED BY <2>1, <2>2, <2>4, <2>6 DEF new
<1> QED BY <1>1, <1>2

\* Every name of any number of notes is registered, once.
LEMMA RegisteredOnce ==
    ASSUME NEW notes \in Seq(Notes)
    PROVE  /\ Font!ToSet(Font!Register(notes)) = {n.file : n \in Font!ToSet(notes)}
           /\ Once(Font!Register(notes))
<1> DEFINE N == Len(notes)
           step == [p \in Seq(FontName) \X (1 .. N) |-> AddName(p[1], notes[p[2]].file)]
           MadeSo(F) == F = [k \in 0 .. N |-> IF k = 0 THEN <<>>
                                            ELSE IF notes[k].file \in Font!ToSet(F[k - 1]) THEN F[k - 1]
                                            ELSE Append(F[k - 1], notes[k].file)]
           F == CHOOSE F : MadeSo(F)
           X == Seq(FontName)
           e == <<>>
<1>1. N \in Nat /\ \A k \in 1 .. N : notes[k] \in Notes /\ notes[k].file \in FontName
  <2>1. \A n \in Notes : n.file \in FontName
    BY DEF Notes
  <2>2. N \in Nat /\ \A k \in 1 .. N : notes[k] \in Notes
    OBVIOUS
  <2> QED BY <2>1, <2>2
<1>2. step \in [X \X (1 .. N) -> X] /\ e \in X
  BY <1>1, AddNameAdds
<1>3. PICK H \in [0 .. N -> X] : Makes(H, N, e, step)
  <2> HIDE DEF N, step, X, e
  <2> QED BY <1>1, <1>2, Recursion
<1>4. H[0] = <<>> /\ \A k \in 1 .. N : H[k] = AddName(H[k - 1], notes[k].file)
  <2>1. ASSUME NEW k \in 1 .. N PROVE H[k] = AddName(H[k - 1], notes[k].file)
    <3>1. k - 1 \in 0 .. N
      BY <1>1
    <3>2. <<H[k - 1], k>> \in Seq(FontName) \X (1 .. N)
      BY <3>1
    <3> QED BY <1>3, <3>1, <3>2 DEF Makes
  <2> QED BY <1>3, <2>1 DEF Makes
<1>5. MadeSo(H)
  <2>1. H = [k \in 0 .. N |-> H[k]]
    OBVIOUS
  <2>2. \A k \in 0 .. N : H[k] = IF k = 0 THEN <<>>
                                 ELSE IF notes[k].file \in Font!ToSet(H[k - 1]) THEN H[k - 1]
                                 ELSE Append(H[k - 1], notes[k].file)
    <3> TAKE k \in 0 .. N
    <3>1. k # 0 => k \in 1 .. N
      BY <1>1
    <3> QED BY <1>4, <3>1 DEF AddName
  <2> HIDE DEF N, step
  <2> QED BY <2>1, <2>2
<1>6. MadeSo(F)
  <2> HIDE DEF MadeSo
  <2> QED BY <1>5
<1> HIDE DEF step
<1>7. F[0] = <<>> /\ \A k \in 1 .. N : F[k] = AddName(F[k - 1], notes[k].file)
  <2> HIDE DEF F
  <2>1. 0 \in 0 .. N /\ \A k \in 1 .. N : k \in 0 .. N /\ k # 0
    BY <1>1
  <2> HIDE DEF N
  <2> QED BY <1>6, <2>1 DEF AddName
<1>8. Font!Register(notes) = F[N]
  BY DEF Font!Register
<1> HIDE DEF F, MadeSo
<1> DEFINE T == {n \in 0 .. N : /\ F[n] \in Seq(FontName) /\ Once(F[n])
                                /\ Font!ToSet(F[n]) = {notes[k].file : k \in 1 .. n}}
<1>9. 0 \in T
  <2>1. <<>> \in Seq(FontName) /\ Once(<<>>) /\ Font!ToSet(<<>>) = {} /\ 1 .. 0 = {}
    BY DEF Once, Font!ToSet
  <2>2. F[0] \in Seq(FontName) /\ Once(F[0]) /\ Font!ToSet(F[0]) = {notes[k].file : k \in 1 .. 0}
    BY <1>7, <2>1
  <2> QED BY <1>1, <2>2
<1>10. ASSUME NEW n \in 0 .. N - 1, n \in T PROVE n + 1 \in T
  <2>1. n + 1 \in 1 .. N /\ (n + 1) - 1 = n /\ n + 1 \in 0 .. N
    BY <1>1
  <2>2. F[n + 1] = AddName(F[(n + 1) - 1], notes[n + 1].file)
    BY <1>7, <2>1
  <2>3. F[n + 1] = AddName(F[n], notes[n + 1].file)
    BY <2>1, <2>2
  <2>4. F[n] \in Seq(FontName) /\ Once(F[n]) /\ notes[n + 1].file \in FontName
    BY <1>1, <1>10, <2>1
  <2>5. /\ F[n + 1] \in Seq(FontName) /\ Once(F[n + 1])
        /\ Font!ToSet(F[n + 1]) = Font!ToSet(F[n]) \cup {notes[n + 1].file}
    BY <2>3, <2>4, AddNameAdds
  <2>6. {notes[k].file : k \in 1 .. n + 1} = {notes[k].file : k \in 1 .. n} \cup {notes[n + 1].file}
    <3>1. 1 .. n + 1 = (1 .. n) \cup {n + 1}
      BY <2>1
    <3> QED BY <3>1
  <2>7. Font!ToSet(F[n]) = {notes[k].file : k \in 1 .. n}
    BY <1>10
  <2>8. Font!ToSet(F[n + 1]) = {notes[k].file : k \in 1 .. n + 1}
    BY <2>5, <2>6, <2>7
  <2> QED BY <2>1, <2>5, <2>8
<1>11. N \in T
  <2> HIDE DEF T
  <2>1. 0 .. N \subseteq T
    BY <1>1, <1>9, <1>10, InductionUpTo
  <2> QED BY <1>1, <2>1
<1>12. {n.file : n \in Font!ToSet(notes)} = {notes[k].file : k \in 1 .. N}
  BY DEF Font!ToSet
<1> QED BY <1>8, <1>11, <1>12

Typed(sections) == \A o \in DOMAIN sections : sections[o] \in Seq(Notes)

\* The notes of all roles, in order, are notes.
LEMMA NotesAreTyped ==
    ASSUME NEW sections, Typed(sections)
    PROVE  Font!NotesOf(sections) \in Seq(Notes)
<1> DEFINE seqs == [i \in DOMAIN Roles |-> Font!Listed(Roles[i], sections)]
<1>1. seqs \in Seq(Seq(Notes))
  <2>1. \A r : Font!Listed(r, sections) \in Seq(Notes)
    BY DEF Typed, Font!Listed
  <2>2. DOMAIN Roles = 1 .. Len(Roles) /\ Len(Roles) \in Nat
    BY FontsAsked
  <2> QED BY <2>1, <2>2
<1>2. Font!FlattenSeq(seqs) = Ext!FlattenSeq(seqs)
  BY DEF Font!FlattenSeq, Ext!FlattenSeq
<1>3. Font!NotesOf(sections) = Font!FlattenSeq(seqs)
  BY DEF Font!NotesOf
<1>4. Ext!FlattenSeq(seqs) \in Seq(Notes)
  <2> HIDE DEF seqs
  <2>1. PICK P \in [0 .. Len(seqs) -> Seq(Notes)] : EndsWith(P, seqs) /\ Ext!FlattenSeq(seqs) = P[Len(seqs)]
    BY <1>1, EndToEnd
  <2>2. Len(seqs) \in 0 .. Len(seqs)
    BY <1>1
  <2> QED BY <2>1, <2>2
<1> QED BY <1>2, <1>3, <1>4

OnDisk(n) == n.file \in DOMAIN woff /\ woff[n.file] = n.hash

\* A command under way: what it has written, and what it has still to write.
Working ==
    /\ fontAnswer # "nil"
    /\ \A o \in DOMAIN entries \ {role} : o \in DOMAIN toml /\ entries[o] = toml[o]
    /\ FilesOf(faces) \cap Font!filesOfOtherRoles(role) = {}
    /\ role \in DOMAIN entries =>
          /\ drop = <<>>
          /\ \A n \in Font!ToSet(entries[role]) :
                \/ \E i \in DOMAIN faces : n = Font!Note(faces[i])
                \/ n.file \notin FilesOf(faces) /\ OnDisk(n)
    /\ fontPc \in {"drop", "css", "go", "toml"} => faces = <<>>
    /\ fontPc \in {"go", "toml"} => css = Font!NotesOf(entries)
    /\ fontPc = "toml" => go = Font!Register(Font!NotesOf(entries))

\* What the notes name is on the disk, but for the role of a command that is under way or was cut.
FontInv ==
    /\ DOMAIN toml \subseteq Font!RoleSet \cup {"partial"} /\ Typed(toml)
    /\ DOMAIN entries \subseteq Font!RoleSet \cup {"partial"} /\ Typed(entries)
    /\ faces \in Seq(Named) /\ Different(faces) /\ drop \in Seq(Notes)
    /\ fontPc \in {"returned", "faces", "drop", "css", "go", "toml"}
    /\ fontPc # "returned" => Working
    /\ \A r \in DOMAIN toml \ broken :
          fontPc = "returned" \/ r # role => \A n \in Font!ToSet(toml[r]) : OnDisk(n)
    /\ fontAnswer = "nil" => css = Font!NotesOf(toml) /\ go = Font!Register(css)

LEMMA OneIsASeq ==
    ASSUME NEW S, NEW x \in S
    PROVE  <<x>> \in Seq(S) /\ Len(<<x>>) = 1 /\ <<x>>[1] = x
OBVIOUS

LEMMA PairIsASeq ==
    ASSUME NEW S, NEW x \in S, NEW y \in S
    PROVE  <<x, y>> \in Seq(S)
OBVIOUS

\* No font, or those of a manifest whose faces share a file.
LEMMA FontStart ==
    ASSUME Font!Init PROVE FontInv
<1>1. Typed(Font!NoSections) /\ DOMAIN Font!NoSections = {}
  BY DEF Typed, Font!NoSections
<1> DEFINE n == [file |-> <<"face">>, range |-> 1, hash |-> 1]
<1>2. Typed(Font!Shared) /\ DOMAIN Font!Shared = Font!RoleSet /\ \A r \in Font!RoleSet : Font!Shared[r] = <<n>>
  <2>1. n \in Notes
    <3>1. "face" \in NameParts
      BY DEF NameParts
    <3>2. <<"face">> \in FontName
      BY <3>1, OneIsASeq DEF FontName
    <3> QED BY <3>2 DEF Notes
  <2>2. DOMAIN Font!Shared = Font!RoleSet /\ \A r \in Font!RoleSet : Font!Shared[r] = <<n>>
    BY DEF Font!Shared
  <2> HIDE DEF n
  <2>3. <<n>> \in Seq(Notes)
    BY <2>1
  <2> QED BY <2>2, <2>3 DEF Typed
<1>3. \A r \in DOMAIN toml : \A m \in Font!ToSet(toml[r]) : OnDisk(m)
  <2>1. CASE toml = Font!NoSections
    BY <1>1, <2>1
  <2>2. CASE toml # Font!NoSections
    <3>1. toml = Font!Shared /\ woff = [f \in {<<"face">>} |-> 1]
      BY <2>2 DEF Font!Init
    <3>2. ASSUME NEW r \in DOMAIN toml, NEW m \in Font!ToSet(toml[r]) PROVE OnDisk(m)
      <4>1. toml[r] = <<n>>
        BY <1>2, <3>1
      <4>2. m = n
        BY <3>2, <4>1 DEF Font!ToSet
      <4> QED BY <3>1, <4>2 DEF OnDisk
    <3> QED BY <3>2
  <2> QED BY <2>1, <2>2
<1>4. faces = <<>> /\ drop = <<>> /\ fontPc = "returned" /\ fontAnswer = "none" /\ entries = Font!NoSections
      /\ toml \in {Font!NoSections, Font!Shared}
  BY DEF Font!Init
<1>5. <<>> \in Seq(Named) /\ <<>> \in Seq(Notes) /\ Different(<<>>)
  BY DEF Different
<1> QED BY <1>1, <1>2, <1>3, <1>4, <1>5 DEF FontInv

\* The other roles have finitely many files.
LEMMA OtherFilesAreFinite ==
    ASSUME NEW r, Typed(toml), DOMAIN toml \subseteq Font!RoleSet \cup {"partial"}
    PROVE  IsFiniteSet(Font!filesOfOtherRoles(r))
<1> DEFINE others == DOMAIN toml \ {r}
           S == {FilesOf(toml[o]) : o \in others}
<1>1. IsFiniteSet(Font!RoleSet)
  <2> DEFINE g == [i \in 1 .. Len(Roles) |-> Roles[i]]
  <2>1. Len(Roles) \in Nat /\ DOMAIN Roles = 1 .. Len(Roles)
    BY FontsAsked
  <2>2. g \in Surjection(1 .. Len(Roles), Font!RoleSet)
    BY <2>1 DEF Surjection, Font!RoleSet, Font!ToSet
  <2>3. IsFiniteSet(1 .. Len(Roles))
    BY <2>1, FS_Interval
  <2> HIDE DEF g
  <2> QED BY <2>2, <2>3, FS_Surjection
<1>2. IsFiniteSet(others)
  <2>1. IsFiniteSet(Font!RoleSet \cup {"partial"})
    BY <1>1, FS_AddElement
  <2>2. others \in SUBSET (Font!RoleSet \cup {"partial"})
    OBVIOUS
  <2> QED BY <2>1, <2>2, FS_Subset
<1>3. IsFiniteSet(S)
  <2> DEFINE g == [o \in others |-> FilesOf(toml[o])]
  <2>1. g \in Surjection(others, S)
    BY DEF Surjection
  <2> HIDE DEF g, S, others
  <2> QED BY <1>2, <2>1, FS_Surjection
<1>4. \A T \in S : IsFiniteSet(T)
  BY FilesAreFinite DEF Typed
<1>5. UNION S = Font!filesOfOtherRoles(r)
  BY DEF Font!filesOfOtherRoles, FilesOf, Font!ToSet
<1> HIDE DEF S
<1> QED BY <1>3, <1>4, <1>5, FS_UNION

\* A family has come: its faces are named, and its notes foreseen.
LEMMA FontAdds ==
    ASSUME FontInv, NEW r \in Font!RoleSet, NEW g \in Font!Requested, Font!fontAdd(r, g)
    PROVE  FontInv'
<1> DEFINE named == Font!uniqueFaceFiles(g, Font!filesOfOtherRoles(r))
           notes == [i \in DOMAIN named |-> Font!Note(named[i])]
<1>1. g \in Seq(FaceAsked)
  <2>1. CASE \E f \in Faces : g = <<f>>
    BY <2>1, FontsAsked, OneIsASeq
  <2>2. CASE \E f, h \in Faces : g = <<f, h>>
    <3>1. PICK f \in Faces, h \in Faces : g = <<f, h>>
      BY <2>2
    <3>2. f \in FaceAsked /\ h \in FaceAsked
      BY FontsAsked
    <3> QED BY <3>1, <3>2, PairIsASeq
  <2> QED BY <2>1, <2>2 DEF Font!Requested
<1>2. named \in Seq(Named) /\ Different(named) /\ FilesOf(named) \cap Font!filesOfOtherRoles(r) = {}
  BY <1>1, OtherFilesAreFinite, NamesAreFree DEF FontInv
<1>3. /\ toml' = toml /\ css' = css /\ go' = go /\ broken' = broken /\ woff' = woff
      /\ fontPc = "returned" /\ fontPc' = "faces" /\ fontAnswer' = "none" /\ role' = r
      /\ faces' = named /\ drop' = <<>>
      /\ entries' = [o \in DOMAIN toml \cup {r} |-> IF o = r THEN notes ELSE toml[o]]
  BY DEF Font!fontAdd, Font!Starts
<1>4. notes \in Seq(Notes) /\ DOMAIN notes = DOMAIN named /\ \A i \in DOMAIN named : notes[i] = Font!Note(named[i])
  <2> HIDE DEF named
  <2>1. \A x \in Named : Font!Note(x) \in Notes
    BY DEF Named, Notes, Font!Note
  <2> QED BY <1>2, <2>1
<1> HIDE DEF named, notes
<1>5. Typed(entries)' /\ DOMAIN entries' \subseteq Font!RoleSet \cup {"partial"} /\ entries'[r] = notes
  BY <1>3, <1>4 DEF FontInv, Typed
<1>6. Working'
  <2>1. (FilesOf(faces) \cap Font!filesOfOtherRoles(role))' = {}
    BY <1>2, <1>3 DEF FilesOf, Font!filesOfOtherRoles
  <2>2. \A n \in Font!ToSet(notes) : \E i \in DOMAIN named : n = Font!Note(named[i])
    BY <1>4 DEF Font!ToSet
  <2>3. \A o \in DOMAIN entries' \ {role'} : o \in DOMAIN toml' /\ entries'[o] = toml'[o]
    BY <1>3
  <2> QED BY <1>3, <1>5, <2>1, <2>2, <2>3 DEF Working, Font!ToSet
<1>7. Typed(toml)' /\ DOMAIN toml' \subseteq Font!RoleSet \cup {"partial"}
  BY <1>3 DEF FontInv, Typed
<1>8. \A s \in DOMAIN toml' \ broken' :
          (fontPc = "returned" \/ s # role)' => \A n \in Font!ToSet(toml'[s]) : OnDisk(n)'
  BY <1>3 DEF FontInv, OnDisk
<1>9. faces' \in Seq(Named) /\ Different(faces)' /\ drop' \in Seq(Notes)
  BY <1>2, <1>3 DEF Different
<1> QED BY <1>3, <1>5, <1>6, <1>7, <1>8, <1>9 DEF FontInv

\* A file of another role is not among those of the command.
LEMMA OthersAreApart ==
    ASSUME NEW o \in DOMAIN toml, o # role, NEW n \in Font!ToSet(toml[o])
    PROVE  n.file \in Font!filesOfOtherRoles(role)
BY DEF Font!filesOfOtherRoles

\* A face is written, which is of no other role.
LEMMA FontWrites ==
    ASSUME FontInv, Font!WriteFace
    PROVE  FontInv'
<1>0. PICK x : x = faces[1]
  OBVIOUS
<1>1. /\ toml' = toml /\ css' = css /\ go' = go /\ broken' = broken /\ entries' = entries /\ role' = role
      /\ drop' = drop /\ fontAnswer' = fontAnswer
      /\ fontPc = "faces" /\ faces # <<>> /\ faces' = Tail(faces)
      /\ fontPc' = IF Len(faces) = 1 THEN "css" ELSE "faces"
      /\ woff' = [f \in DOMAIN woff \cup {x.file} |-> IF f = x.file THEN x.body ELSE woff[f]]
  BY <1>0 DEF Font!WriteFace
<1>2. /\ Tail(faces) \in Seq(Named) /\ Len(faces) \in Nat \ {0} /\ Len(Tail(faces)) = Len(faces) - 1
      /\ DOMAIN faces = 1 .. Len(faces) /\ DOMAIN Tail(faces) = 1 .. Len(faces) - 1
      /\ \A i \in 1 .. Len(faces) - 1 : Tail(faces)[i] = faces[i + 1]
  <2>1. faces \in Seq(Named) /\ faces # <<>>
    BY <1>1 DEF FontInv
  <2> QED BY <2>1, HeadTailProperties, EmptySeq, LenProperties
<1>3. \A i \in 1 .. Len(faces) - 1 : i + 1 \in 1 .. Len(faces) /\ i + 1 # 1
  BY <1>2
<1>4. \A i \in 1 .. Len(faces) : i = 1 \/ (i - 1 \in 1 .. Len(faces) - 1 /\ (i - 1) + 1 = i)
  BY <1>2
<1>5. \A i, j \in DOMAIN faces : faces[i].file = faces[j].file => i = j
  BY DEF FontInv, Different
<1>6. Different(faces)'
  <2>1. ASSUME NEW i \in DOMAIN Tail(faces), NEW j \in DOMAIN Tail(faces), Tail(faces)[i].file = Tail(faces)[j].file
        PROVE  i = j
    <3>1. i \in 1 .. Len(faces) - 1 /\ j \in 1 .. Len(faces) - 1
      BY <1>2
    <3>2. faces[i + 1].file = faces[j + 1].file
      BY <1>2, <2>1, <3>1
    <3>3. i + 1 = j + 1
      BY <1>2, <1>3, <1>5, <3>1, <3>2
    <3> QED BY <3>1, <3>3
  <2> QED BY <1>1, <2>1 DEF Different
<1>7. FilesOf(faces)' \subseteq FilesOf(faces) /\ x.file \notin FilesOf(faces)'
  <2>1. ASSUME NEW i \in DOMAIN Tail(faces)
        PROVE  i + 1 \in DOMAIN faces /\ Tail(faces)[i] = faces[i + 1] /\ faces[i + 1].file # x.file
    <3>1. i \in 1 .. Len(faces) - 1 /\ 1 \in 1 .. Len(faces)
      BY <1>2
    <3> QED BY <1>0, <1>2, <1>3, <1>5, <3>1
  <2> QED BY <1>1, <2>1 DEF FilesOf
<1>8. \A n : n.file # x.file /\ OnDisk(n) => OnDisk(n)'
  BY <1>1 DEF OnDisk
<1>9. x.file \in FilesOf(faces) /\ x.file \notin Font!filesOfOtherRoles(role)
  <2>1. 1 \in DOMAIN faces
    BY <1>2
  <2> QED BY <1>0, <1>1, <2>1 DEF FilesOf, FontInv, Working
<1>10. \A i \in DOMAIN faces : i = 1 \/ \E j \in DOMAIN Tail(faces) : Tail(faces)[j] = faces[i]
  BY <1>2, <1>4
<1>11. OnDisk(Font!Note(x))' /\ Font!Note(x).file = x.file
  BY <1>1 DEF OnDisk, Font!Note
<1>12. Working'
  <2>1. Working
    BY <1>1 DEF FontInv
  <2>2. (FilesOf(faces) \cap Font!filesOfOtherRoles(role) = {})'
    BY <1>1, <1>7, <2>1 DEF Working, Font!filesOfOtherRoles
  <2>3. ASSUME role \in DOMAIN entries, NEW n \in Font!ToSet(entries[role])
        PROVE  \/ \E i \in DOMAIN Tail(faces) : n = Font!Note(Tail(faces)[i])
               \/ n.file \notin FilesOf(faces)' /\ OnDisk(n)'
    <3>1. CASE \E i \in DOMAIN faces : n = Font!Note(faces[i])
      <4>1. PICK i \in DOMAIN faces : n = Font!Note(faces[i])
        BY <3>1
      <4>2. CASE i = 1
        BY <1>0, <1>7, <1>11, <4>1, <4>2
      <4>3. CASE i # 1
        BY <1>10, <4>1, <4>3
      <4> QED BY <4>2, <4>3
    <3>2. CASE n.file \notin FilesOf(faces) /\ OnDisk(n)
      BY <1>7, <1>8, <1>9, <3>2
    <3> QED BY <2>1, <2>3, <3>1, <3>2 DEF Working
  <2>4. fontPc' \in {"drop", "css", "go", "toml"} => faces' = <<>>
    <3>1. CASE Len(faces) = 1
      <4>1. Len(Tail(faces)) = 0
        BY <1>2, <3>1
      <4> QED BY <1>1, <1>2, <4>1
    <3>2. CASE Len(faces) # 1
      BY <1>1, <3>2
    <3> QED BY <3>1, <3>2
  <2> QED BY <1>1, <2>1, <2>2, <2>3, <2>4 DEF Working
<1>13. \A r \in DOMAIN toml \ broken : r # role => \A n \in Font!ToSet(toml[r]) : OnDisk(n)'
  <2>1. ASSUME NEW r \in DOMAIN toml \ broken, r # role, NEW n \in Font!ToSet(toml[r]) PROVE OnDisk(n)'
    <3>1. OnDisk(n)
      BY <2>1 DEF FontInv
    <3>2. n.file \in Font!filesOfOtherRoles(role)
      BY <2>1, OthersAreApart
    <3> QED BY <1>8, <1>9, <3>1, <3>2
  <2> QED BY <2>1
<1>14. fontPc' \in {"css", "faces"}
  BY <1>1
<1> QED BY <1>1, <1>2, <1>6, <1>12, <1>13, <1>14 DEF FontInv, Typed, Working

\* A role is taken out: its notes are to be looked at.
LEMMA FontRemoves ==
    ASSUME FontInv, NEW r \in Font!RoleSet, Font!fontRemove(r)
    PROVE  FontInv'
<1>1. /\ toml' = toml /\ css' = css /\ go' = go /\ broken' = broken /\ woff' = woff
      /\ fontPc = "returned" /\ fontAnswer' = "none" /\ role' = r /\ r \in DOMAIN toml
      /\ faces' = <<>> /\ entries' = [o \in DOMAIN toml \ {r} |-> toml[o]]
      /\ drop' = toml[r] /\ fontPc' = IF drop' = <<>> THEN "css" ELSE "drop"
  BY DEF Font!fontRemove, Font!Starts
<1>2. toml[r] \in Seq(Notes)
  BY <1>1 DEF FontInv, Typed
<1>3. Typed(toml)' /\ Typed(entries)' /\ DOMAIN entries' \subseteq Font!RoleSet \cup {"partial"}
  BY <1>1 DEF FontInv, Typed
<1>4. Working'
  <2>1. (FilesOf(faces) \cap Font!filesOfOtherRoles(role) = {})'
    BY <1>1 DEF FilesOf
  <2> QED BY <1>1, <2>1 DEF Working
<1>5. faces' \in Seq(Named) /\ Different(faces)'
  BY <1>1 DEF Different
<1>6. \A s \in DOMAIN toml' \ broken' : \A n \in Font!ToSet(toml'[s]) : OnDisk(n)'
  BY <1>1 DEF FontInv, OnDisk
<1>7. fontPc' \in {"css", "drop"}
  BY <1>1
<1> QED BY <1>1, <1>2, <1>3, <1>4, <1>5, <1>6, <1>7 DEF FontInv

\* A file that no other role has is removed.
LEMMA FontDrops ==
    ASSUME FontInv, Font!Drop
    PROVE  FontInv'
<1>0. PICK x : x = drop[1]
  OBVIOUS
<1>1. /\ toml' = toml /\ css' = css /\ go' = go /\ broken' = broken /\ entries' = entries /\ role' = role
      /\ faces' = faces /\ fontAnswer' = fontAnswer
      /\ fontPc = "drop" /\ drop # <<>> /\ drop' = Tail(drop) /\ fontPc' \in {"css", "drop"}
      /\ fontPc' = IF Len(drop) = 1 THEN "css" ELSE "drop"
      /\ woff' = [f \in DOMAIN woff \ ({x.file} \ Font!filesOfOtherRoles(role)) |-> woff[f]]
  BY <1>0 DEF Font!Drop
<1>2. Tail(drop) \in Seq(Notes)
  <2>1. drop \in Seq(Notes) /\ drop # <<>>
    BY <1>1 DEF FontInv
  <2> QED BY <2>1, HeadTailProperties
<1>3. \A n : n.file \in Font!filesOfOtherRoles(role) /\ OnDisk(n) => OnDisk(n)'
  BY <1>1 DEF OnDisk
<1>4. Working /\ role \notin DOMAIN entries
  <2>1. Working
    BY <1>1 DEF FontInv
  <2> QED BY <1>1, <2>1 DEF Working
<1>5. faces = <<>>
  BY <1>1, <1>4 DEF Working
<1>6. (FilesOf(faces) \cap Font!filesOfOtherRoles(role) = {})'
  <2>1. FilesOf(faces)' = {}
    BY <1>1, <1>5 DEF FilesOf
  <2> QED BY <2>1
<1>7. Working'
  BY <1>1, <1>4, <1>5, <1>6 DEF Working
<1>8. \A r \in DOMAIN toml \ broken : r # role => \A n \in Font!ToSet(toml[r]) : OnDisk(n)'
  <2>1. ASSUME NEW r \in DOMAIN toml \ broken, r # role, NEW n \in Font!ToSet(toml[r]) PROVE OnDisk(n)'
    <3>1. OnDisk(n)
      BY <2>1 DEF FontInv
    <3>2. n.file \in Font!filesOfOtherRoles(role)
      BY <2>1, OthersAreApart
    <3> QED BY <1>3, <3>1, <3>2
  <2> QED BY <2>1
<1> QED BY <1>1, <1>2, <1>7, <1>8, <1>4 DEF FontInv, Typed, Different, Working

\* A command that is refused changes nothing.
LEMMA FontStays ==
    ASSUME FontInv, UNCHANGED <<woff, toml, fontPc, role, entries, faces, drop, broken>>,
           UNCHANGED fontAnswer \/ (fontPc = "returned" /\ fontAnswer' = "none"), UNCHANGED <<css, go>>
    PROVE  FontInv'
<1>1. \A n : OnDisk(n)' <=> OnDisk(n)
  BY DEF OnDisk
<1>2. Typed(toml)' /\ Typed(entries)' /\ Different(faces)'
  BY DEF FontInv, Typed, Different
<1>3. fontPc # "returned" => Working'
  <2>1. FilesOf(faces)' = FilesOf(faces) /\ Font!filesOfOtherRoles(role)' = Font!filesOfOtherRoles(role)
    BY DEF FilesOf, Font!filesOfOtherRoles
  <2> QED BY <1>1, <2>1 DEF FontInv, Working
<1> QED BY <1>1, <1>2, <1>3 DEF FontInv

\* The stylesheet and the Go file follow from the notes.
LEMMA FontDerives ==
    ASSUME FontInv, Font!Stylesheet \/ Font!writeFontGo
    PROVE  FontInv'
<1>1. /\ UNCHANGED <<woff, toml, role, entries, faces, drop, broken, fontAnswer>>
      /\ \/ fontPc = "css" /\ fontPc' = "go" /\ css' = Font!NotesOf(entries) /\ go' = go
         \/ fontPc = "go" /\ fontPc' = "toml" /\ css' = css /\ go' = Font!Register(Font!NotesOf(entries))
  BY DEF Font!Stylesheet, Font!writeFontGo, Font!FontGoto
<1>2. \A n : OnDisk(n)' <=> OnDisk(n)
  BY <1>1 DEF OnDisk
<1>3. Typed(toml)' /\ Typed(entries)' /\ Different(faces)'
  BY <1>1 DEF FontInv, Typed, Different
<1>4. Working
  BY <1>1 DEF FontInv
<1>5. Font!NotesOf(entries)' = Font!NotesOf(entries)
  BY <1>1
<1>6. (FilesOf(faces) \cap Font!filesOfOtherRoles(role) = {})'
  BY <1>1, <1>4 DEF Working, FilesOf, Font!filesOfOtherRoles
<1>7. Working'
  <2>1. FilesOf(faces)' = FilesOf(faces)
    BY <1>1
  <2> QED BY <1>1, <1>2, <1>4, <1>5, <1>6, <2>1 DEF Working
<1> QED BY <1>1, <1>2, <1>3, <1>4, <1>7 DEF FontInv, Working

\* The manifest is written, and the command ends.
LEMMA FontEnds ==
    ASSUME FontInv, Font!writeManifest
    PROVE  FontInv'
<1>1. /\ fontPc = "toml" /\ fontPc' = "returned" /\ toml' = entries /\ broken' = broken \ {role}
      /\ entries' = Font!NoSections /\ faces' = faces /\ drop' = drop
      /\ css' = css /\ go' = go /\ woff' = woff
  BY DEF Font!writeManifest, Font!FontGoto
<1>2. Working
  BY <1>1 DEF FontInv
<1>3. faces = <<>> /\ css = Font!NotesOf(entries) /\ go = Font!Register(css)
  BY <1>1, <1>2 DEF Working
<1>4. css' = Font!NotesOf(toml') /\ go' = Font!Register(css')
  BY <1>1, <1>3
<1>5. ASSUME NEW r \in DOMAIN entries, r \notin broken \/ r = role, NEW n \in Font!ToSet(entries[r])
      PROVE  OnDisk(n)'
  <2>1. CASE r = role
    BY <1>1, <1>2, <1>3, <1>5, <2>1 DEF Working, OnDisk
  <2>2. CASE r # role
    <3>1. r \in DOMAIN toml \ broken /\ entries[r] = toml[r]
      BY <1>2, <1>5, <2>2 DEF Working
    <3> QED BY <1>1, <1>5, <2>2, <3>1 DEF FontInv, OnDisk
  <2> QED BY <2>1, <2>2
<1>6. Typed(toml)' /\ Typed(entries)' /\ Different(faces)' /\ DOMAIN entries' = {}
  BY <1>1 DEF FontInv, Typed, Different, Font!NoSections
<1>7. \A r \in DOMAIN toml' \ broken' : \A n \in Font!ToSet(toml'[r]) : OnDisk(n)'
  BY <1>1, <1>5
<1> QED BY <1>1, <1>4, <1>6, <1>7 DEF FontInv

\* A write fails or is cut: its role is broken until a command of it ends.
LEMMA FontIsCut ==
    ASSUME FontInv, Font!Cut
    PROVE  FontInv'
<1>1. /\ fontPc # "returned" /\ fontPc' = "returned" /\ broken' = broken \cup {role}
      /\ entries' = Font!NoSections /\ faces' = <<>> /\ drop' = <<>> /\ fontAnswer' = fontAnswer
  BY DEF Font!Cut
<1>2. Working
  BY <1>1 DEF FontInv
<1>3. Typed(entries)' /\ Different(faces)' /\ DOMAIN entries' = {} /\ faces' \in Seq(Named) /\ drop' \in Seq(Notes)
  BY <1>1 DEF Typed, Different, Font!NoSections
<1>4. fontAnswer' # "nil"
  BY <1>1, <1>2 DEF Working
<1>5. \A r \in DOMAIN toml \ broken : r # role => \A n \in Font!ToSet(toml[r]) : OnDisk(n)
  BY <1>1 DEF FontInv
<1>6. \A r \in DOMAIN toml \ broken : r # role => \A n \in Font!ToSet(toml[r]) : OnDisk(n)'
  <2>1. CASE woff' = woff
    BY <1>5, <2>1 DEF OnDisk
  <2>2. CASE /\ fontPc = "faces" /\ faces # <<>>
             /\ woff' = [f \in DOMAIN woff \cup {faces[1].file} |-> IF f = faces[1].file THEN 0 ELSE woff[f]]
    <3>1. faces[1].file \in FilesOf(faces)
      <4>1. faces \in Seq(Named) /\ faces # <<>>
        BY <2>2 DEF FontInv
      <4>2. 1 \in DOMAIN faces
        BY <4>1
      <4> QED BY <4>2 DEF FilesOf
    <3>2. faces[1].file \notin Font!filesOfOtherRoles(role)
      BY <1>2, <3>1 DEF Working
    <3>3. ASSUME NEW r \in DOMAIN toml \ broken, r # role, NEW n \in Font!ToSet(toml[r]) PROVE OnDisk(n)'
      <4>1. OnDisk(n) /\ n.file \in Font!filesOfOtherRoles(role)
        BY <1>5, <3>3, OthersAreApart
      <4> QED BY <2>2, <3>2, <4>1 DEF OnDisk
    <3> QED BY <3>3
  <2> QED BY <2>1, <2>2 DEF Font!Cut
<1>7. \/ toml' = toml
      \/ toml' = Font!Unreadable
      \/ /\ DOMAIN toml' \subseteq DOMAIN entries
         /\ \A r \in DOMAIN toml' : toml'[r] = entries[r]
  BY DEF Font!Cut
<1>8. CASE toml' = toml
  <2>1. Typed(toml)' /\ DOMAIN toml' \subseteq Font!RoleSet \cup {"partial"}
    BY <1>8 DEF FontInv, Typed
  <2>2. \A r \in DOMAIN toml' \ broken' : \A n \in Font!ToSet(toml'[r]) : OnDisk(n)'
    BY <1>1, <1>6, <1>8
  <2> QED BY <1>1, <1>3, <1>4, <2>1, <2>2 DEF FontInv
<1>9. CASE toml' = Font!Unreadable
  <2>1. DOMAIN toml' = {"partial"} /\ toml'["partial"] = <<>> /\ Font!ToSet(<<>>) = {}
    BY <1>9 DEF Font!Unreadable, Font!Partial, Font!ToSet
  <2>2. Typed(toml)'
    <3>1. <<>> \in Seq(Notes)
      OBVIOUS
    <3> QED BY <2>1, <3>1 DEF Typed
  <2> QED BY <1>1, <1>3, <1>4, <2>1, <2>2 DEF FontInv
<1>10. CASE /\ DOMAIN toml' \subseteq DOMAIN entries
            /\ \A r \in DOMAIN toml' : toml'[r] = entries[r]
  <2>1. Typed(toml)' /\ DOMAIN toml' \subseteq Font!RoleSet \cup {"partial"}
    BY <1>10 DEF FontInv, Typed
  <2>2. \A r \in DOMAIN toml' \ broken' : r \in DOMAIN toml \ broken /\ r # role /\ toml'[r] = toml[r]
    BY <1>1, <1>2, <1>10 DEF Working
  <2>3. \A r \in DOMAIN toml' \ broken' : \A n \in Font!ToSet(toml'[r]) : OnDisk(n)'
    BY <1>6, <2>2
  <2> QED BY <1>1, <1>3, <1>4, <2>1, <2>3 DEF FontInv
<1> QED BY <1>7, <1>8, <1>9, <1>10

\* Every step of a command keeps it.
LEMMA FontStep ==
    ASSUME FontInv, Font!Next \/ UNCHANGED fontFiles
    PROVE  FontInv'
<1>1. CASE UNCHANGED fontFiles
  <2>1. UNCHANGED <<woff, toml, fontPc, role, entries, faces, drop, broken>> /\ UNCHANGED fontAnswer /\ UNCHANGED <<css, go>>
    BY <1>1 DEF fontFiles
  <2> QED BY <2>1, FontStays
<1>2. CASE Font!Refuse
  <2>1. /\ UNCHANGED <<woff, toml, fontPc, role, entries, faces, drop, broken>> /\ UNCHANGED <<css, go>>
        /\ fontPc = "returned" /\ fontAnswer' = "none"
    BY <1>2 DEF Font!Refuse
  <2> QED BY <2>1, FontStays
<1>3. CASE \E r \in Font!RoleSet : Font!fontRemove(r) \/ \E g \in Font!Requested : Font!fontAdd(r, g)
  BY <1>3, FontAdds, FontRemoves
<1>4. CASE Font!WriteFace \/ Font!Drop
  BY <1>4, FontWrites, FontDrops
<1>5. CASE Font!Stylesheet \/ Font!writeFontGo
  BY <1>5, FontDerives
<1>6. CASE Font!writeManifest \/ Font!Cut
  BY <1>6, FontEnds, FontIsCut
<1> QED BY <1>1, <1>2, <1>3, <1>4, <1>5, <1>6 DEF Font!Next

\* After a command that ended, what is derived agrees with the notes.
LEMMA FontSafe ==
    ASSUME FontInv PROVE Font!FontsAgree
<1>1. ASSUME fontAnswer = "nil"
      PROVE  /\ css = Font!NotesOf(toml)
             /\ Font!ToSet(go) = {n.file : n \in Font!ToSet(css)} /\ \A i, j \in DOMAIN go : go[i] = go[j] => i = j
             /\ \A r \in DOMAIN toml \ broken : \A n \in Font!ToSet(toml[r]) : n.file \in DOMAIN woff /\ woff[n.file] = n.hash
  <2>1. css = Font!NotesOf(toml) /\ go = Font!Register(css) /\ fontPc = "returned"
    BY <1>1 DEF FontInv, Working
  <2>2. css \in Seq(Notes)
    BY <2>1, NotesAreTyped DEF FontInv
  <2>3. Font!ToSet(go) = {n.file : n \in Font!ToSet(css)} /\ Once(go)
    BY <2>1, <2>2, RegisteredOnce
  <2>4. \A r \in DOMAIN toml \ broken : \A n \in Font!ToSet(toml[r]) : OnDisk(n)
    BY <2>1 DEF FontInv
  <2> QED BY <2>1, <2>3, <2>4 DEF Once, OnDisk
<1> QED BY <1>1 DEF Font!FontsAgree

(***************************************************************************)
(* The skills.                                                             *)
(***************************************************************************)
SkillsType ==
    /\ touches \in Nat /\ DOMAIN file = Skill!Names /\ \E S : planned \in Seq(S)
    /\ \A i \in DOMAIN planned :
          planned[i] = [name |-> planned[i].name, existing |-> planned[i].existing, content |-> planned[i].content,
                        action |-> planned[i].action]
    /\ sPc \in {"called", "plan", "apply", "returned"}

Pending(i) == i \in DOMAIN planned /\ planned[i].action \in {"create", "update"}

\* A name is planned once, for the file that was read, which is there unless it was changed since.
SkillsPlan ==
    sPc \in {"plan", "apply"} =>
        /\ \A i \in DOMAIN planned : planned[i].name \in taken
        /\ \A i, j : Pending(i) /\ Pending(j) /\ planned[i].name = planned[j].name => i = j
        /\ \A i : Pending(i) => Skill!Allowed(planned[i])
        /\ \A i : Pending(i) /\ planned[i].name \in Skill!Names \ looked =>
              file[planned[i].name] = planned[i].existing

SkillsInv == SkillsType /\ SkillsPlan

\* Nothing is received.
LEMMA SkillsStart == Skill!Init => SkillsInv
<1>1. ASSUME Skill!Init PROVE planned \in Seq({}) /\ planned = << >>
  BY <1>1 DEF Skill!Init
<1>2. ASSUME Skill!Init PROVE SkillsType
  BY <1>1, <1>2 DEF Skill!Init, SkillsType
<1> QED BY <1>1, <1>2 DEF Skill!Init, SkillsInv, SkillsPlan

\* What a plan does not replace, and what it does.
LEMMA PlanKeeps ==
    ASSUME NEW s, NEW change, Skill!PlanOne(s, change.existing, forced) \in {"create", "update"},
           change.content = Skill!Stamp(s, change.existing)
    PROVE  Skill!Allowed(change)
<1>1. change.existing.there => change.existing.source = s.origin /\ (Skill!Edited(change.existing) => forced)
  BY DEF Skill!PlanOne
<1> QED BY <1>1 DEF Skill!Allowed, Skill!Stamp

\* One more file is planned, for what it was when it was looked at.
LEMMA SkillsPlanning ==
    ASSUME SkillsInv, Skill!Plan
    PROVE  SkillsInv'
<1> DEFINE s == received[1]
           f == file[s.name]
           again == s.name \in taken
           change == [name |-> s.name, existing |-> f, content |-> Skill!Stamp(s, f),
                      action |-> IF again THEN "kept" ELSE Skill!PlanOne(s, f, forced)]
<1>1. /\ sPc = "plan" /\ UNCHANGED <<file, touches, sPc, forced>>
      /\ planned' = Append(planned, change) /\ taken' = taken \cup {s.name}
      /\ looked' = IF again THEN looked ELSE looked \ {s.name}
  BY DEF Skill!Plan
<1>2. PICK S : planned \in Seq(S)
  BY DEF SkillsInv, SkillsType
<1> DEFINE n == Len(planned)
<1>3. planned \in Seq(S \cup {change}) /\ change \in S \cup {change}
  BY <1>2, SeqMonotonic
<1>4. /\ planned' \in Seq(S \cup {change}) /\ n \in Nat /\ DOMAIN planned = 1 .. n
      /\ DOMAIN planned' = 1 .. (n + 1) /\ planned'[n + 1] = change
      /\ \A i \in 1 .. n : planned'[i] = planned[i]
  BY <1>1, <1>3, AppendProperties, LenProperties
<1> HIDE DEF n
<1>a. \A i \in DOMAIN planned' : i \in 1 .. n \/ i = n + 1
  BY <1>4
<1>5. SkillsType'
  <2>2. change = [name |-> change.name, existing |-> change.existing, content |-> change.content,
                  action |-> change.action]
    OBVIOUS
  <2> HIDE DEF change
  <2> QED BY <1>1, <1>4, <1>a, <2>2 DEF SkillsInv, SkillsType
<1>6. change.name = s.name /\ change.existing = f /\ change.content = Skill!Stamp(s, f)
      /\ change.action = IF again THEN "kept" ELSE Skill!PlanOne(s, f, forced)
  OBVIOUS
<1> HIDE DEF change
<1>7. \A i \in DOMAIN planned' : planned'[i].name \in taken'
  BY <1>1, <1>4, <1>6 DEF SkillsInv, SkillsPlan
<1>8. ASSUME NEW i \in DOMAIN planned', Pending(i)'
      PROVE  (i \in 1 .. n /\ Pending(i)) \/ (i = n + 1 /\ ~again)
  <2>1. i \in 1 .. n \/ i = n + 1
    BY <1>a, <1>8
  <2>2. CASE i \in 1 .. n
    BY <1>4, <1>8, <2>2 DEF Pending
  <2>3. CASE i = n + 1
    <3>1. planned'[i] = change /\ planned'[i].action \in {"create", "update"}
      BY <1>4, <1>8, <2>3 DEF Pending
    <3>2. change.action \in {"create", "update"}
      BY <3>1
    <3> QED BY <1>6, <2>3, <3>2
  <2> QED BY <2>1, <2>2, <2>3
<1>9. ASSUME NEW i, NEW j, Pending(i)', Pending(j)', planned'[i].name = planned'[j].name
      PROVE  i = j
  <2>1. i \in DOMAIN planned' /\ j \in DOMAIN planned'
    BY <1>9 DEF Pending
  <2>2. CASE i \in 1 .. n /\ Pending(i) /\ j \in 1 .. n /\ Pending(j)
    BY <1>1, <1>4, <1>9, <2>2 DEF SkillsInv, SkillsPlan
  <2>3. CASE i \in 1 .. n /\ Pending(i) /\ j = n + 1 /\ ~again
    BY <1>1, <1>4, <1>6, <1>9, <2>3 DEF SkillsInv, SkillsPlan
  <2>4. CASE j \in 1 .. n /\ Pending(j) /\ i = n + 1 /\ ~again
    BY <1>1, <1>4, <1>6, <1>9, <2>4 DEF SkillsInv, SkillsPlan
  <2>5. (i \in 1 .. n /\ Pending(i)) \/ (i = n + 1 /\ ~again)
    BY <1>8, <1>9, <2>1
  <2>6. (j \in 1 .. n /\ Pending(j)) \/ (j = n + 1 /\ ~again)
    BY <1>8, <1>9, <2>1
  <2> QED BY <2>2, <2>3, <2>4, <2>5, <2>6
<1>10. ASSUME NEW i, Pending(i)', planned'[i].name \in Skill!Names \ looked'
       PROVE  file[planned'[i].name] = planned'[i].existing
  <2>1. i \in DOMAIN planned'
    BY <1>10 DEF Pending
  <2>2. CASE i \in 1 .. n /\ Pending(i)
    <3>1. planned[i].name \in taken /\ planned'[i] = planned[i]
      BY <1>1, <1>4, <2>2 DEF SkillsInv, SkillsPlan
    <3>2. planned[i].name \in Skill!Names \ looked
      BY <1>1, <1>10, <3>1
    <3> QED BY <1>1, <2>2, <3>1, <3>2 DEF SkillsInv, SkillsPlan
  <2>3. CASE i = n + 1 /\ ~again
    BY <1>4, <1>6, <2>3
  <2> QED BY <1>8, <1>10, <2>1, <2>2, <2>3
<1>12. ASSUME NEW i, Pending(i)'
       PROVE  Skill!Allowed(planned'[i])
  <2>1. i \in DOMAIN planned'
    BY <1>12 DEF Pending
  <2>2. CASE i \in 1 .. n /\ Pending(i)
    BY <1>1, <1>4, <2>2 DEF SkillsInv, SkillsPlan
  <2>3. CASE i = n + 1 /\ ~again
    <3>1. planned'[i] = change
      BY <1>4, <2>3
    <3>2. change.action \in {"create", "update"}
      BY <1>12, <3>1 DEF Pending
    <3>3. Skill!PlanOne(s, change.existing, forced) \in {"create", "update"}
      BY <1>6, <2>3, <3>2
    <3>4. change.content = Skill!Stamp(s, change.existing)
      BY <1>6
    <3>5. Skill!Allowed(change)
      BY <3>3, <3>4, PlanKeeps
    <3> QED BY <3>1, <3>5
  <2> QED BY <1>8, <1>12, <2>1, <2>2, <2>3
<1>13. \A i : Pending(i)' => Skill!Allowed(planned[i])'
  BY <1>1, <1>12 DEF Skill!Allowed
<1>11. SkillsPlan'
  BY <1>1, <1>7, <1>9, <1>10, <1>13 DEF SkillsPlan
<1> QED BY <1>5, <1>11 DEF SkillsInv

\* A planned file is written or fails.
LEMMA SkillsWriting ==
    ASSUME SkillsInv, NEW i \in Skill!Pending, Skill!Apply(i) \/ Skill!ApplyFails(i)
    PROVE  SkillsInv'
<1>1. /\ sPc = "apply" /\ UNCHANGED <<touches, forced, taken, looked>> /\ sPc' \in {"apply", "returned"}
      /\ planned' = [planned EXCEPT ![i].action = "written"]
  BY DEF Skill!Apply, Skill!ApplyFails, Skill!Written, Skill!SkillsGoto
<1>2. /\ DOMAIN file' = DOMAIN file
      /\ \A n \in DOMAIN file : n # planned[i].name => file'[n] = file[n]
  BY DEF Skill!Apply, Skill!ApplyFails
<1>3. PICK S : planned \in Seq(S)
  BY DEF SkillsInv, SkillsType
<1> DEFINE done == [planned[i] EXCEPT !.action = "written"]
<1>4. i \in DOMAIN planned /\ Pending(i)
  BY DEF Skill!Pending, Pending
<1>5. planned' = [planned EXCEPT ![i] = done]
  BY <1>1
<1>6. planned \in Seq(S \cup {done}) /\ i \in 1 .. Len(planned) /\ DOMAIN planned = 1 .. Len(planned)
  BY <1>3, <1>4, SeqMonotonic, LenProperties
<1>7. /\ planned' \in Seq(S \cup {done}) /\ DOMAIN planned' = DOMAIN planned
      /\ \A j \in DOMAIN planned : planned'[j] = IF j = i THEN done ELSE planned[j]
  BY <1>5, <1>6, ExceptSeq, LenProperties
<1>9. /\ done.name = planned[i].name /\ done.action = "written"
      /\ done = [name |-> done.name, existing |-> done.existing, content |-> done.content, action |-> done.action]
  <2>1. planned[i] = [name |-> planned[i].name, existing |-> planned[i].existing, content |-> planned[i].content,
                      action |-> planned[i].action]
    BY <1>4 DEF SkillsInv, SkillsType
  <2>2. done = [name |-> planned[i].name, existing |-> planned[i].existing, content |-> planned[i].content,
                action |-> "written"]
    BY <2>1
  <2> QED BY <2>2
<1> HIDE DEF done
<1>8. SkillsType'
  BY <1>1, <1>2, <1>7, <1>9 DEF SkillsInv, SkillsType
<1>a. \A j : Pending(j)' => Pending(j) /\ j # i /\ planned'[j] = planned[j]
  BY <1>7, <1>9 DEF Pending
<1>b. \A j \in DOMAIN planned' : planned'[j].name = planned[j].name
  BY <1>7, <1>9
<1>c. ASSUME NEW j, Pending(j)', planned'[j].name \in Skill!Names \ looked'
      PROVE  file'[planned'[j].name] = planned'[j].existing
  <2>1. Pending(j) /\ j # i /\ planned'[j] = planned[j]
    BY <1>a, <1>c
  <2>2. planned[j].name # planned[i].name
    BY <1>1, <1>4, <2>1 DEF SkillsInv, SkillsPlan
  <2> QED BY <1>1, <1>2, <1>c, <2>1, <2>2 DEF SkillsInv, SkillsType, SkillsPlan
<1>e. ASSUME NEW j, Pending(j)' PROVE Skill!Allowed(planned[j])'
  <2>1. Pending(j) /\ planned'[j] = planned[j]
    BY <1>a, <1>e
  <2>2. Skill!Allowed(planned[j])
    BY <1>1, <2>1 DEF SkillsInv, SkillsPlan
  <2> QED BY <1>1, <2>1, <2>2 DEF Skill!Allowed
<1>d. SkillsPlan'
  BY <1>1, <1>7, <1>a, <1>b, <1>c, <1>e DEF SkillsInv, SkillsPlan
<1> QED BY <1>8, <1>d DEF SkillsInv

\* A command, the developer, or a release.
LEMMA SkillsStep ==
    ASSUME SkillsInv, [Skill!Next]_(Skill!skills)
    PROVE  SkillsInv'
<1>1. CASE Skill!Call(TRUE) \/ Skill!Call(FALSE) \/ Skill!NoSource
  <2>1. CASE Skill!Call(TRUE) \/ Skill!Call(FALSE)
    <3>1. planned' = << >> /\ sPc' = "plan" /\ file' = file /\ touches' = touches
      BY <2>1 DEF Skill!Call
    <3>2. planned' \in Seq({})
      BY <3>1
    <3> QED BY <3>1, <3>2 DEF SkillsInv, SkillsType, SkillsPlan, Pending
  <2>2. CASE Skill!NoSource
    BY <2>2 DEF Skill!NoSource, SkillsInv, SkillsType, SkillsPlan
  <2> QED BY <1>1, <2>1, <2>2
<1>2. CASE Skill!Preview \/ Skill!Confirm \/ Skill!Done
  <2>1. CASE Skill!Preview
    <3>1. planned' = << >> /\ sPc' = "returned" /\ file' = file /\ touches' = touches
      BY <2>1 DEF Skill!Preview, Skill!SkillsGoto
    <3>2. planned' \in Seq({})
      BY <3>1
    <3> QED BY <3>1, <3>2 DEF SkillsInv, SkillsType, SkillsPlan
  <2>2. CASE Skill!Confirm \/ Skill!Done
    <3>1. UNCHANGED <<planned, file, touches, forced, taken, looked>> /\ sPc \in {"plan", "apply"} /\ sPc' \in {"apply", "returned"}
      BY <2>2 DEF Skill!Confirm, Skill!Done, Skill!SkillsGoto
    <3>2. SkillsType'
      BY <3>1 DEF SkillsInv, SkillsType
    <3>3. SkillsPlan'
      BY <3>1 DEF SkillsInv, SkillsPlan, Pending, Skill!Allowed
    <3> QED BY <3>2, <3>3 DEF SkillsInv
  <2> QED BY <1>2, <2>1, <2>2
<1>3. ASSUME NEW n \in Skill!Names, Skill!Touch(n)
      PROVE  SkillsInv'
  <2>1. /\ UNCHANGED <<planned, forced, taken, sPc>> /\ touches' = touches + 1 /\ looked' = looked \cup {n}
        /\ DOMAIN file' = DOMAIN file /\ \A m \in DOMAIN file : m # n => file'[m] = file[m]
    <3>1. \E new : file' = [file EXCEPT ![n] = new]
      <4>1. CASE file' = [file EXCEPT ![n].body = Skill!Changed]
        BY <4>1
      <4>2. CASE file' = [file EXCEPT ![n].custom = @ + 1]
        BY <4>2
      <4>3. CASE file' = [file EXCEPT ![n].lines = "crlf"]
        BY <4>3
      <4>4. CASE file' = [file EXCEPT ![n] = Skill!NoSkill]
        BY <4>4
      <4>5. CASE file' = [file EXCEPT ![n] = [Skill!NoSkill EXCEPT !.there = TRUE, !.body = Skill!Changed]]
        BY <4>5
      <4> QED BY <1>3, <4>1, <4>2, <4>3, <4>4, <4>5 DEF Skill!Touch
    <3>2. UNCHANGED <<planned, forced, taken, sPc>> /\ touches' = touches + 1 /\ looked' = looked \cup {n}
      BY <1>3 DEF Skill!Touch
    <3> QED BY <3>1, <3>2
  <2>2. SkillsType'
    BY <2>1 DEF SkillsInv, SkillsType
  <2>3. ASSUME NEW i, Pending(i), planned[i].name \in Skill!Names \ looked'
        PROVE  file'[planned[i].name] = file[planned[i].name] /\ planned[i].name \in Skill!Names \ looked
    BY <2>1, <2>3 DEF SkillsInv, SkillsType
  <2>4. SkillsPlan'
    BY <2>1, <2>3 DEF SkillsInv, SkillsPlan, Pending, Skill!Allowed
  <2> QED BY <2>2, <2>4 DEF SkillsInv
<1>4. ASSUME NEW o, Skill!Upgrade(o)
      PROVE  SkillsInv'
  <2>1. UNCHANGED <<planned, touches, forced, taken, sPc, file>> /\ looked \subseteq looked'
    BY <1>4 DEF Skill!Upgrade
  <2>2. SkillsType'
    BY <2>1 DEF SkillsInv, SkillsType
  <2>3. SkillsPlan'
    BY <2>1 DEF SkillsInv, SkillsPlan, Pending, Skill!Allowed
  <2> QED BY <2>2, <2>3 DEF SkillsInv
<1>5. CASE UNCHANGED Skill!skills
  BY <1>5 DEF Skill!skills, SkillsInv, SkillsType, SkillsPlan, Pending, Skill!Allowed
<1> QED BY <1>1, <1>2, <1>3, <1>4, <1>5, SkillsPlanning, SkillsWriting DEF Skill!Next

\* What is written was planned for what was read, and that keeps the project's work.
LEMMA SkillsKeep ==
    ASSUME SkillsInv, [Skill!Next]_(Skill!skills)
    PROVE  Skill!ReplacesNoWork
<1> SUFFICES ASSUME UNCHANGED touches, NEW n \in Skill!Names, file'[n] # file[n]
             PROVE  \E i \in Skill!Pending :
                        /\ planned[i].name = n /\ Skill!Allowed(planned[i]) /\ Skill!Written(i)
                        /\ n \notin looked => file[n] = planned[i].existing
                        /\ file'[n] = planned[i].content \/ sAnswer' = "error"
  BY DEF Skill!ReplacesNoWork
<1>2. \/ \E i \in Skill!Pending : Skill!Apply(i) \/ Skill!ApplyFails(i)
      \/ UNCHANGED file
      \/ \E m \in Skill!Names : Skill!Touch(m)
  BY DEF Skill!Next, Skill!Call, Skill!NoSource, Skill!Plan, Skill!Preview, Skill!Confirm, Skill!Done,
         Skill!Upgrade, Skill!skills
<1>3. \A m \in Skill!Names : ~Skill!Touch(m)
  BY DEF Skill!Touch, SkillsInv, SkillsType
<1>4. PICK i \in Skill!Pending : Skill!Apply(i) \/ Skill!ApplyFails(i)
  BY <1>2, <1>3
<1>5. Pending(i) /\ sPc = "apply" /\ Skill!Written(i)
  BY <1>4 DEF Pending, Skill!Pending, Skill!Apply, Skill!ApplyFails, Skill!SkillsGoto
<1>6. planned[i].name = n /\ DOMAIN file = Skill!Names
  BY <1>4 DEF Skill!Apply, Skill!ApplyFails, SkillsInv, SkillsType
<1>7. file'[n] = planned[i].content \/ sAnswer' = "error"
  BY <1>4, <1>6 DEF Skill!Apply, Skill!ApplyFails
<1>8. Skill!Allowed(planned[i]) /\ (n \notin looked => file[n] = planned[i].existing)
  BY <1>5, <1>6 DEF SkillsInv, SkillsPlan
<1> QED BY <1>5, <1>6, <1>7, <1>8

(***************************************************************************)
(* A sync settles.                                                         *)
(***************************************************************************)

\* The first in a sequence of skills to have that name is of that origin.
FirstIs(seq, n, o) ==
    \E i \in 1 .. Len(seq) : /\ seq[i].name = n /\ seq[i].origin = o /\ seq[i].version = version[o]
                             /\ \A j \in 1 .. i - 1 : seq[j].name # n
\* What an origin says, as it would be written.
Carries(c, o) ==
    c.there /\ c.source = o /\ c.body = Skill!Says(o, version[o]) /\ c.digest = Skill!Says(o, version[o])
Settled(n, o) ==
    file[n].there /\ (file[n].source = o => file[n].body = Skill!Says(o, version[o]) /\ ~Skill!Edited(file[n]))
\* It is as it should be, or something planned will make it so, or refuses the whole.
Foreseen(n, o) ==
    \/ Settled(n, o)
    \/ \E k \in DOMAIN planned : planned[k].name = n /\ (planned[k].action = "conflict" \/ Pending(k))

SyncType ==
    /\ DOMAIN version = Skill!ToSet(Origins)
    /\ \A o \in Skill!ToSet(Origins) : version[o] \in 1 .. Len(Distributes[o])
    /\ DOMAIN file = Skill!Names
    /\ sPc \in {"called", "plan", "apply", "returned"}
    /\ \E S : planned \in Seq(S)
    /\ \A i \in DOMAIN planned :
          planned[i] = [name |-> planned[i].name, existing |-> planned[i].existing, content |-> planned[i].content, action |-> planned[i].action]
    /\ received \in Seq([origin : Skill!ToSet(Origins), name : Skill!Names, version : Nat])

\* What is received and not yet planned begins with the origin that counts, and what is planned is its.
SyncInv ==
    /\ SyncType
    /\ sPc \in {"plan", "apply"} =>
          /\ sAnswer = "none"
          /\ \A i : Pending(i) => \A o \in Skill!FirstOf(planned[i].name) : Carries(planned[i].content, o)
          /\ \A n \in Skill!Names : \A o \in Skill!FirstOf(n) :
                /\ n \in taken /\ n \notin looked \cup Unstampable => Foreseen(n, o)
                /\ n \notin taken => FirstIs(received, n, o)
    /\ sPc = "apply" => received = <<>>
    /\ sPc \in {"called", "returned"} => Skill!SyncSettles

-----------------------------------------------------------------------------
(* What the origins hand over, end to end.                                 *)

GivenTo(n) == {i \in DOMAIN Origins : n \in Skill!ToSet(Skill!Given(Origins[i]))}

\* What hands it out first is the least of those that do.
LEMMA FirstIsOne ==
    ASSUME NEW n, NEW o \in Skill!FirstOf(n)
    PROVE  \E i \in GivenTo(n) : o = Origins[i] /\ \A j \in GivenTo(n) : i <= j
<1>1. GivenTo(n) \subseteq Nat
  BY SkillsAssumption DEF GivenTo
<1>2. GivenTo(n) # {}
  BY DEF Skill!FirstOf, GivenTo
<1>3. \E i \in GivenTo(n) : \A j \in GivenTo(n) : i <= j
  BY <1>1, <1>2, Least
<1>4. o = Origins[CHOOSE i \in GivenTo(n) : \A j \in GivenTo(n) : i <= j]
  BY <1>2 DEF Skill!FirstOf, GivenTo
<1> QED BY <1>3, <1>4

Handed == [origin : Skill!ToSet(Origins), name : Skill!Names, version : Nat]

\* What one origin hands over, in its order.
LEMMA HandsOverOf ==
    ASSUME SyncType, NEW o \in Skill!ToSet(Origins)
    PROVE  /\ Skill!Given(o) \in Seq(Skill!Names)
           /\ Skill!HandsOver(o) \in Seq(Handed)
           /\ \A k \in 1 .. Len(Skill!HandsOver(o)) :
                 /\ Skill!HandsOver(o)[k].origin = o /\ Skill!HandsOver(o)[k].version = version[o]
                 /\ Skill!HandsOver(o)[k].name \in Skill!ToSet(Skill!Given(o))
           /\ \A n \in Skill!ToSet(Skill!Given(o)) : \E k \in 1 .. Len(Skill!HandsOver(o)) : Skill!HandsOver(o)[k].name = n
<1>1. Distributes[o] \in Seq(Seq(Skill!Names)) /\ version[o] \in 1 .. Len(Distributes[o]) /\ version[o] \in Nat
  BY SkillsAssumption DEF SyncType
<1>2. PICK g : g = Skill!Given(o)
  OBVIOUS
<1>3. g \in Seq(Skill!Names)
  BY <1>1, <1>2 DEF Skill!Given
<1>4. PICK h : h = [i \in DOMAIN g |-> [origin |-> o, name |-> g[i], version |-> version[o]]]
  OBVIOUS
<1>5. h = Skill!HandsOver(o)
  BY <1>2, <1>4 DEF Skill!HandsOver
<1>6. \A i \in DOMAIN g : [origin |-> o, name |-> g[i], version |-> version[o]] \in Handed
  BY <1>1, <1>3 DEF Handed
<1>7. h \in [1 .. Len(g) -> Handed] /\ Len(g) \in Nat /\ DOMAIN g = 1 .. Len(g)
  BY <1>3, <1>4, <1>6
<1>8. h \in Seq(Handed) /\ Len(h) = Len(g)
  BY <1>7
<1>9. \A k \in 1 .. Len(h) : h[k].origin = o /\ h[k].version = version[o] /\ h[k].name = g[k]
  BY <1>4, <1>7, <1>8
<1>10. Skill!ToSet(g) = {g[k] : k \in 1 .. Len(h)}
  BY <1>7, <1>8 DEF Skill!ToSet
<1> QED BY <1>2, <1>3, <1>5, <1>8, <1>9, <1>10

NoneIs(seq, n) == \A j \in 1 .. Len(seq) : seq[j].name # n

\* The first of two sequences: of the one, or of the other if the one has none.
LEMMA FirstOfBoth ==
    ASSUME NEW T, NEW s \in Seq(T), NEW t \in Seq(T), NEW n, NEW o
    PROVE  /\ s \o t \in Seq(T)
           /\ FirstIs(s, n, o) => FirstIs(s \o t, n, o)
           /\ NoneIs(s, n) /\ FirstIs(t, n, o) => FirstIs(s \o t, n, o)
           /\ NoneIs(s, n) /\ NoneIs(t, n) => NoneIs(s \o t, n)
<1> DEFINE a == Len(s)
           b == Len(t)
           v == version[o]
<1>1. PICK u : u = s \o t
  OBVIOUS
<1>2. /\ u \in Seq(T) /\ a \in Nat /\ b \in Nat /\ Len(u) = a + b
      /\ \A i \in 1 .. a + b : u[i] = IF i <= a THEN s[i] ELSE t[i - a]
  BY <1>1, ConcatProperties
<1>3. ASSUME FirstIs(s, n, o) PROVE FirstIs(u, n, o)
  <2>1. PICK i \in 1 .. a : /\ s[i].name = n /\ s[i].origin = o /\ s[i].version = v
                            /\ \A j \in 1 .. i - 1 : s[j].name # n
    BY <1>3 DEF FirstIs
  <2>2. \A j \in 1 .. i : j \in 1 .. a + b /\ j <= a
    BY <1>2
  <2>3. \A j \in 1 .. i : u[j] = s[j]
    BY <1>2, <2>2
  <2>4. i \in 1 .. i /\ i \in 1 .. Len(u) /\ \A j \in 1 .. i - 1 : j \in 1 .. i
    BY <1>2
  <2>5. u[i].name = n /\ u[i].origin = o /\ u[i].version = v /\ \A j \in 1 .. i - 1 : u[j].name # n
    BY <2>1, <2>3, <2>4
  <2> QED BY <2>4, <2>5 DEF FirstIs
<1>4. ASSUME NoneIs(s, n), FirstIs(t, n, o) PROVE FirstIs(u, n, o)
  <2>1. PICK i \in 1 .. b : /\ t[i].name = n /\ t[i].origin = o /\ t[i].version = v
                            /\ \A j \in 1 .. i - 1 : t[j].name # n
    BY <1>4 DEF FirstIs
  <2>2. PICK k : k = a + i
    OBVIOUS
  <2>3. k \in 1 .. a + b /\ ~(k <= a) /\ k - a = i /\ i \in Nat
    BY <1>2, <2>2
  <2>4. u[k] = t[i]
    BY <1>2, <2>3
  <2>5. ASSUME NEW j \in 1 .. k - 1 PROVE u[j].name # n
    <3>1. CASE j <= a
      <4>1. j \in 1 .. a /\ j \in 1 .. a + b
        BY <1>2, <2>3, <3>1
      <4> QED BY <1>2, <1>4, <3>1, <4>1 DEF NoneIs
    <3>2. CASE ~(j <= a)
      <4>1. j - a \in 1 .. i - 1 /\ j \in 1 .. a + b
        BY <1>2, <2>3, <3>2
      <4> QED BY <1>2, <2>1, <3>2, <4>1
    <3> QED BY <3>1, <3>2
  <2>6. k \in 1 .. Len(u) /\ u[k].name = n /\ u[k].origin = o /\ u[k].version = v
    BY <1>2, <2>1, <2>3, <2>4
  <2> QED BY <2>5, <2>6 DEF FirstIs
<1>5. ASSUME NoneIs(s, n), NoneIs(t, n), NEW j \in 1 .. Len(u) PROVE u[j].name # n
  <2>1. CASE j <= a
    <3>1. j \in 1 .. a /\ j \in 1 .. a + b
      BY <1>2, <2>1
    <3> QED BY <1>2, <1>5, <2>1, <3>1 DEF NoneIs
  <2>2. CASE ~(j <= a)
    <3>1. j - a \in 1 .. b /\ j \in 1 .. a + b
      BY <1>2, <2>2
    <3> QED BY <1>2, <1>5, <2>2, <3>1 DEF NoneIs
  <2> QED BY <2>1, <2>2
<1> QED BY <1>1, <1>2, <1>3, <1>4, <1>5 DEF NoneIs

\* What one origin hands over begins with a skill of that name, or has none.
LEMMA HandsOverFirst ==
    ASSUME SyncType, NEW o \in Skill!ToSet(Origins), NEW n
    PROVE  /\ n \in Skill!ToSet(Skill!Given(o)) => FirstIs(Skill!HandsOver(o), n, o)
           /\ n \notin Skill!ToSet(Skill!Given(o)) => NoneIs(Skill!HandsOver(o), n)
<1>1. PICK h : h = Skill!HandsOver(o)
  OBVIOUS
<1>2. PICK G : G = Skill!ToSet(Skill!Given(o))
  OBVIOUS
<1>3. /\ h \in Seq(Handed)
      /\ \A k \in 1 .. Len(h) : h[k].origin = o /\ h[k].version = version[o] /\ h[k].name \in G
      /\ \A m \in G : \E k \in 1 .. Len(h) : h[k].name = m
  BY <1>1, <1>2, HandsOverOf
<1>4. ASSUME n \in G PROVE FirstIs(h, n, o)
  <2> DEFINE T == {k \in 1 .. Len(h) : h[k].name = n}
  <2>1. T \subseteq Nat /\ T # {}
    BY <1>3, <1>4
  <2>2. PICK k \in T : \A j \in T : k <= j
    BY <2>1, Least
  <2>3. k \in 1 .. Len(h) /\ h[k].name = n /\ k \in Nat /\ Len(h) \in Nat
    BY <1>3
  <2>4. ASSUME NEW j \in 1 .. k - 1 PROVE h[j].name # n
    <3>1. j \in 1 .. Len(h) /\ ~(k <= j)
      BY <2>3
    <3> QED BY <2>2, <3>1
  <2> QED BY <1>3, <2>3, <2>4 DEF FirstIs
<1>5. n \notin G => NoneIs(h, n)
  BY <1>3 DEF NoneIs
<1> QED BY <1>1, <1>2, <1>4, <1>5

\* Of what all of them hand over, the first of a name is of the first origin that has it.
LEMMA AllHandOver ==
    ASSUME SyncType, NEW all_, all_ = Skill!FlattenSeq([i \in DOMAIN Origins |-> Skill!HandsOver(Origins[i])])
    PROVE  /\ all_ \in Seq(Handed)
           /\ \A n \in Skill!Names : \A o \in Skill!FirstOf(n) : FirstIs(all_, n, o)
<1> DEFINE N == Len(Origins)
           handed == [i \in DOMAIN Origins |-> Skill!HandsOver(Origins[i])]
<1>1. N \in Nat /\ DOMAIN Origins = 1 .. N /\ \A i \in 1 .. N : Origins[i] \in Skill!ToSet(Origins)
  BY SkillsAssumption
<1>2. handed \in Seq(Seq(Handed)) /\ Len(handed) = N /\ \A i \in 1 .. N : handed[i] = Skill!HandsOver(Origins[i])
  <2>1. \A i \in 1 .. N : Skill!HandsOver(Origins[i]) \in Seq(Handed)
    BY <1>1, HandsOverOf
  <2>2. handed \in [1 .. N -> Seq(Handed)]
    BY <1>1, <2>1
  <2> HIDE DEF N
  <2> QED BY <1>1, <2>2
<1>3. all_ = Ext!FlattenSeq(handed)
  BY DEF Ext!FlattenSeq, Skill!FlattenSeq
<1> HIDE DEF handed
<1>4. PICK P \in [0 .. Len(handed) -> Seq(Handed)] : EndsWith(P, handed) /\ Ext!FlattenSeq(handed) = P[Len(handed)]
  BY <1>2, EndToEnd
<1>5. P \in [0 .. N -> Seq(Handed)] /\ P[0] = <<>> /\ all_ = P[N] /\ \A k \in 1 .. N : P[k] = P[k - 1] \o handed[k]
  BY <1>2, <1>3, <1>4 DEF EndsWith
<1> DEFINE None(k, n) == (\A i \in 1 .. k : i \notin GivenTo(n)) => NoneIs(P[k], n)
           First(k, n) == \A m \in 1 .. k :
                (m \in GivenTo(n) /\ \A i \in 1 .. m - 1 : i \notin GivenTo(n)) => FirstIs(P[k], n, Origins[m])
           Good == {k \in 0 .. N : \A n \in Skill!Names : None(k, n) /\ First(k, n)}
<1>6. 0 \in Good
  BY <1>1, <1>5 DEF NoneIs
<1>7. ASSUME NEW k \in 0 .. N - 1, k \in Good PROVE k + 1 \in Good
  <2>0. PICK l : l = k + 1
    OBVIOUS
  <2>1. l \in 1 .. N /\ l - 1 = k /\ k \in Nat /\ l \in Nat /\ l \in 0 .. N /\ k \in 0 .. N
    BY <1>1, <2>0
  <2>2. P[l] = P[k] \o handed[l] /\ handed[l] = Skill!HandsOver(Origins[l]) /\ Origins[l] \in Skill!ToSet(Origins)
    BY <1>1, <1>2, <1>5, <2>1
  <2>3. P[k] \in Seq(Handed) /\ handed[l] \in Seq(Handed)
    BY <1>2, <1>5, <2>1, <2>2, HandsOverOf
  <2>4. ASSUME NEW n \in Skill!Names PROVE None(l, n) /\ First(l, n)
    <3>1. None(k, n) /\ First(k, n)
      BY <1>7
    <3>2. l \in GivenTo(n) <=> n \in Skill!ToSet(Skill!Given(Origins[l]))
      BY <1>1, <2>1 DEF GivenTo
    <3>3. /\ l \in GivenTo(n) => FirstIs(handed[l], n, Origins[l])
          /\ l \notin GivenTo(n) => NoneIs(handed[l], n)
      BY <2>2, <3>2, HandsOverFirst
    <3>4. \A i \in 1 .. k : i \in 1 .. l
      BY <2>0, <2>1
    <3>5. None(l, n)
      <4>1. ASSUME \A i \in 1 .. l : i \notin GivenTo(n) PROVE NoneIs(P[l], n)
        <5>1. NoneIs(P[k], n) /\ NoneIs(handed[l], n)
          BY <2>1, <3>1, <3>3, <3>4, <4>1
        <5> QED BY <2>2, <2>3, <5>1, FirstOfBoth
      <4> QED BY <4>1
    <3>6. ASSUME NEW m \in 1 .. l, m \in GivenTo(n), \A i \in 1 .. m - 1 : i \notin GivenTo(n)
          PROVE  FirstIs(P[l], n, Origins[m])
      <4>1. CASE m = l
        <5>1. NoneIs(P[k], n)
          BY <2>1, <3>1, <3>6, <4>1
        <5> QED BY <2>2, <2>3, <3>3, <3>6, <4>1, <5>1, FirstOfBoth
      <4>2. CASE m # l
        <5>1. m \in 1 .. k
          BY <2>0, <2>1, <4>2
        <5>2. FirstIs(P[k], n, Origins[m])
          BY <3>1, <3>6, <5>1
        <5> QED BY <2>2, <2>3, <5>2, FirstOfBoth
      <4> QED BY <4>1, <4>2
    <3> QED BY <3>5, <3>6
  <2> HIDE DEF None, First
  <2>5. l \in Good
    BY <2>1, <2>4
  <2> QED BY <2>0, <2>5
<1>8. N \in Good
  <2> HIDE DEF Good
  <2>1. 0 .. N \subseteq Good
    BY <1>1, <1>6, <1>7, InductionUpTo
  <2> QED BY <1>1, <2>1
<1>9. ASSUME NEW n \in Skill!Names, NEW o \in Skill!FirstOf(n) PROVE FirstIs(all_, n, o)
  <2>1. PICK m \in GivenTo(n) : o = Origins[m] /\ \A j \in GivenTo(n) : m <= j
    BY FirstIsOne
  <2>2. m \in 1 .. N
    BY <1>1 DEF GivenTo
  <2>3. ASSUME NEW i \in 1 .. m - 1 PROVE i \notin GivenTo(n)
    <3>1. ~(m <= i)
      BY <1>1, <2>2
    <3> QED BY <2>1, <3>1
  <2>4. First(N, n)
    BY <1>8
  <2>5. FirstIs(P[N], n, Origins[m])
    BY <2>2, <2>3, <2>4
  <2> QED BY <1>5, <2>1, <2>5
<1>10. all_ \in Seq(Handed)
  BY <1>1, <1>5
<1> QED BY <1>9, <1>10

-----------------------------------------------------------------------------
(* The steps of a sync.                                                    *)

\* Nothing is received and nothing is there.
LEMMA SyncStart == Skill!Init => SyncInv
<1> SUFFICES ASSUME Skill!Init PROVE SyncInv
  OBVIOUS
<1>1. planned = <<>> /\ received = <<>> /\ sPc = "called" /\ sAnswer = "none"
  BY DEF Skill!Init
<1>2. \A o \in Skill!ToSet(Origins) : 1 \in 1 .. Len(Distributes[o])
  BY SkillsAssumption
<1>3. planned \in Seq({})
  BY <1>1
<1>4. received \in Seq(Handed)
  BY <1>1
<1>5. SyncType
  BY <1>1, <1>2, <1>3, <1>4 DEF Skill!Init, SyncType, Handed
<1> QED BY <1>1, <1>5 DEF SyncInv, Skill!SyncSettles

\* What is looked for first is constant while a sync runs.
LEMMA FirstStays ==
    ASSUME UNCHANGED version
    PROVE  /\ \A n : Skill!FirstOf(n)' = Skill!FirstOf(n)
           /\ \A c, o : Carries(c, o)' <=> Carries(c, o)
           /\ \A seq, n, o : FirstIs(seq, n, o)' <=> FirstIs(seq, n, o)
<1>1. \A n : Skill!FirstOf(n)' = Skill!FirstOf(n)
  BY DEF Skill!FirstOf, Skill!Given
<1>2. \A c, o : Carries(c, o)' <=> Carries(c, o)
  BY DEF Carries
<1>3. \A seq, n, o : FirstIs(seq, n, o)' <=> FirstIs(seq, n, o)
  BY DEF FirstIs
<1> QED BY <1>1, <1>2, <1>3

\* A sync reads what every origin hands over.
LEMMA SyncIsCalled ==
    ASSUME SyncInv, Skill!Call(TRUE) \/ Skill!Call(FALSE)
    PROVE  SyncInv'
<1>1. /\ sPc' = "plan" /\ planned' = <<>> /\ taken' = {} /\ looked' = {} /\ sAnswer' = "none"
      /\ received' = Skill!FlattenSeq([i \in DOMAIN Origins |-> Skill!HandsOver(Origins[i])])
      /\ UNCHANGED <<version, file>>
  BY DEF Skill!Call
<1>2. SyncType
  BY DEF SyncInv
<1>3. /\ received' \in Seq(Handed)
      /\ \A n \in Skill!Names : \A o \in Skill!FirstOf(n) : FirstIs(received', n, o)
  BY <1>1, <1>2, AllHandOver
<1>4. planned' \in Seq({})
  BY <1>1
<1>5. SyncType'
  BY <1>1, <1>2, <1>3, <1>4 DEF SyncType, Handed
<1>6. \A i : ~Pending(i)'
  BY <1>1 DEF Pending
<1>7. \A n \in Skill!Names : \A o \in Skill!FirstOf(n)' : FirstIs(received, n, o)'
  BY <1>1, <1>3, FirstStays DEF FirstIs
<1> QED BY <1>1, <1>5, <1>6, <1>7 DEF SyncInv

\* What the plan makes of the first skill of a name.
LEMMA PlannedWell ==
    ASSUME NEW s, s.version = version[s.origin], s.name \notin Unstampable,
           NEW action, action = Skill!PlanOne(s, file[s.name], forced)
    PROVE  action \in {"create", "update", "conflict"} \/ Settled(s.name, s.origin)
BY DEF Skill!PlanOne, Settled, Skill!Stamp, Skill!Edited

\* What is planned is what the origin says, with where it is from.
LEMMA StampSays ==
    ASSUME NEW s, s.version = version[s.origin], NEW f
    PROVE  Carries(Skill!Stamp(s, f), s.origin)
BY DEF Carries, Skill!Stamp

\* The next skill is looked at, and planned if its name is new.
LEMMA SyncPlans ==
    ASSUME SyncInv, Skill!Plan
    PROVE  SyncInv'
<1>1. PICK s : s = received[1]
  OBVIOUS
<1>2. PICK again : again = (s.name \in taken)
  OBVIOUS
<1>3. PICK action : action = IF again THEN "kept" ELSE Skill!PlanOne(s, file[s.name], forced)
  OBVIOUS
<1>4. PICK change : change = [name |-> s.name, existing |-> file[s.name], content |-> Skill!Stamp(s, file[s.name]), action |-> action]
  OBVIOUS
<1>5. /\ sPc = "plan" /\ received # <<>> /\ received' = Tail(received)
      /\ planned' = Append(planned, change) /\ taken' = taken \cup {s.name}
      /\ looked' = (IF again THEN looked ELSE looked \ {s.name})
      /\ UNCHANGED <<version, file, sPc, forced, sAnswer>>
  BY <1>1, <1>2, <1>3, <1>4 DEF Skill!Plan
<1>6. PICK S : planned \in Seq(S)
  BY DEF SyncInv, SyncType
<1> DEFINE n == Len(planned)
           k == Len(received)
<1>7. planned \in Seq(S \cup {change}) /\ change \in S \cup {change}
  BY <1>6, SeqMonotonic
<1>8. /\ planned' \in Seq(S \cup {change}) /\ n \in Nat /\ DOMAIN planned = 1 .. n
      /\ DOMAIN planned' = 1 .. (n + 1) /\ planned'[n + 1] = change
      /\ \A i \in 1 .. n : planned'[i] = planned[i]
  BY <1>5, <1>7, AppendProperties, LenProperties
<1>9. received \in Seq(Handed)
  BY DEF SyncInv, SyncType, Handed
<1>10. /\ received' \in Seq(Handed) /\ k \in Nat \ {0} /\ Len(received') = k - 1
       /\ \A i \in 1 .. k - 1 : received'[i] = received[i + 1]
  <2>1. k \in Nat /\ k # 0
    BY <1>5, <1>9
  <2>2. /\ Tail(received) \in Seq(Handed) /\ Len(Tail(received)) = Len(received) - 1
        /\ \A i \in 1 .. Len(Tail(received)) : Tail(received)[i] = received[i + 1]
    BY <1>5, <1>9, HeadTailProperties
  <2> QED BY <1>5, <2>1, <2>2
<1>a. s \in Handed
  BY <1>1, <1>9, <1>10
<1>b. s.name \in Skill!Names /\ s.origin \in Skill!ToSet(Origins)
  BY <1>a DEF Handed
<1> HIDE DEF n, k
<1>c. change.name = s.name /\ change.content = Skill!Stamp(s, file[s.name]) /\ change.action = action
      /\ change = [name |-> change.name, existing |-> change.existing, content |-> change.content, action |-> change.action]
  BY <1>4
<1>d. \A i \in DOMAIN planned' : i \in 1 .. n \/ i = n + 1
  BY <1>8
<1>e. SyncType'
  <2>1. \A i \in DOMAIN planned' :
           planned'[i] = [name |-> planned'[i].name, existing |-> planned'[i].existing, content |-> planned'[i].content, action |-> planned'[i].action]
    BY <1>8, <1>c, <1>d DEF SyncInv, SyncType
  <2> QED BY <1>5, <1>8, <1>10, <2>1 DEF SyncInv, SyncType, Handed
\* The first of its name, while it has not been taken.
<1>f. ASSUME NEW o \in Skill!FirstOf(s.name), ~again PROVE s.origin = o /\ s.version = version[o]
  <2>1. PICK i \in 1 .. k : /\ received[i].name = s.name /\ received[i].origin = o /\ received[i].version = version[o]
                            /\ \A j \in 1 .. i - 1 : received[j].name # s.name
    BY <1>2, <1>5, <1>b, <1>f DEF SyncInv, FirstIs, k
  <2>2. i = 1
    <3>1. 1 \notin 1 .. i - 1
      BY <1>1, <2>1
    <3> QED BY <1>10, <3>1
  <2> QED BY <1>1, <2>1, <2>2
<1>g. ASSUME NEW i, Pending(i)', NEW o \in Skill!FirstOf(planned'[i].name) PROVE Carries(planned'[i].content, o)
  <2>1. i \in DOMAIN planned' /\ planned'[i].action \in {"create", "update"}
    BY <1>g DEF Pending
  <2>2. CASE i \in 1 .. n
    BY <1>5, <1>8, <1>g, <2>1, <2>2 DEF SyncInv, Pending
  <2>3. CASE i = n + 1
    <3>1. planned'[i] = change
      BY <1>8, <2>3
    <3>2. ~again
      BY <1>3, <1>c, <2>1, <3>1
    <3>3. s.origin = o /\ s.version = version[o]
      BY <1>c, <1>f, <1>g, <3>1, <3>2
    <3>4. Carries(Skill!Stamp(s, file[s.name]), s.origin)
      BY <3>3, StampSays
    <3> QED BY <1>c, <3>1, <3>3, <3>4
  <2> QED BY <1>d, <2>1, <2>2, <2>3
<1>h. ASSUME NEW m \in Skill!Names, NEW o \in Skill!FirstOf(m), m \in taken', m \notin looked' \cup Unstampable
      PROVE  Foreseen(m, o)'
  <2>1. CASE m \in taken
    <3>1. m \notin looked
      BY <1>2, <1>5, <1>h, <2>1
    <3>2. Foreseen(m, o)
      BY <1>5, <1>h, <2>1, <3>1 DEF SyncInv
    <3>3. CASE Settled(m, o)
      BY <1>5, <3>3 DEF Foreseen, Settled, Skill!Edited
    <3>4. ASSUME NEW i \in DOMAIN planned, planned[i].name = m /\ (planned[i].action = "conflict" \/ Pending(i))
          PROVE  Foreseen(m, o)'
      <4>1. i \in DOMAIN planned' /\ planned'[i] = planned[i]
        BY <1>8
      <4> QED BY <3>4, <4>1 DEF Foreseen, Pending
    <3> QED BY <3>2, <3>3, <3>4 DEF Foreseen
  <2>2. CASE m \notin taken
    <3>1. m = s.name /\ ~again
      BY <1>2, <1>5, <1>h, <2>2
    <3>2. s.origin = o /\ s.version = version[o]
      BY <1>f, <3>1
    <3>3. action = Skill!PlanOne(s, file[s.name], forced)
      BY <1>3, <3>1
    <3>4. action \in {"create", "update", "conflict"} \/ Settled(m, o)
      BY <1>h, <3>1, <3>2, <3>3, PlannedWell
    <3>5. n + 1 \in DOMAIN planned' /\ planned'[n + 1] = change
      BY <1>8
    <3>6. CASE action \in {"create", "update", "conflict"}
      BY <1>c, <3>1, <3>5, <3>6 DEF Foreseen, Pending
    <3>7. CASE Settled(m, o)
      BY <1>5, <3>7 DEF Foreseen, Settled, Skill!Edited
    <3> QED BY <3>4, <3>6, <3>7
  <2> QED BY <2>1, <2>2
<1>i. ASSUME NEW m \in Skill!Names, NEW o \in Skill!FirstOf(m), m \notin taken' PROVE FirstIs(received', m, o)
  <2>1. m \notin taken /\ m # s.name
    BY <1>5, <1>i
  <2>2. PICK i \in 1 .. k : /\ received[i].name = m /\ received[i].origin = o /\ received[i].version = version[o]
                            /\ \A j \in 1 .. i - 1 : received[j].name # m
    BY <1>5, <1>i, <2>1 DEF SyncInv, FirstIs, k
  <2>3. i # 1
    BY <1>1, <2>1, <2>2
  <2>4. PICK h : h = i - 1
    OBVIOUS
  <2>5. h \in 1 .. k - 1 /\ h + 1 = i /\ h \in Nat
    BY <1>10, <2>2, <2>3, <2>4
  <2>6. received'[h] = received[i]
    BY <1>10, <2>5
  <2>7. ASSUME NEW j \in 1 .. h - 1 PROVE received'[j].name # m
    <3>1. j \in 1 .. k - 1 /\ j + 1 \in 1 .. i - 1
      BY <1>10, <2>5
    <3> QED BY <1>10, <2>2, <3>1
  <2>8. h \in 1 .. Len(received')
    BY <1>10, <2>5
  <2> QED BY <2>2, <2>6, <2>7, <2>8 DEF FirstIs
<1>j. \A x : Skill!FirstOf(x)' = Skill!FirstOf(x)
  BY <1>5, FirstStays
<1>k. ASSUME NEW i, Pending(i)' PROVE \A o \in Skill!FirstOf(planned[i].name)' : Carries(planned[i].content, o)'
  <2>1. PICK x : x = planned'[i]
    OBVIOUS
  <2>2. \A o \in Skill!FirstOf(x.name) : Carries(x.content, o)
    BY <1>g, <1>k, <2>1
  <2>3. \A o : Carries(x.content, o) => Carries(planned[i].content, o)'
    BY <1>5, <2>1 DEF Carries
  <2>4. Skill!FirstOf(planned[i].name)' = Skill!FirstOf(x.name)'
    BY <2>1 DEF Skill!FirstOf
  <2> QED BY <1>j, <2>2, <2>3, <2>4
<1>l. ASSUME NEW m \in Skill!Names PROVE
        \A o \in Skill!FirstOf(m)' :
            /\ m \in taken' /\ m \notin looked' \cup Unstampable => Foreseen(m, o)'
            /\ m \notin taken' => FirstIs(received, m, o)'
  <2>1. \A o : FirstIs(received', m, o) => FirstIs(received, m, o)'
    BY <1>5 DEF FirstIs
  <2> QED BY <1>h, <1>i, <1>j, <2>1
<1> QED BY <1>5, <1>e, <1>k, <1>l DEF SyncInv

\* What is due stays due, when the file of the name and the plan do.
LEMMA DueStays ==
    ASSUME UNCHANGED <<version, planned>>, NEW m, NEW o, file'[m] = file[m], Foreseen(m, o)
    PROVE  Foreseen(m, o)'
BY DEF Foreseen, Settled, Pending, Skill!Edited

\* A planned skill is written, or fails.
LEMMA SyncWrites ==
    ASSUME SyncInv, NEW i \in Skill!Pending, Skill!Apply(i) \/ Skill!ApplyFails(i)
    PROVE  SyncInv'
<1> DEFINE x == planned[i].name
<1>1. /\ sPc = "apply" /\ UNCHANGED <<version, received, forced, taken, looked>>
      /\ planned' = [planned EXCEPT ![i].action = "written"]
      /\ DOMAIN file' = DOMAIN file /\ \A m \in DOMAIN file : m # x => file'[m] = file[m]
  BY DEF Skill!Apply, Skill!ApplyFails, Skill!Written, Skill!SkillsGoto
<1>2. SyncType /\ Pending(i) /\ i \in DOMAIN planned
  BY DEF SyncInv, Skill!Pending, Pending
<1>3. PICK S : planned \in Seq(S)
  BY <1>2 DEF SyncType
<1> DEFINE done == [planned[i] EXCEPT !.action = "written"]
<1>4. planned' = [planned EXCEPT ![i] = done]
  BY <1>1
<1>5. planned \in Seq(S \cup {done}) /\ i \in 1 .. Len(planned) /\ DOMAIN planned = 1 .. Len(planned)
  BY <1>2, <1>3, SeqMonotonic, LenProperties
<1>6. /\ planned' \in Seq(S \cup {done}) /\ DOMAIN planned' = DOMAIN planned
      /\ \A j \in DOMAIN planned : planned'[j] = IF j = i THEN done ELSE planned[j]
  BY <1>4, <1>5, ExceptSeq, LenProperties
<1>7. /\ done.name = x /\ done.action = "written" /\ done.content = planned[i].content
      /\ done = [name |-> done.name, existing |-> done.existing, content |-> done.content, action |-> done.action]
  <2>1. planned[i] = [name |-> planned[i].name, existing |-> planned[i].existing, content |-> planned[i].content, action |-> planned[i].action]
    BY <1>2 DEF SyncType
  <2>2. done = [name |-> planned[i].name, existing |-> planned[i].existing, content |-> planned[i].content, action |-> "written"]
    BY <2>1
  <2> QED BY <2>2
<1> HIDE DEF done
<1>8. \A j \in DOMAIN planned :
         planned'[j] = [name |-> planned'[j].name, existing |-> planned'[j].existing, content |-> planned'[j].content, action |-> planned'[j].action]
  BY <1>2, <1>6, <1>7 DEF SyncType
<1>9. \A j : Pending(j)' => Pending(j) /\ j # i /\ planned'[j] = planned[j]
  BY <1>6, <1>7 DEF Pending
<1>10. \A m : Skill!FirstOf(m)' = Skill!FirstOf(m)
  BY <1>1, FirstStays
<1>11. CASE Skill!Apply(i)
  <2>1. sPc' = sPc /\ sAnswer' = sAnswer /\ file' = [file EXCEPT ![x] = planned[i].content]
    BY <1>11 DEF Skill!Apply
  <2>2. SyncType'
    BY <1>1, <1>2, <1>6, <1>8, <2>1 DEF SyncType
  <2>3. ASSUME NEW j, Pending(j)' PROVE \A o \in Skill!FirstOf(planned[j].name)' : Carries(planned[j].content, o)'
    <3>1. Pending(j) /\ planned'[j] = planned[j]
      BY <1>9, <2>3
    <3>2. \A o \in Skill!FirstOf(planned[j].name) : Carries(planned[j].content, o)
      BY <1>1, <3>1 DEF SyncInv
    <3>3. \A o : Carries(planned[j].content, o) => Carries(planned[j].content, o)'
      BY <1>1, <3>1 DEF Carries
    <3>4. Skill!FirstOf(planned[j].name)' = Skill!FirstOf(planned[j].name)
      BY <1>1, <3>1 DEF Skill!FirstOf, Skill!Given
    <3> QED BY <3>2, <3>3, <3>4
  <2>4. ASSUME NEW m \in Skill!Names, NEW o \in Skill!FirstOf(m), m \in taken, m \notin looked \cup Unstampable
        PROVE  Foreseen(m, o)'
    <3>1. CASE m = x
      <4>1. Carries(planned[i].content, o)
        BY <1>1, <1>2, <2>4, <3>1 DEF SyncInv
      <4>2. file'[m] = planned[i].content
        BY <1>2, <2>1, <3>1 DEF SyncType
      <4> QED BY <1>1, <4>1, <4>2 DEF Foreseen, Settled, Carries, Skill!Edited
    <3>2. CASE m # x
      <4>1. Foreseen(m, o)
        BY <1>1, <2>4 DEF SyncInv
      <4>2. file'[m] = file[m]
        BY <1>1, <1>2, <3>2 DEF SyncType
      <4>3. CASE Settled(m, o)
        BY <1>1, <4>2, <4>3 DEF Foreseen, Settled, Skill!Edited
      <4>4. ASSUME NEW k \in DOMAIN planned, planned[k].name = m, planned[k].action = "conflict" \/ Pending(k)
            PROVE  Foreseen(m, o)'
        <5>1. k # i
          BY <3>2, <4>4
        <5>2. k \in DOMAIN planned' /\ planned'[k] = planned[k]
          BY <1>6, <5>1
        <5> QED BY <4>4, <5>2 DEF Foreseen, Pending
      <4> QED BY <4>1, <4>3, <4>4 DEF Foreseen
    <3> QED BY <3>1, <3>2
  <2>5. ASSUME NEW m \in Skill!Names, NEW o \in Skill!FirstOf(m), m \notin taken PROVE FirstIs(received, m, o)'
    BY <1>1, <2>5, FirstStays DEF SyncInv, FirstIs
  <2>6. \A m \in Skill!Names : \A o \in Skill!FirstOf(m)' :
          /\ m \in taken' /\ m \notin looked' \cup Unstampable => Foreseen(m, o)'
          /\ m \notin taken' => FirstIs(received, m, o)'
    BY <1>1, <1>10, <2>4, <2>5
  <2> QED BY <1>1, <2>1, <2>2, <2>3, <2>6 DEF SyncInv
<1>12. CASE Skill!ApplyFails(i)
  <2>1. sPc' = "returned" /\ sAnswer' = "error"
    BY <1>12 DEF Skill!ApplyFails, Skill!SkillsGoto
  <2>2. SyncType'
    BY <1>1, <1>2, <1>6, <1>8, <2>1 DEF SyncType
  <2> QED BY <2>1, <2>2 DEF SyncInv, Skill!SyncSettles
<1> QED BY <1>11, <1>12

\* Nothing is left to write and no conflict is left.
LEMMA SyncIsDone ==
    ASSUME SyncInv, Skill!Done
    PROVE  SyncInv'
<1>1. /\ sPc = "apply" /\ sPc' = "returned" /\ Skill!Pending = {} /\ received = <<>>
      /\ UNCHANGED <<version, file, planned, taken, looked, received>>
      /\ sAnswer' = IF \E i \in DOMAIN planned : planned[i].action = "conflict" THEN "error" ELSE "applied"
  BY DEF Skill!Done, Skill!SkillsGoto, SyncInv
<1>2. SyncType'
  BY <1>1 DEF SyncInv, SyncType
<1>3. ASSUME sAnswer' = "applied", NEW m \in Skill!Names \ (looked \cup Unstampable), NEW o \in Skill!FirstOf(m)
      PROVE  Settled(m, o)
  <2>1. \A k \in DOMAIN planned : planned[k].action # "conflict" /\ ~Pending(k)
    <3>1. "error" # "applied"
      OBVIOUS
    <3> QED BY <1>1, <1>3, <3>1 DEF Skill!Pending, Pending
  <2>2. ~FirstIs(received, m, o)
    BY <1>1 DEF FirstIs
  <2>3. m \in taken
    BY <1>1, <1>3, <2>2 DEF SyncInv
  <2>4. Foreseen(m, o)
    BY <1>1, <1>3, <2>3 DEF SyncInv
  <2> QED BY <2>1, <2>4 DEF Foreseen
<1>4. \A m : Skill!FirstOf(m)' = Skill!FirstOf(m)
  BY <1>1, FirstStays
<1>5. \A m, o : Settled(m, o) => Settled(m, o)'
  BY <1>1 DEF Settled, Skill!Edited
<1>6. Skill!SyncSettles'
  BY <1>1, <1>3, <1>4, <1>5 DEF Skill!SyncSettles, Settled
<1> QED BY <1>1, <1>2, <1>6 DEF SyncInv

\* The developer, on a name that is not looked at any more.
LEMMA SyncIsTouched ==
    ASSUME SyncInv, NEW n \in Skill!Names, Skill!Touch(n)
    PROVE  SyncInv'
<1>1. /\ UNCHANGED <<version, sPc, forced, received, planned, taken, sAnswer>> /\ looked' = looked \cup {n}
      /\ DOMAIN file' = DOMAIN file /\ \A m \in DOMAIN file : m # n => file'[m] = file[m]
  <2>1. \E new : file' = [file EXCEPT ![n] = new]
    <3>1. CASE file' = [file EXCEPT ![n].body = Skill!Changed]
      BY <3>1
    <3>2. CASE file' = [file EXCEPT ![n].custom = @ + 1]
      BY <3>2
    <3>3. CASE file' = [file EXCEPT ![n].lines = "crlf"]
      BY <3>3
    <3>4. CASE file' = [file EXCEPT ![n] = Skill!NoSkill]
      BY <3>4
    <3>5. CASE file' = [file EXCEPT ![n] = [Skill!NoSkill EXCEPT !.there = TRUE, !.body = Skill!Changed]]
      BY <3>5
    <3> QED BY <3>1, <3>2, <3>3, <3>4, <3>5 DEF Skill!Touch
  <2>2. UNCHANGED <<version, sPc, forced, received, planned, taken, sAnswer>> /\ looked' = looked \cup {n}
    BY DEF Skill!Touch
  <2> QED BY <2>1, <2>2
<1>2. SyncType'
  BY <1>1 DEF SyncInv, SyncType
<1>3. \A m \in Skill!Names : m \notin looked' => m \notin looked /\ file'[m] = file[m]
  BY <1>1 DEF SyncInv, SyncType
<1>4. \A m : Skill!FirstOf(m)' = Skill!FirstOf(m)
  BY <1>1, FirstStays
<1>5. ASSUME sPc \in {"plan", "apply"}, NEW j, Pending(j)'
      PROVE  \A o \in Skill!FirstOf(planned[j].name)' : Carries(planned[j].content, o)'
  <2>1. Pending(j)
    BY <1>1, <1>5 DEF Pending
  <2>2. \A o \in Skill!FirstOf(planned[j].name) : Carries(planned[j].content, o)
    BY <1>5, <2>1 DEF SyncInv
  <2>3. Skill!FirstOf(planned[j].name)' = Skill!FirstOf(planned[j].name)
    BY <1>1 DEF Skill!FirstOf, Skill!Given
  <2> QED BY <1>1, <2>2, <2>3 DEF Carries
<1>6. ASSUME sPc \in {"plan", "apply"}, NEW m \in Skill!Names, NEW o \in Skill!FirstOf(m)
      PROVE  /\ m \in taken /\ m \notin looked' \cup Unstampable => Foreseen(m, o)'
             /\ m \notin taken => FirstIs(received, m, o)'
  <2>1. m \in taken /\ m \notin looked' \cup Unstampable => Foreseen(m, o)
    BY <1>3, <1>6 DEF SyncInv
  <2>2. m \notin taken => FirstIs(received, m, o)
    BY <1>6 DEF SyncInv
  <2> QED BY <1>1, <1>3, <2>1, <2>2, DueStays DEF FirstIs
<1>7. Skill!SyncSettles => Skill!SyncSettles'
  BY <1>1, <1>3, <1>4 DEF Skill!SyncSettles, Skill!Edited
<1> QED BY <1>1, <1>2, <1>4, <1>5, <1>6, <1>7 DEF SyncInv

\* A release, after which what it gives and what it gave is not looked at any more.
LEMMA SyncIsUpgraded ==
    ASSUME SyncInv, NEW p \in Skill!ToSet(Origins), Skill!Upgrade(p)
    PROVE  SyncInv'
<1>1. /\ sPc \in {"called", "returned"} /\ version[p] < Len(Distributes[p])
      /\ version' = [version EXCEPT ![p] = version[p] + 1]
      /\ looked' = looked \cup Skill!ToSet(Skill!Given(p)) \cup Skill!ToSet(Skill!Given(p)')
      /\ UNCHANGED <<file, sPc, received, planned, taken, sAnswer>>
  BY DEF Skill!Upgrade
<1>2. /\ SyncType
      /\ \A o \in Skill!ToSet(Origins) \ {p} : version'[o] = version[o]
      /\ version'[p] = version[p] + 1 /\ DOMAIN version' = Skill!ToSet(Origins)
  BY <1>1 DEF SyncInv, SyncType
<1>3. \A o \in Skill!ToSet(Origins) : version'[o] \in 1 .. Len(Distributes[o])
  <2>1. Len(Distributes[p]) \in Nat
    BY SkillsAssumption
  <2>2. version[p] \in 1 .. Len(Distributes[p])
    BY <1>2 DEF SyncType
  <2>3. version[p] + 1 \in 1 .. Len(Distributes[p])
    BY <1>1, <2>1, <2>2
  <2> QED BY <1>2, <2>3 DEF SyncType
<1>4. SyncType'
  BY <1>1, <1>2, <1>3 DEF SyncType
<1>5. ASSUME NEW m, m \notin looked'
      PROVE  /\ m \notin looked /\ Skill!FirstOf(m)' = Skill!FirstOf(m)
             /\ \A o \in Skill!FirstOf(m) : version'[o] = version[o]
  <2>1. m \notin looked /\ m \notin Skill!ToSet(Skill!Given(p)) /\ m \notin Skill!ToSet(Skill!Given(p)')
    BY <1>1, <1>5
  <2>2. \A i \in DOMAIN Origins : Origins[i] \in Skill!ToSet(Origins)
    BY DEF Skill!ToSet
  <2>3. \A o \in Skill!ToSet(Origins) \ {p} : Skill!Given(o)' = Skill!Given(o)
    BY <1>2 DEF Skill!Given
  <2>4. \A i \in DOMAIN Origins :
           m \in Skill!ToSet(Skill!Given(Origins[i])') <=> m \in Skill!ToSet(Skill!Given(Origins[i]))
    <3>1. SUFFICES ASSUME NEW i \in DOMAIN Origins
                   PROVE  m \in Skill!ToSet(Skill!Given(Origins[i])') <=> m \in Skill!ToSet(Skill!Given(Origins[i]))
      OBVIOUS
    <3>2. CASE Origins[i] = p
      BY <2>1, <3>2
    <3>3. CASE Origins[i] # p
      <4>1. Skill!Given(Origins[i])' = Skill!Given(Origins[i])
        BY <2>2, <2>3, <3>3
      <4> QED BY <4>1
    <3> QED BY <3>2, <3>3
  <2>5. GivenTo(m)' = GivenTo(m)
    BY <2>4 DEF GivenTo, Skill!ToSet
  <2>6. Skill!FirstOf(m)' = Skill!FirstOf(m)
    BY <2>5 DEF Skill!FirstOf, GivenTo
  <2>7. ASSUME NEW o \in Skill!FirstOf(m) PROVE version'[o] = version[o]
    <3>1. PICK i \in GivenTo(m) : o = Origins[i]
      BY FirstIsOne
    <3>2. o # p /\ o \in Skill!ToSet(Origins)
      BY <2>1, <2>2, <3>1 DEF GivenTo
    <3> QED BY <1>2, <3>2
  <2> QED BY <2>1, <2>6, <2>7
<1>6. Skill!SyncSettles
  BY <1>1 DEF SyncInv
<1>7. ASSUME sAnswer' = "applied", NEW m \in Skill!Names \ (looked' \cup Unstampable), NEW o \in Skill!FirstOf(m)'
      PROVE  file'[m].there /\ (file'[m].source = o => file'[m].body = Skill!Says(o, version'[o]) /\ ~Skill!Edited(file'[m]))
  <2>1. m \notin looked /\ o \in Skill!FirstOf(m) /\ version'[o] = version[o]
    BY <1>5, <1>7
  <2>2. file[m].there /\ (file[m].source = o => file[m].body = Skill!Says(o, version[o]) /\ ~Skill!Edited(file[m]))
    BY <1>1, <1>6, <1>7, <2>1 DEF Skill!SyncSettles
  <2> QED BY <1>1, <2>1, <2>2
<1>8. Skill!SyncSettles'
  BY <1>7 DEF Skill!SyncSettles, Skill!Edited
<1> QED BY <1>1, <1>4, <1>8 DEF SyncInv

\* Every step keeps it.
LEMMA SyncStep ==
    ASSUME SyncInv, [Skill!Next]_(Skill!skills)
    PROVE  SyncInv'
<1>1. CASE Skill!NoSource
  <2>1. sPc' = "returned" /\ sAnswer' = "error" /\ UNCHANGED <<version, file, received, planned, taken, looked>>
    BY <1>1 DEF Skill!NoSource
  <2>2. SyncType'
    BY <2>1 DEF SyncInv, SyncType
  <2> QED BY <2>1, <2>2 DEF SyncInv, Skill!SyncSettles
<1>2. CASE Skill!Preview
  <2>1. sPc' = "returned" /\ sAnswer' = "nil" /\ planned' = <<>> /\ UNCHANGED <<version, file, received, taken, looked>>
    BY <1>2 DEF Skill!Preview, Skill!SkillsGoto
  <2>2. planned' \in Seq({})
    BY <2>1
  <2>3. SyncType'
    BY <2>1, <2>2 DEF SyncInv, SyncType
  <2> QED BY <2>1, <2>3 DEF SyncInv, Skill!SyncSettles
<1>3. CASE Skill!Confirm \/ UNCHANGED Skill!skills
  <2>1. /\ UNCHANGED <<version, file, received, planned, taken, looked, sAnswer>>
        /\ sPc' = sPc \/ (sPc = "plan" /\ sPc' = "apply" /\ received = <<>>)
    BY <1>3 DEF Skill!Confirm, Skill!SkillsGoto, Skill!skills
  <2>2. SyncType'
    BY <2>1 DEF SyncInv, SyncType
  <2>3. /\ \A m : Skill!FirstOf(m)' = Skill!FirstOf(m)
        /\ \A c, o : Carries(c, o)' <=> Carries(c, o)
        /\ \A seq, n, o : FirstIs(seq, n, o)' <=> FirstIs(seq, n, o)
    BY <2>1, FirstStays
  <2>4. ASSUME sPc \in {"plan", "apply"}, NEW j, Pending(j)'
        PROVE  \A o \in Skill!FirstOf(planned[j].name)' : Carries(planned[j].content, o)'
    <3>1. Pending(j)
      BY <2>1, <2>4 DEF Pending
    <3>2. \A o \in Skill!FirstOf(planned[j].name) : Carries(planned[j].content, o)
      BY <2>4, <3>1 DEF SyncInv
    <3>3. Skill!FirstOf(planned[j].name)' = Skill!FirstOf(planned[j].name)
      BY <2>1 DEF Skill!FirstOf, Skill!Given
    <3> QED BY <2>1, <3>2, <3>3 DEF Carries
  <2>5. ASSUME sPc \in {"plan", "apply"}, NEW m \in Skill!Names, NEW o \in Skill!FirstOf(m)
        PROVE  /\ m \in taken /\ m \notin looked \cup Unstampable => Foreseen(m, o)'
               /\ m \notin taken => FirstIs(received, m, o)'
    <3>1. m \in taken /\ m \notin looked \cup Unstampable => Foreseen(m, o)
      BY <2>5 DEF SyncInv
    <3>2. m \notin taken => FirstIs(received, m, o)
      BY <2>5 DEF SyncInv
    <3> QED BY <2>1, <3>1, <3>2, DueStays DEF FirstIs
  <2>6. Skill!SyncSettles => Skill!SyncSettles'
    BY <2>1, <2>3 DEF Skill!SyncSettles, Skill!Edited
  <2> QED BY <2>1, <2>2, <2>3, <2>4, <2>5, <2>6 DEF SyncInv
<1> QED BY <1>1, <1>2, <1>3, SyncIsCalled, SyncPlans, SyncWrites, SyncIsDone, SyncIsTouched, SyncIsUpgraded
        DEF Skill!Next

\* When all is written, there is nothing left to do.
LEMMA SyncSafe ==
    ASSUME SyncInv
    PROVE  Skill!SyncSettles
<1>1. sPc \in {"plan", "apply"} => sAnswer # "applied"
  BY DEF SyncInv
<1> QED BY <1>1 DEF SyncInv, SyncType, Skill!SyncSettles


(***************************************************************************)
(* The build of a package.  A platform is a sequence of steps put together *)
(* of smaller ones; what is proved of it is what its steps are             *)
(* (StepsAreFine), and of a build, for any number of steps done, what those *)
(* have left and what is still waited for (Reached).                       *)
(***************************************************************************)
Locked == {"apply", "info", "temp", "steps", "remove", "restore", "unlock"}

PackageType ==
    /\ DOMAIN pPc = Callers
    /\ \A c \in Callers : pPc[c] \in Locked \cup {"called", "waiting", "returned"}

\* Who holds the lock is the one that is past it, and the settings and the work
\* directory are its own.
PackageHolds ==
    \A c \in Callers :
        /\ c \in building <=> pPc[c] \in Locked
        /\ pPc[c] \in Locked => building = {c}
        /\ pPc[c] = "apply" => settings = {}
        /\ Package!InBuild(c) => settings = {c} /\ previous[c] = {}
        /\ pPc[c] = "unlock" => settings = {}
        /\ c \in work => pPc[c] \in {"steps", "remove"}

PackageQuiet ==
    /\ DOMAIN previous = Callers /\ building \subseteq Callers /\ work \subseteq Callers
    /\ building = {} => settings = {}

PackageInv == PackageType /\ PackageHolds /\ PackageQuiet

\* Nobody builds.
LEMMA PackageStart == Package!Init => PackageInv
BY DEF Package!Init, Package!Nobody, Package!InBuild, PackageInv, PackageType, PackageHolds, PackageQuiet, Locked

\* A call, of one that holds the lock or waits for it.
LEMMA PackageCall ==
    ASSUME PackageInv, NEW c \in Callers, Package!Call(c)
    PROVE  PackageInv'
<1> USE DEF Package!InBuild, PackageInv, PackageType, PackageHolds, PackageQuiet, Locked, Package!Goto
<1>1. CASE Package!Refused(c) \/ Package!Called(c)
  BY <1>1 DEF Package!Refused, Package!Called, Package!locked
<1>2. CASE Package!Lock(c)
  BY <1>2 DEF Package!Lock
<1>3. CASE Package!apply(c)
  BY <1>3 DEF Package!apply
<1>4. CASE Package!Info(c) \/ Package!NoInfo(c)
  BY <1>4 DEF Package!Info, Package!NoInfo, Package!locked
<1>5. CASE Package!MkdirTemp(c)
  BY <1>5 DEF Package!MkdirTemp
<1>6. CASE Package!RemoveAll(c)
  BY <1>6 DEF Package!RemoveAll
<1>7. CASE Package!restore(c)
  BY <1>7 DEF Package!restore
<1>8. CASE Package!Unlock(c)
  BY <1>8 DEF Package!Unlock
<1>9. CASE \/ Package!Done(c) \/ Package!Fails(c) \/ Package!MergeFails(c) \/ Package!Refuses(c)
           \/ Package!StartCompile(c) \/ Package!Wait(c) \/ Package!Finished(c)
  <2>1. UNCHANGED <<building, settings, previous, work>>
    BY <1>9 DEF Package!Done, Package!Fails, Package!MergeFails, Package!Refuses, Package!StartCompile,
                Package!Wait, Package!Finished, Package!locked
  <2>2. pPc' = pPc \/ (pPc[c] = "steps" /\ pPc' = [pPc EXCEPT ![c] = "remove"])
    BY <1>9 DEF Package!Done, Package!Fails, Package!MergeFails, Package!Refuses, Package!StartCompile,
                Package!Wait, Package!Finished, Package!Rest, Package!Leave
  <2> QED BY <2>1, <2>2
<1> QED BY <1>1, <1>2, <1>3, <1>4, <1>5, <1>6, <1>7, <1>8, <1>9 DEF Package!Call

\* A call, or a goroutine that ends.
LEMMA PackageStep ==
    ASSUME PackageInv, [Package!Next]_(Package!vars)
    PROVE  PackageInv'
<1>1. CASE UNCHANGED <<pPc, building, settings, previous, work>>
  BY <1>1 DEF Package!InBuild, PackageInv, PackageType, PackageHolds, PackageQuiet
<1>2. (\E c \in Callers : Package!Call(c)) \/ UNCHANGED <<pPc, building, settings, previous, work>>
  BY DEF Package!Next, Package!Goroutines, Package!Begin, Package!CompileEnds, Package!vars, Package!locked
<1> QED BY <1>1, <1>2, PackageCall

(***************************************************************************)
(* The steps of a package build.                                           *)
(***************************************************************************)
Calls == {"MkdirAll", "main.wasm", "icon", "index.html", "wasm_exec.js", "wasm.js",
          "javac", "NDK", "clang", "jni", "the runtime carries no .java files", "classes", "builds.Wait",
          "not .aar", "create", "entries", "classes.jar", "close", "icons", "themes", "google services",
          "aapt2 compile", "aapt2 compile, library", "AndroidManifest.xml", "aapt2 link", "R classes", "d8",
          "app.zip", "debug keystore", "zipalign", "apksigner", "bundletool", "build-bundle", "keytool",
          "jarsigner", "SDK", "platform and build-tools", "packages", "libraries", "neither .apk nor .aab",
          "unsupported -arch", "xcrun", "RemoveAll", "lipo", "Info.plist", "plutil", "not .framework",
          "symlinks", "header", "modulemap", "neither .app nor .ipa", "profiles", "signApple", "zip",
          "not .app", "buildProgram", "signProgram", "signAdHoc", "dittozip", "notarize", "dittounzip",
          "windowsSignerFor", "not .exe", "minsdk", "buildArch", "publishPrograms"}
ArchNames == {"wasm", "arm64", "amd64", "arm", "386"} \cup STRING
Results == {Package!Keep, "partial", "unsigned", "whole"}
Ops == {"do", "merge", "start", "await", "refuse"}
StepsOf(ops, dones, facts) ==
    [op : ops, what : Calls \cup ArchNames, on : SUBSET ({"it"} \cup ArchNames), failed : Results, done : dones,
     makes : SUBSET facts]


\* A step is a sequence of one.
LEMMA OneStep ==
    ASSUME NEW ops, NEW dones, NEW facts,
           NEW op \in ops, NEW what \in Calls \cup ArchNames, NEW on \in SUBSET ({"it"} \cup ArchNames),
           NEW fail \in Results, NEW done \in dones, NEW makes \in SUBSET facts
    PROVE  Package!Step(op, what, on, fail, done, makes) \in Seq(StepsOf(ops, dones, facts))
<1> DEFINE x == [op |-> op, what |-> what, on |-> on, failed |-> fail, done |-> done, makes |-> makes]
<1>1. x \in StepsOf(ops, dones, facts)
  BY DEF StepsOf
<1>2. Package!Step(op, what, on, fail, done, makes) = <<x>>
  BY DEF Package!Step
<1> HIDE DEF x
<1> QED BY <1>1, <1>2

\* The kinds of steps, one by one.
LEMMA KindsOfSteps ==
    ASSUME NEW ops, NEW dones, NEW facts, Package!Keep \in dones
    PROVE  LET S == Seq(StepsOf(ops, dones, facts))
           IN /\ "do" \in ops =>
                  /\ \A w \in Calls : Package!Do(w) \in S
                  /\ \A w \in Calls, f \in facts : Package!Makes(w, f) \in S
                  /\ \A w \in Calls, fail \in Results, done \in dones : Package!Out(w, fail, done) \in S
                  /\ \A w \in Calls, on \in SUBSET ({"it"} \cup ArchNames), fail \in Results, done \in dones :
                        Package!To(on, w, fail, done) \in S
              /\ "start" \in ops => \A w \in ArchNames \cup Calls, f \in facts : Package!Start(w, f) \in S
              /\ "await" \in ops => Package!Await \in S
              /\ "refuse" \in ops => \A w \in Calls : Package!Refuse(w) \in S /\ \A fine : Package!Unless(fine, w) \in S
              /\ <<>> \in S
<1> DEFINE S == Seq(StepsOf(ops, dones, facts))
<1>0. Package!Keep \in Results /\ {} \in SUBSET ({"it"} \cup ArchNames) /\ {} \in SUBSET facts
      /\ {"it"} \in SUBSET ({"it"} \cup ArchNames) /\ \A f \in facts : {f} \in SUBSET facts
  BY DEF Results
<1>1. ASSUME "do" \in ops
      PROVE  /\ \A w \in Calls : Package!Do(w) \in S
             /\ \A w \in Calls, f \in facts : Package!Makes(w, f) \in S
             /\ \A w \in Calls, fail \in Results, done \in dones : Package!Out(w, fail, done) \in S
             /\ \A w \in Calls, on \in SUBSET ({"it"} \cup ArchNames), fail \in Results, done \in dones :
                   Package!To(on, w, fail, done) \in S
  BY <1>0, <1>1, OneStep DEF Package!Do, Package!Makes, Package!Out, Package!To
<1>2. ASSUME "start" \in ops PROVE \A w \in ArchNames \cup Calls, f \in facts : Package!Start(w, f) \in S
  BY <1>0, <1>2, OneStep DEF Package!Start
<1>3. ASSUME "await" \in ops PROVE Package!Await \in S
  <2>1. "builds.Wait" \in Calls \cup ArchNames
    BY DEF Calls
  <2> QED BY <1>0, <1>3, <2>1, OneStep DEF Package!Await
<1>4. <<>> \in S
  OBVIOUS
<1>5. ASSUME "refuse" \in ops PROVE \A w \in Calls : Package!Refuse(w) \in S /\ \A fine : Package!Unless(fine, w) \in S
  <2>1. \A w \in Calls : Package!Refuse(w) \in S
    BY <1>0, <1>5, OneStep DEF Package!Refuse
  <2> HIDE DEF S
  <2> QED BY <1>4, <2>1 DEF Package!Unless
<1> HIDE DEF S
<1>6. /\ "do" \in ops =>
            /\ \A w \in Calls : Package!Do(w) \in S
            /\ \A w \in Calls, f \in facts : Package!Makes(w, f) \in S
            /\ \A w \in Calls, fail \in Results, done \in dones : Package!Out(w, fail, done) \in S
            /\ \A w \in Calls, on \in SUBSET ({"it"} \cup ArchNames), fail \in Results, done \in dones :
                  Package!To(on, w, fail, done) \in S
      /\ "start" \in ops => \A w \in ArchNames \cup Calls, f \in facts : Package!Start(w, f) \in S
      /\ "await" \in ops => Package!Await \in S
      /\ "refuse" \in ops => \A w \in Calls : Package!Refuse(w) \in S /\ \A fine : Package!Unless(fine, w) \in S
      /\ <<>> \in S
  BY <1>1, <1>2, <1>3, <1>4, <1>5
<1> QED BY <1>6 DEF S

\* The same steps for each of a sequence are such steps.
LEMMA ForEachOf ==
    ASSUME NEW T, NEW seq, NEW N \in Nat, DOMAIN seq = 1 .. N, NEW pieces,
           pieces = [i \in DOMAIN seq |-> pieces[i]],
           \A i \in DOMAIN seq : pieces[i] \in Seq(T)
    PROVE  Package!FlattenSeq(pieces) \in Seq(T)
<1>1. pieces \in Seq(Seq(T))
  OBVIOUS
<1>2. Package!FlattenSeq(pieces) = Ext!FlattenSeq(pieces)
  BY DEF Package!FlattenSeq, Ext!FlattenSeq
<1>3. PICK P \in [0 .. Len(pieces) -> Seq(T)] : EndsWith(P, pieces) /\ Ext!FlattenSeq(pieces) = P[Len(pieces)]
  BY <1>1, EndToEnd
<1>4. Len(pieces) \in 0 .. Len(pieces)
  BY <1>1
<1> QED BY <1>2, <1>3, <1>4

\* What holds of the elements of the sequences holds of what they make end to end.
LEMMA EachIsThere ==
    ASSUME NEW T, NEW pieces \in Seq(Seq(T)), NEW k \in 1 .. Len(pieces), NEW j \in 1 .. Len(pieces[k])
    PROVE  \E i \in 1 .. Len(Package!FlattenSeq(pieces)) : Package!FlattenSeq(pieces)[i] = pieces[k][j]
<1> DEFINE N == Len(pieces)
<1>0. N \in Nat /\ \A n \in 1 .. N : pieces[n] \in Seq(T) /\ Len(pieces[n]) \in Nat
  OBVIOUS
<1>1. Package!FlattenSeq(pieces) = Ext!FlattenSeq(pieces)
  BY DEF Package!FlattenSeq, Ext!FlattenSeq
<1>2. PICK P \in [0 .. N -> Seq(T)] : EndsWith(P, pieces) /\ Ext!FlattenSeq(pieces) = P[N]
  BY EndToEnd
<1> DEFINE There(n) == \E i \in 1 .. Len(P[n]) : P[n][i] = pieces[k][j]
           Held == {n \in 0 .. N : n >= k => There(n)}
<1>3. 0 \in Held
  BY <1>0
<1>4. ASSUME NEW n \in 0 .. N - 1, n \in Held PROVE n + 1 \in Held
  <2>1. n + 1 \in 1 .. N /\ (n + 1) - 1 = n /\ n \in 0 .. N /\ n + 1 \in 0 .. N
    BY <1>0
  <2>2. P[n + 1] = P[(n + 1) - 1] \o pieces[n + 1]
    BY <1>2, <2>1 DEF EndsWith
  <2>3. P[n + 1] = P[n] \o pieces[n + 1]
    BY <2>1, <2>2
  <2>4. P[n] \in Seq(T) /\ pieces[n + 1] \in Seq(T) /\ Len(P[n]) \in Nat /\ Len(pieces[n + 1]) \in Nat
    <3>1. P[n] \in Seq(T)
      BY ONLY <1>2, <2>1
    <3>2. pieces[n + 1] \in Seq(T)
      BY ONLY <1>0, <2>1
    <3> QED BY ONLY <3>1, <3>2
  <2>5. /\ Len(P[n + 1]) = Len(P[n]) + Len(pieces[n + 1])
        /\ \A i \in 1 .. Len(P[n]) + Len(pieces[n + 1]) :
              P[n + 1][i] = IF i <= Len(P[n]) THEN P[n][i] ELSE pieces[n + 1][i - Len(P[n])]
    <3> DEFINE p == P[n]
               b == pieces[n + 1]
    <3>1. p \in Seq(T) /\ b \in Seq(T) /\ P[n + 1] = p \o b
      BY <2>3, <2>4
    <3> HIDE DEF p, b
    <3>2. /\ Len(P[n + 1]) = Len(p) + Len(b)
          /\ \A i \in 1 .. Len(p) + Len(b) : P[n + 1][i] = IF i <= Len(p) THEN p[i] ELSE b[i - Len(p)]
      BY ONLY <3>1, ConcatProperties
    <3> QED BY <3>2 DEF p, b
  <2>6. CASE n + 1 = k
    <3>1. Len(P[n]) + j \in 1 .. Len(P[n + 1]) /\ ~(Len(P[n]) + j <= Len(P[n])) /\ (Len(P[n]) + j) - Len(P[n]) = j
      <4> DEFINE p == Len(P[n])
                 b == Len(pieces[n + 1])
      <4>1. p \in Nat /\ b \in Nat /\ j \in 1 .. b /\ Len(P[n + 1]) = p + b
        BY <2>4, <2>5, <2>6
      <4> HIDE DEF p, b
      <4>2. p + j \in 1 .. Len(P[n + 1]) /\ ~(p + j <= p) /\ (p + j) - p = j
        BY ONLY <4>1
      <4> QED BY <4>2 DEF p
    <3>2. P[n + 1][Len(P[n]) + j] = pieces[k][j]
      BY <2>5, <2>6, <3>1
    <3> QED BY <2>1, <3>1, <3>2
  <2>7. CASE n + 1 # k /\ n + 1 >= k
    <3>1. n >= k
      BY <1>0, <2>1, <2>7
    <3>2. PICK i \in 1 .. Len(P[n]) : P[n][i] = pieces[k][j]
      BY <1>4, <3>1
    <3>3. i \in 1 .. Len(P[n + 1]) /\ P[n + 1][i] = pieces[k][j]
      <4> DEFINE p == Len(P[n])
                 b == Len(pieces[n + 1])
      <4>1. p \in Nat /\ b \in Nat /\ i \in 1 .. p /\ Len(P[n + 1]) = p + b /\ P[n][i] = pieces[k][j]
        BY <2>4, <2>5, <3>2
      <4>2. \A h \in 1 .. p + b : h <= p => P[n + 1][h] = P[n][h]
        BY <2>5
      <4> HIDE DEF p, b
      <4>3. i \in 1 .. p + b /\ i <= p
        BY ONLY <4>1
      <4> QED BY <4>1, <4>2, <4>3
    <3> QED BY <2>1, <3>3
  <2> QED BY <2>1, <2>6, <2>7
<1>5. N \in Held
  <2> HIDE DEF Held
  <2>1. 0 .. N \subseteq Held
    BY <1>0, <1>3, <1>4, InductionUpTo
  <2>2. N \in 0 .. N
    BY ONLY <1>0
  <2> QED BY ONLY <2>1, <2>2
<1>6. N >= k
  BY <1>0
<1> QED BY <1>1, <1>2, <1>5, <1>6

\* Every compile that is started is waited for.
Awaited(s) == \A i \in 1 .. Len(s) : s[i].op = "start" => \E j \in i + 1 .. Len(s) : s[j].op = "await"
\* A step leaves the artifact whole, and no later one leaves it otherwise.
LeftWhole(s, a) ==
    \E i \in 1 .. Len(s) :
        /\ s[i].op \in {"do", "merge"} /\ a \in s[i].on /\ s[i].done = "whole"
        /\ \A j \in i + 1 .. Len(s) : a \in s[j].on => s[j].done \in {Package!Keep, "whole"}

\* Two sequences whose compiles are waited for, one after the other.
LEMMA AwaitedBoth ==
    ASSUME NEW T, NEW s \in Seq(T), NEW t \in Seq(T), Awaited(s), Awaited(t)
    PROVE  Awaited(s \o t)
<1> DEFINE m == Len(s)
           n == Len(t)
<1>1. m \in Nat /\ n \in Nat /\ Len(s \o t) = m + n
  BY ConcatProperties
<1>2. \A i \in 1 .. m + n : (s \o t)[i] = IF i <= m THEN s[i] ELSE t[i - m]
  BY ConcatProperties
<1>3. ASSUME NEW i \in 1 .. m + n, (s \o t)[i].op = "start"
      PROVE  \E j \in i + 1 .. m + n : (s \o t)[j].op = "await"
  <2>1. CASE i <= m
    <3>1. i \in 1 .. m /\ s[i].op = "start"
      BY <1>2, <1>3, <2>1
    <3>2. PICK j \in i + 1 .. m : s[j].op = "await"
      BY <3>1 DEF Awaited
    <3>3. j \in 1 .. m + n /\ j \in i + 1 .. m + n /\ j <= m
      BY <1>1, <3>1
    <3> QED BY <1>2, <3>2, <3>3
  <2>2. CASE ~(i <= m)
    <3>1. i - m \in 1 .. n /\ t[i - m].op = "start"
      BY <1>1, <1>2, <1>3, <2>2
    <3>2. PICK j \in (i - m) + 1 .. n : t[j].op = "await"
      BY <3>1 DEF Awaited
    <3>3. j + m \in 1 .. m + n /\ j + m \in i + 1 .. m + n /\ ~(j + m <= m) /\ (j + m) - m = j
      BY <1>1, <3>1
    <3>4. (s \o t)[j + m] = t[(j + m) - m]
      BY <1>2, <3>3
    <3> QED BY <3>2, <3>3, <3>4
  <2> QED BY <2>1, <2>2
<1> QED BY <1>1, <1>3 DEF Awaited

\* What ends with a wait waits for all.
LEMMA AwaitedAtTheEnd ==
    ASSUME NEW T, NEW s \in Seq(T), Package!Await \in Seq(T)
    PROVE  Awaited(s \o Package!Await)
<1> DEFINE t == Package!Await
           m == Len(s)
<1>0. Len(t) = 1 /\ t[1].op = "await"
  BY DEF Package!Await, Package!Step
<1> HIDE DEF t
<1>1. t \in Seq(T) /\ m \in Nat
  BY DEF t
<1>2. /\ Len(s \o t) = m + 1
      /\ \A i \in 1 .. m + 1 : (s \o t)[i] = IF i <= m THEN s[i] ELSE t[i - m]
  <2>1. /\ Len(s \o t) = Len(s) + Len(t)
        /\ \A i \in 1 .. Len(s) + Len(t) : (s \o t)[i] = IF i <= Len(s) THEN s[i] ELSE t[i - Len(s)]
    BY <1>1, ConcatProperties
  <2> QED BY <1>0, <2>1
<1>3. m + 1 \in 1 .. m + 1 /\ ~(m + 1 <= m) /\ (m + 1) - m = 1
  BY <1>1
<1>4. (s \o t)[m + 1] = t[1]
  BY <1>2, <1>3
<1>5. ASSUME NEW i \in 1 .. m + 1, (s \o t)[i].op = "start"
      PROVE  \E j \in i + 1 .. m + 1 : (s \o t)[j].op = "await"
  <2>1. i # m + 1
    BY <1>0, <1>4, <1>5
  <2>2. m + 1 \in i + 1 .. m + 1
    BY <1>1, <2>1
  <2> QED BY <1>0, <1>4, <2>2
<1>6. Awaited(s \o t)
  BY <1>2, <1>5 DEF Awaited
<1> QED BY <1>6 DEF t

\* What starts nothing has nothing to wait for.
LEMMA NothingToAwait ==
    ASSUME NEW ops, NEW dones, NEW facts, "start" \notin ops, NEW s \in Seq(StepsOf(ops, dones, facts))
    PROVE  Awaited(s)
<1>1. \A i \in 1 .. Len(s) : s[i] \in StepsOf(ops, dones, facts)
  OBVIOUS
<1> QED BY <1>1 DEF Awaited, StepsOf

\* What makes it whole at the end, after anything.
LEMMA WholeAfterAll ==
    ASSUME NEW T, NEW s \in Seq(T), NEW t \in Seq(T), NEW a, LeftWhole(t, a)
    PROVE  LeftWhole(s \o t, a)
<1> DEFINE m == Len(s)
           n == Len(t)
<1>1. m \in Nat /\ n \in Nat /\ Len(s \o t) = m + n
  BY ConcatProperties
<1>2. \A i \in 1 .. m + n : (s \o t)[i] = IF i <= m THEN s[i] ELSE t[i - m]
  BY ConcatProperties
<1>3. PICK k \in 1 .. n : /\ t[k].op \in {"do", "merge"} /\ a \in t[k].on /\ t[k].done = "whole"
                          /\ \A j \in k + 1 .. n : a \in t[j].on => t[j].done \in {Package!Keep, "whole"}
  BY DEF LeftWhole
<1>4. ASSUME NEW j \in 1 .. n PROVE j + m \in 1 .. m + n /\ (s \o t)[j + m] = t[j]
  <2>1. j + m \in 1 .. m + n /\ ~(j + m <= m) /\ (j + m) - m = j
    BY <1>1
  <2>2. (s \o t)[j + m] = t[(j + m) - m]
    BY <1>2, <2>1
  <2> QED BY <2>1, <2>2
<1>5. ASSUME NEW i \in (k + m) + 1 .. m + n, a \in (s \o t)[i].on
      PROVE  (s \o t)[i].done \in {Package!Keep, "whole"}
  <2>1. i - m \in k + 1 .. n /\ i - m \in 1 .. n /\ (i - m) + m = i
    BY <1>1
  <2>2. (s \o t)[i] = t[i - m]
    BY <1>4, <2>1
  <2> QED BY <1>3, <1>5, <2>1, <2>2
<1>6. k + m \in 1 .. m + n /\ (s \o t)[k + m] = t[k]
  BY <1>4
<1>7. \E i \in 1 .. m + n : /\ (s \o t)[i].op \in {"do", "merge"} /\ a \in (s \o t)[i].on /\ (s \o t)[i].done = "whole"
                            /\ \A j \in i + 1 .. m + n : a \in (s \o t)[j].on => (s \o t)[j].done \in {Package!Keep, "whole"}
  <2> DEFINE u == s \o t
             h == k + m
  <2>1. h \in 1 .. m + n /\ u[h].op \in {"do", "merge"} /\ a \in u[h].on /\ u[h].done = "whole"
    BY <1>3, <1>6
  <2>2. \A j \in h + 1 .. m + n : a \in u[j].on => u[j].done \in {Package!Keep, "whole"}
    BY <1>5
  <2> HIDE DEF u, h
  <2>3. \E i \in 1 .. m + n : /\ u[i].op \in {"do", "merge"} /\ a \in u[i].on /\ u[i].done = "whole"
                              /\ \A j \in i + 1 .. m + n : a \in u[j].on => u[j].done \in {Package!Keep, "whole"}
    BY <2>1, <2>2
  <2> QED BY <2>3 DEF u
<1> QED BY <1>1, <1>7 DEF LeftWhole

\* The last of the steps leaves it whole.
LEMMA WholeAtLast ==
    ASSUME NEW on, NEW what, NEW fail, NEW a \in on
    PROVE  LeftWhole(Package!To(on, what, fail, "whole"), a)
<1> DEFINE t == Package!To(on, what, fail, "whole")
<1>1. Len(t) = 1 /\ t[1].op = "do" /\ t[1].on = on /\ t[1].done = "whole"
  BY DEF Package!To, Package!Step
<1> HIDE DEF t
<1>2. 1 \in 1 .. Len(t) /\ \A j \in 1 + 1 .. Len(t) : FALSE
  BY <1>1
<1> QED BY <1>1, <1>2 DEF LeftWhole, t

\* A step that answers with the whole artifact.
LEMMA WholeOut ==
    ASSUME NEW what, NEW fail
    PROVE  LeftWhole(Package!Out(what, fail, "whole"), "it")
<1>1. Package!Out(what, fail, "whole") = Package!To({"it"}, what, fail, "whole")
  BY DEF Package!Out, Package!To
<1> QED BY <1>1, WholeAtLast

-----------------------------------------------------------------------------
\* What a description declares holds of every program.
Consistent(r, facts) ==
    /\ \A p, q \in facts : p.of = "plist" /\ q.of = "program" => p.platform = q.platform /\ p.min = q.min
    /\ \A m \in facts : m.of = "manifest" =>
          m.min <= m.target /\ \A min \in Package!ToSet(r.libraries) : min <= m.min

StepsAreFine(r) ==
    LET B == Package!Build(r)
    IN /\ \E facts : B \in Seq(StepsOf(Ops, Results, facts)) /\ Consistent(r, facts)
       /\ Awaited(B)
       /\ (\A i \in 1 .. Len(B) : B[i].op # "refuse") => \A a \in Package!Artifacts(r) : LeftWhole(B, a)

\* Steps of fewer kinds are steps.
LEMMA FewerSteps ==
    ASSUME NEW ops \in SUBSET Ops, NEW dones \in SUBSET Results, NEW facts, NEW s \in Seq(StepsOf(ops, dones, facts))
    PROVE  s \in Seq(StepsOf(Ops, Results, facts))
<1>1. StepsOf(ops, dones, facts) \subseteq StepsOf(Ops, Results, facts)
  BY DEF StepsOf
<1> HIDE DEF StepsOf
<1> QED BY <1>1, SeqMonotonic

\* One, two or four of a set are a sequence of it.
LEMMA SomeAreASeq ==
    ASSUME NEW A, NEW w \in A, NEW x \in A, NEW y \in A, NEW z \in A
    PROVE  /\ <<w>> \in Seq(A) /\ Len(<<w>>) = 1 /\ DOMAIN <<w>> = 1 .. 1
           /\ <<w, x>> \in Seq(A) /\ Len(<<w, x>>) = 2 /\ DOMAIN <<w, x>> = 1 .. 2
           /\ <<w, x, y, z>> \in Seq(A) /\ Len(<<w, x, y, z>>) = 4 /\ DOMAIN <<w, x, y, z>> = 1 .. 4
OBVIOUS

\* The architectures a build is for: those asked for, or those of the platform.
LEMMA ArchsOf ==
    ASSUME NEW r \in Requests, r.target \in Package!Targets
    PROVE  /\ Package!getArchs(r) \in Seq(ArchNames)
           /\ Len(Package!getArchs(r)) \in Nat \ {0}
           /\ DOMAIN Package!getArchs(r) = 1 .. Len(Package!getArchs(r))
<1>1. CASE r.archs # <<>>
  <2>1. r.archs \in Seq(STRING)
    BY RequestsAssumption
  <2>2. r.archs \in Seq(ArchNames)
    <3>1. STRING \subseteq ArchNames
      BY DEF ArchNames
    <3> QED BY <2>1, <3>1, SeqMonotonic
  <2>3. Package!getArchs(r) = r.archs
    BY <1>1 DEF Package!getArchs
  <2> QED BY <1>1, <2>2, <2>3, EmptySeq
<1>2. CASE r.archs = <<>>
  <2> DEFINE A == ArchNames
  <2>1. "wasm" \in A /\ "arm64" \in A /\ "amd64" \in A /\ "arm" \in A /\ "386" \in A
    BY DEF ArchNames
  <2> HIDE DEF A
  <2>2. \/ Package!getArchs(r) = <<"wasm">>
        \/ Package!getArchs(r) = <<"arm64", "amd64">>
        \/ Package!getArchs(r) = <<"arm", "arm64", "386", "amd64">>
        \/ Package!getArchs(r) = <<"amd64">>
    BY <1>2 DEF Package!getArchs, Package!Targets
  <2>3. /\ Package!getArchs(r) \in Seq(A)
        /\ Len(Package!getArchs(r)) \in Nat \ {0}
        /\ DOMAIN Package!getArchs(r) = 1 .. Len(Package!getArchs(r))
    <3>1. CASE Package!getArchs(r) = <<"wasm">>
      BY <2>1, <3>1, SomeAreASeq
    <3>2. CASE Package!getArchs(r) = <<"arm64", "amd64">>
      BY <2>1, <3>2, SomeAreASeq
    <3>3. CASE Package!getArchs(r) = <<"arm", "arm64", "386", "amd64">>
      BY <2>1, <3>3, SomeAreASeq
    <3>4. CASE Package!getArchs(r) = <<"amd64">>
      BY <2>1, <3>4, SomeAreASeq
    <3> QED BY <2>2, <3>1, <3>2, <3>3, <3>4
  <2> QED BY <2>3 DEF A
<1> QED BY <1>1, <1>2

\* A build for the browser, of its steps: what they are, that its compiles are
\* waited for, that the artifact is left whole, and that what is described is so.
LEMMA StepsOfJS ==
    ASSUME NEW r \in Requests, r.target = "js"
    PROVE  StepsAreFine(r)
<1> DEFINE T == StepsOf({"do", "merge"}, Results, {})
           most == Package!Do("MkdirAll") \o Package!To({"it"}, "main.wasm", Package!Keep, "partial")
                   \o Package!Out("icon", "partial", "partial") \o Package!Out("index.html", "partial", "partial")
                   \o Package!Out("wasm_exec.js", "partial", "partial")
           last == Package!mergeJSFiles(r)
<1>1. Package!Build(r) = most \o last
  BY DEF Package!Build, Package!buildJS
<1>2. most \in Seq(T)
  <2>1. /\ Package!Do("MkdirAll") \in Seq(T) /\ Package!To({"it"}, "main.wasm", Package!Keep, "partial") \in Seq(T)
        /\ Package!Out("icon", "partial", "partial") \in Seq(T) /\ Package!Out("index.html", "partial", "partial") \in Seq(T)
        /\ Package!Out("wasm_exec.js", "partial", "partial") \in Seq(T)
    <3>1. "MkdirAll" \in Calls /\ "main.wasm" \in Calls /\ "icon" \in Calls /\ "index.html" \in Calls /\ "wasm_exec.js" \in Calls
      BY DEF Calls
    <3>2. Package!Keep \in Results /\ "partial" \in Results
      BY DEF Results
    <3>3. {"it"} \in SUBSET ({"it"} \cup ArchNames) /\ "do" \in {"do", "merge"}
      OBVIOUS
    <3> QED BY <3>1, <3>2, <3>3, KindsOfSteps
  <2> HIDE DEF T
  <2> QED BY <2>1, ConcatProperties
<1>3. last \in Seq(T)
  <2>1. "merge" \in {"do", "merge"} /\ "wasm.js" \in Calls \cup ArchNames /\ {"it"} \in SUBSET ({"it"} \cup ArchNames)
        /\ "partial" \in Results /\ "whole" \in Results /\ {} \in SUBSET {}
    <3>1. "wasm.js" \in Calls
      BY DEF Calls
    <3>2. "partial" \in Results /\ "whole" \in Results
      BY DEF Results
    <3> QED BY <3>1, <3>2
  <2> QED BY <2>1, OneStep DEF Package!mergeJSFiles
<1>4. Package!Build(r) \in Seq(T)
  <2> HIDE DEF T, most, last
  <2> QED BY <1>1, <1>2, <1>3, ConcatProperties
<1>5. LeftWhole(last, "it")
  <2>1. Len(last) = 1 /\ last[1].op = "merge" /\ last[1].on = {"it"} /\ last[1].done = "whole"
    BY DEF Package!mergeJSFiles, Package!Step
  <2> HIDE DEF last
  <2>2. 1 \in 1 .. Len(last) /\ \A j \in 1 + 1 .. Len(last) : FALSE
    BY <2>1
  <2> QED BY <2>1, <2>2 DEF LeftWhole
<1>6. LeftWhole(Package!Build(r), "it")
  <2> HIDE DEF T, most, last
  <2> QED BY <1>1, <1>2, <1>3, <1>5, WholeAfterAll
<1>7. Package!Artifacts(r) = {"it"}
  BY DEF Package!Artifacts
<1>8. Awaited(Package!Build(r))
  <2>1. "start" \notin {"do", "merge"}
    OBVIOUS
  <2> QED BY <1>4, <2>1, NothingToAwait
<1>9. Package!Build(r) \in Seq(StepsOf(Ops, Results, {})) /\ Consistent(r, {})
  <2>1. {"do", "merge"} \in SUBSET Ops /\ Results \in SUBSET Results
    BY DEF Ops
  <2> QED BY <1>4, <2>1, FewerSteps DEF Consistent
<1> QED BY <1>6, <1>7, <1>8, <1>9 DEF StepsAreFine

\* What is the greatest of some numbers that end with those of a sequence.
LEMMA GreatestOf ==
    ASSUME NEW seq \in Seq(Nat), NEW x \in Nat, NEW y \in Nat
    PROVE  LET S == {x, y} \cup Package!ToSet(seq)
           IN Package!Max(S) \in Nat /\ \A n \in S : n <= Package!Max(S)
<1> DEFINE N == Len(seq)
           Upto(n) == {x, y} \cup {seq[i] : i \in 1 .. n}
           Held == {n \in 0 .. N : \E g \in Upto(n) : \A m \in Upto(n) : m <= g}
<1>0. N \in Nat /\ \A i \in 1 .. N : seq[i] \in Nat
  OBVIOUS
<1>1. 0 \in Held
  <2>1. Upto(0) = {x, y}
    OBVIOUS
  <2>2. \E g \in {x, y} : \A m \in {x, y} : m <= g
    <3>1. x <= y \/ y <= x
      OBVIOUS
    <3> QED BY <3>1
  <2>3. \E g \in Upto(0) : \A m \in Upto(0) : m <= g
    <3> HIDE DEF Upto
    <3> QED BY <2>1, <2>2
  <2>4. 0 \in 0 .. N
    BY <1>0
  <2> HIDE DEF Upto
  <2> QED BY <2>3, <2>4
<1>2. ASSUME NEW n \in 0 .. N - 1, n \in Held PROVE n + 1 \in Held
  <2>1. n + 1 \in 1 .. N /\ n + 1 \in 0 .. N /\ 1 .. n + 1 = (1 .. n) \cup {n + 1} /\ seq[n + 1] \in Nat
    BY <1>0
  <2>2. Upto(n + 1) = Upto(n) \cup {seq[n + 1]}
    BY <2>1
  <2>3. PICK g \in Upto(n) : \A m \in Upto(n) : m <= g
    BY <1>2
  <2>4. Upto(n) \subseteq Nat
    BY <1>0
  <2> HIDE DEF Upto
  <2>5. g \in Nat
    BY <2>4
  <2>6. CASE seq[n + 1] <= g
    <3>1. \A m \in Upto(n + 1) : m <= g
      BY <2>2, <2>3, <2>6
    <3> QED BY <2>1, <2>2, <3>1
  <2>7. CASE ~(seq[n + 1] <= g)
    <3>1. \A m \in Upto(n) : m <= seq[n + 1]
      BY <2>1, <2>3, <2>4, <2>5, <2>7
    <3>2. \A m \in Upto(n + 1) : m <= seq[n + 1]
      BY <2>1, <2>2, <3>1
    <3> QED BY <2>1, <2>2, <3>2
  <2> QED BY <2>6, <2>7
<1>3. N \in Held
  <2> HIDE DEF Held
  <2>1. 0 .. N \subseteq Held
    BY <1>0, <1>1, <1>2, InductionUpTo
  <2> QED BY <1>0, <2>1
<1>4. Upto(N) = {x, y} \cup Package!ToSet(seq)
  BY DEF Package!ToSet
<1>5. Upto(N) \subseteq Nat
  BY <1>0
<1> DEFINE S == {x, y} \cup Package!ToSet(seq)
<1>6. \E g \in S : \A m \in S : g >= m
  <2>1. PICK g \in Upto(N) : \A m \in Upto(N) : m <= g
    BY <1>3
  <2> HIDE DEF Upto
  <2>2. \A m \in Upto(N) : g >= m
    BY <1>5, <2>1
  <2> QED BY <1>4, <2>2
<1>7. S \subseteq Nat
  BY <1>4, <1>5
<1> HIDE DEF S
<1>8. Package!Max(S) \in S /\ \A m \in S : Package!Max(S) >= m
  BY <1>6 DEF Package!Max
<1>9. Package!Max(S) \in Nat /\ \A n \in S : n <= Package!Max(S)
  BY <1>7, <1>8
<1> QED BY <1>9 DEF S

\* What a build is to leave.
LEMMA ArtifactsOf ==
    ASSUME NEW r \in Requests, r.target \in Package!Targets
    PROVE  Package!Artifacts(r) \in SUBSET ({"it"} \cup ArchNames)
<1>1. Package!ToSet(Package!getArchs(r)) \subseteq ArchNames
  BY ArchsOf DEF Package!ToSet
<1> QED BY <1>1 DEF Package!Artifacts

\* The same of a build for Windows, of one or of several programs.
LEMMA StepsOfWindows ==
    ASSUME NEW r \in Requests, r.target = "windows"
    PROVE  StepsAreFine(r)
<1> DEFINE ops == {"do", "refuse"}
           dones == {Package!Keep, "whole"}
           T == StepsOf(ops, dones, {})
           archs == Package!getArchs(r)
           pieces == [i \in DOMAIN archs |-> Package!Do("buildArch")]
           first == Package!Do("windowsSignerFor") \o Package!Unless(r.suffix \in {"", ".exe"}, "not .exe")
                    \o Package!Unless(r.minsdk <= 10, "minsdk") \o Package!Do("icon")
           last == Package!To(Package!Artifacts(r), "publishPrograms", Package!Keep, "whole")
<1>0. r.target \in Package!Targets /\ "do" \in ops /\ "refuse" \in ops /\ Package!Keep \in dones /\ "whole" \in dones
  BY DEF Package!Targets
<1>1. Package!Build(r) = (first \o Package!FlattenSeq(pieces)) \o last
  BY DEF Package!Build, Package!buildWindows, Package!ForEach
<1>2. /\ "windowsSignerFor" \in Calls /\ "not .exe" \in Calls /\ "minsdk" \in Calls /\ "icon" \in Calls
      /\ "buildArch" \in Calls /\ "publishPrograms" \in Calls
  BY DEF Calls
<1>3. Package!Keep \in Results
  BY DEF Results
<1>4. /\ \A w \in Calls : Package!Do(w) \in Seq(T) /\ \A fine : Package!Unless(fine, w) \in Seq(T)
      /\ last \in Seq(T)
  <2> HIDE DEF ops, dones
  <2>1. Package!Artifacts(r) \in SUBSET ({"it"} \cup ArchNames)
    BY <1>0, ArtifactsOf
  <2> QED BY <1>0, <1>2, <1>3, <2>1, KindsOfSteps
<1>5. first \in Seq(T)
  <2>1. /\ Package!Do("windowsSignerFor") \in Seq(T) /\ Package!Unless(r.suffix \in {"", ".exe"}, "not .exe") \in Seq(T)
        /\ Package!Unless(r.minsdk <= 10, "minsdk") \in Seq(T) /\ Package!Do("icon") \in Seq(T)
    BY <1>2, <1>4
  <2> HIDE DEF T
  <2> QED BY <2>1, ConcatProperties
<1>6. Package!FlattenSeq(pieces) \in Seq(T)
  <2>1. DOMAIN archs = 1 .. Len(archs) /\ Len(archs) \in Nat
    BY <1>0, ArchsOf
  <2>2. pieces = [i \in DOMAIN archs |-> pieces[i]] /\ \A i \in DOMAIN archs : pieces[i] \in Seq(T)
    BY <1>2, <1>4
  <2> HIDE DEF pieces, archs, T
  <2> QED BY <2>1, <2>2, ForEachOf
<1>8. Package!Build(r) \in Seq(T) /\ \A a \in Package!Artifacts(r) : LeftWhole(Package!Build(r), a)
  <2>1. \A a \in Package!Artifacts(r) : LeftWhole(last, a)
    BY WholeAtLast
  <2> HIDE DEF T, first, pieces, last
  <2>2. first \o Package!FlattenSeq(pieces) \in Seq(T)
    BY <1>5, <1>6, ConcatProperties
  <2>3. last \in Seq(T)
    BY <1>4
  <2> QED BY <1>1, <2>1, <2>2, <2>3, ConcatProperties, WholeAfterAll
<1>9. Awaited(Package!Build(r))
  <2>1. "start" \notin ops
    OBVIOUS
  <2> QED BY <1>8, <2>1, NothingToAwait
<1>10. Package!Build(r) \in Seq(StepsOf(Ops, Results, {})) /\ Consistent(r, {})
  <2>1. ops \in SUBSET Ops /\ dones \in SUBSET Results
    BY DEF Ops, Results
  <2> QED BY <1>8, <2>1, FewerSteps DEF Consistent
<1> QED BY <1>8, <1>9, <1>10 DEF StepsAreFine

\* The same of a build for macOS, signed, notarized or neither.
LEMMA StepsOfMac ==
    ASSUME NEW r \in Requests, r.target = "macos"
    PROVE  StepsAreFine(r)
<1> DEFINE ops == {"do", "refuse"}
           dones == {Package!Keep, "whole"}
           T == StepsOf(ops, dones, {})
           archs == Package!getArchs(r)
           Last(a) == Package!To(Package!Delivered(r, a), "dittounzip", "partial", "whole")
           Most(a) == Package!Do("buildProgram") \o Package!Do(IF r.key THEN "signProgram" ELSE "signAdHoc")
                      \o Package!Do("dittozip") \o Package!OnlyIf("id" \in r.notary, Package!Do("notarize"))
           pieces == [i \in DOMAIN archs |-> Most(archs[i]) \o Last(archs[i])]
           first == Package!Unless(r.suffix \in {"", ".app"}, "not .app") \o Package!Do("icon")
<1>0. r.target \in Package!Targets /\ "do" \in ops /\ "refuse" \in ops /\ Package!Keep \in dones /\ "whole" \in dones
  BY DEF Package!Targets
<1>1. Package!Build(r) = first \o Package!FlattenSeq(pieces)
  BY DEF Package!Build, Package!buildMac, Package!ForEach
<1>2. /\ "not .app" \in Calls /\ "icon" \in Calls /\ "buildProgram" \in Calls /\ "signProgram" \in Calls
      /\ "signAdHoc" \in Calls /\ "dittozip" \in Calls /\ "notarize" \in Calls /\ "dittounzip" \in Calls
  BY DEF Calls
<1>3. Package!Keep \in Results /\ "partial" \in Results
  BY DEF Results
<1>a. /\ archs \in Seq(ArchNames) /\ Len(archs) \in Nat \ {0} /\ DOMAIN archs = 1 .. Len(archs)
      /\ \A i \in DOMAIN archs : archs[i] \in ArchNames
  <2>1. archs \in Seq(ArchNames) /\ Len(archs) \in Nat \ {0} /\ DOMAIN archs = 1 .. Len(archs)
    BY <1>0, ArchsOf
  <2> HIDE DEF archs
  <2> QED BY <2>1
<1>4. /\ \A w \in Calls : Package!Do(w) \in Seq(T) /\ \A fine : Package!Unless(fine, w) \in Seq(T)
      /\ <<>> \in Seq(T)
      /\ \A a \in ArchNames : Last(a) \in Seq(T)
  <2> HIDE DEF ops, dones
  <2>1. \A a \in ArchNames : Package!Delivered(r, a) \in SUBSET ({"it"} \cup ArchNames)
    BY DEF Package!Delivered
  <2> QED BY <1>0, <1>2, <1>3, <2>1, KindsOfSteps
<1>5. \A a \in ArchNames : Most(a) \in Seq(T)
  <2>1. /\ Package!Do("buildProgram") \in Seq(T) /\ Package!Do(IF r.key THEN "signProgram" ELSE "signAdHoc") \in Seq(T)
        /\ Package!Do("dittozip") \in Seq(T)
    BY <1>2, <1>4
  <2>2. Package!OnlyIf("id" \in r.notary, Package!Do("notarize")) \in Seq(T)
    BY <1>2, <1>4 DEF Package!OnlyIf
  <2> HIDE DEF T
  <2> QED BY <2>1, <2>2, ConcatProperties
<1>6. pieces \in Seq(Seq(T)) /\ DOMAIN pieces = DOMAIN archs /\ Len(pieces) = Len(archs)
  <2>1. \A a \in ArchNames : Most(a) \o Last(a) \in Seq(T)
    <3> HIDE DEF T, Most, Last
    <3> QED BY <1>4, <1>5, ConcatProperties
  <2> HIDE DEF Most, Last, T, archs
  <2> QED BY <1>a, <2>1
<1>7. Package!FlattenSeq(pieces) \in Seq(T)
  <2>1. pieces = [i \in DOMAIN archs |-> pieces[i]] /\ \A i \in DOMAIN archs : pieces[i] \in Seq(T)
    <3> HIDE DEF pieces, T
    <3>1. DOMAIN pieces = 1 .. Len(pieces) /\ pieces = [i \in 1 .. Len(pieces) |-> pieces[i]]
      BY <1>6
    <3> QED BY <1>6, <3>1
  <2> HIDE DEF pieces, archs, T
  <2> QED BY <1>a, <2>1, ForEachOf
<1>8. first \in Seq(T)
  <2>1. Package!Unless(r.suffix \in {"", ".app"}, "not .app") \in Seq(T) /\ Package!Do("icon") \in Seq(T)
    BY <1>2, <1>4
  <2> HIDE DEF T
  <2> QED BY <2>1, ConcatProperties
<1>9. Package!Build(r) \in Seq(T)
  <2> HIDE DEF T, first, pieces
  <2> QED BY <1>1, <1>7, <1>8, ConcatProperties
<1>10. ASSUME NEW a \in Package!Artifacts(r) PROVE LeftWhole(Package!Build(r), a)
  <2>1. PICK k \in DOMAIN archs : a \in Package!Delivered(r, archs[k])
    <3>1. CASE Package!Artifacts(r) = {"it"}
      <4>1. 1 \in DOMAIN archs
        <5> HIDE DEF archs
        <5> QED BY <1>a
      <4> QED BY <1>10, <3>1, <4>1 DEF Package!Delivered
    <3>2. CASE Package!Artifacts(r) # {"it"}
      <4>1. Package!Artifacts(r) = Package!ToSet(archs)
        BY <3>2 DEF Package!Artifacts
      <4> QED BY <1>10, <3>2, <4>1 DEF Package!Delivered, Package!ToSet
    <3> QED BY <3>1, <3>2
  <2> DEFINE x == Last(archs[k])
             y == Most(archs[k])
             n == Len(y)
  <2>2. Len(x) = 1 /\ x[1].op = "do" /\ a \in x[1].on /\ x[1].done = "whole"
    BY <2>1 DEF Package!To, Package!Step
  <2>3. x \in Seq(T) /\ y \in Seq(T) /\ pieces[k] = y \o x
    <3>1. archs[k] \in ArchNames
      BY <1>a
    <3> QED BY <1>4, <1>5, <3>1
  <2> HIDE DEF x, y, T, pieces
  <2>4. n \in Nat /\ Len(pieces[k]) = n + 1 /\ pieces[k][n + 1] = x[1]
    <3>1. /\ Len(y \o x) = Len(y) + Len(x)
          /\ \A i \in 1 .. Len(y) + Len(x) : (y \o x)[i] = IF i <= Len(y) THEN y[i] ELSE x[i - Len(y)]
      BY <2>3, ConcatProperties
    <3>2. n \in Nat /\ n + 1 \in 1 .. n + 1 /\ ~(n + 1 <= n) /\ (n + 1) - n = 1
      BY <2>3
    <3>3. (y \o x)[n + 1] = x[(n + 1) - n]
      BY <2>2, <3>1, <3>2
    <3> QED BY <2>2, <2>3, <3>1, <3>2, <3>3
  <2> DEFINE flat == Package!FlattenSeq(pieces)
  <2>5. PICK i \in 1 .. Len(flat) : flat[i] = x[1]
    <3>1. k \in 1 .. Len(pieces) /\ n + 1 \in 1 .. Len(pieces[k])
      BY <1>a, <1>6, <2>4
    <3>2. \E i \in 1 .. Len(flat) : flat[i] = pieces[k][n + 1]
      BY <1>6, <3>1, EachIsThere
    <3> QED BY <2>4, <3>2
  <2>6. LeftWhole(flat, a)
    <3>1. \A j \in 1 .. Len(flat) : flat[j].done \in dones
      <4>1. \A z \in T : z.done \in dones
        BY DEF T, StepsOf
      <4> HIDE DEF flat, dones
      <4> QED BY <1>7, <4>1 DEF flat
    <3>2. \A j \in i + 1 .. Len(flat) : j \in 1 .. Len(flat)
      BY <2>5
    <3> HIDE DEF flat
    <3> QED BY <2>2, <2>5, <3>1, <3>2 DEF LeftWhole
  <2> HIDE DEF flat, first
  <2>7. first \in Seq(T) /\ flat \in Seq(T)
    BY <1>7, <1>8 DEF flat
  <2>8. LeftWhole(first \o flat, a)
    BY <2>6, <2>7, WholeAfterAll
  <2> QED BY <1>1, <2>8 DEF flat
<1>11. Awaited(Package!Build(r))
  <2>1. "start" \notin ops
    OBVIOUS
  <2> QED BY <1>9, <2>1, NothingToAwait
<1>12. Package!Build(r) \in Seq(StepsOf(Ops, Results, {})) /\ Consistent(r, {})
  <2>1. ops \in SUBSET Ops /\ dones \in SUBSET Results
    BY DEF Ops, Results
  <2> QED BY <1>9, <2>1, FewerSteps DEF Consistent
<1> QED BY <1>10, <1>11, <1>12 DEF StepsAreFine

-----------------------------------------------------------------------------
(* android.                                                                *)

ClassesFact == [of |-> "classes", arch |-> "any", min |-> 0]
ManifestFact(r) == [of |-> "manifest", min |-> Package!ManifestFloor(r), target |-> Package!TargetSDK(r)]
AndroidFacts(r) ==
    {Package!Program(a, Package!CompilerFloor(r)) : a \in ArchNames} \cup {ClassesFact, ManifestFact(r)}

\* The levels of an Android manifest are in order, and no library asks for more.
LEMMA AndroidFactsAgree ==
    ASSUME NEW r \in Requests
    PROVE  Consistent(r, AndroidFacts(r))
<1>0. r.libraries \in Seq(Nat) /\ r.minsdk \in Nat /\ r.targetsdk \in Nat
  BY RequestsAssumption
<1> DEFINE floor == Package!ManifestFloor(r)
<1>1. floor \in Nat /\ \A min \in Package!ToSet(r.libraries) : min <= floor
  <2>1. LET S == {r.minsdk, 16} \cup Package!ToSet(r.libraries)
        IN  Package!Max(S) \in Nat /\ \A n \in S : n <= Package!Max(S)
    BY <1>0, GreatestOf
  <2> QED BY <2>1 DEF Package!ManifestFloor
<1> HIDE DEF floor
<1>2. floor <= Package!TargetSDK(r)
  <2> DEFINE x == IF r.targetsdk > 0 THEN r.targetsdk ELSE 35
             none == <<>>
  <2>1. x \in Nat /\ none \in Seq(Nat) /\ Package!ToSet(none) = {}
    BY <1>0 DEF Package!ToSet
  <2>2. Package!TargetSDK(r) = Package!Max({x, floor})
    BY DEF Package!TargetSDK, floor
  <2> HIDE DEF x, none
  <2>3. LET S == {x, floor} \cup Package!ToSet(none)
        IN  Package!Max(S) \in Nat /\ \A n \in S : n <= Package!Max(S)
    BY <1>1, <2>1, GreatestOf
  <2>4. {x, floor} \cup Package!ToSet(none) = {x, floor}
    BY <2>1
  <2> QED BY <2>2, <2>3, <2>4
<1>3. \A f \in AndroidFacts(r) : f.of # "plist" /\ (f.of = "manifest" => f = ManifestFact(r))
  BY DEF AndroidFacts, Package!Program, ClassesFact, ManifestFact
<1>4. ManifestFact(r).min = floor /\ ManifestFact(r).target = Package!TargetSDK(r)
  BY DEF ManifestFact, floor
<1> QED BY <1>1, <1>2, <1>3, <1>4 DEF Consistent

\* What Android compiles, for its architectures at once, is waited for.
LEMMA CompileOfAndroid ==
    ASSUME NEW r \in Requests, r.target = "android"
    PROVE  /\ Package!compileAndroid(r) \in Seq(StepsOf(Ops, Results, AndroidFacts(r)))
           /\ Awaited(Package!compileAndroid(r))
<1> DEFINE T == StepsOf(Ops, Results, AndroidFacts(r))
           archs == Package!getArchs(r)
           One(a) == Package!Do("clang") \o Package!Do("jni")
                     \o Package!Start(a, Package!Program(a, Package!CompilerFloor(r)))
           pieces == [i \in DOMAIN archs |-> One(archs[i])]
           most == Package!Do("javac") \o Package!Do("NDK") \o Package!FlattenSeq(pieces)
                   \o Package!Unless(r.java, "the runtime carries no .java files") \o Package!Do("classes")
                   \o Package!Start("javac", ClassesFact)
<1>0. r.target \in Package!Targets
  BY DEF Package!Targets
<1>1. Package!compileAndroid(r) = most \o Package!Await
  BY DEF Package!compileAndroid, Package!ForEach, ClassesFact
<1>2. /\ "javac" \in Calls /\ "NDK" \in Calls /\ "clang" \in Calls /\ "jni" \in Calls /\ "classes" \in Calls
      /\ "the runtime carries no .java files" \in Calls
  BY DEF Calls
<1>3. /\ archs \in Seq(ArchNames) /\ Len(archs) \in Nat \ {0} /\ DOMAIN archs = 1 .. Len(archs)
      /\ \A i \in DOMAIN archs : archs[i] \in ArchNames
  <2>1. archs \in Seq(ArchNames) /\ Len(archs) \in Nat \ {0} /\ DOMAIN archs = 1 .. Len(archs)
    BY <1>0, ArchsOf
  <2> HIDE DEF archs
  <2> QED BY <2>1
<1>4. /\ \A w \in Calls : Package!Do(w) \in Seq(T) /\ \A fine : Package!Unless(fine, w) \in Seq(T)
      /\ \A w \in ArchNames \cup Calls, f \in AndroidFacts(r) : Package!Start(w, f) \in Seq(T)
      /\ Package!Await \in Seq(T)
  <2>1. {"do", "refuse", "start", "await"} \subseteq Ops /\ Package!Keep \in Results
    BY DEF Ops, Results
  <2> QED BY <2>1, KindsOfSteps
<1>5. \A a \in ArchNames : One(a) \in Seq(T)
  <2> TAKE a \in ArchNames
  <2>1. Package!Program(a, Package!CompilerFloor(r)) \in AndroidFacts(r)
    BY DEF AndroidFacts
  <2>2. /\ Package!Do("clang") \in Seq(T) /\ Package!Do("jni") \in Seq(T)
        /\ Package!Start(a, Package!Program(a, Package!CompilerFloor(r))) \in Seq(T)
    BY <1>2, <1>4, <2>1
  <2> HIDE DEF T
  <2> QED BY <2>2, ConcatProperties
<1>6. Package!FlattenSeq(pieces) \in Seq(T)
  <2>1. pieces = [i \in DOMAIN archs |-> pieces[i]] /\ \A i \in DOMAIN archs : pieces[i] \in Seq(T)
    <3> HIDE DEF One, T
    <3> QED BY <1>3, <1>5
  <2> HIDE DEF pieces, archs, T
  <2> QED BY <1>3, <2>1, ForEachOf
<1>7. most \in Seq(T)
  <2>1. ClassesFact \in AndroidFacts(r)
    BY DEF AndroidFacts
  <2>2. /\ Package!Do("javac") \in Seq(T) /\ Package!Do("NDK") \in Seq(T) /\ Package!Do("classes") \in Seq(T)
        /\ Package!Unless(r.java, "the runtime carries no .java files") \in Seq(T)
        /\ Package!Start("javac", ClassesFact) \in Seq(T)
    BY <1>2, <1>4, <2>1
  <2> HIDE DEF T, pieces
  <2> QED BY <1>6, <2>2, ConcatProperties
<1> HIDE DEF most, T
<1>8. most \o Package!Await \in Seq(T)
  BY <1>4, <1>7, ConcatProperties
<1>9. Awaited(most \o Package!Await)
  BY <1>4, <1>7, AwaitedAtTheEnd
<1> QED BY <1>1, <1>8, <1>9 DEF T

\* What follows the compiles: it starts none, and leaves the artifact whole.
PackAndroid(r) ==
    IF r.mode = "archive" THEN Package!archiveAndroid(r)
    ELSE Package!Unless(r.suffix \in {".apk", ".aab"}, "neither .apk nor .aab") \o Package!exeAndroid(r)
         \o IF r.suffix = ".aab" THEN Package!signAAB(r) ELSE Package!signAPK(r)

\* What Android packs, and signs, starts nothing.
LEMMA PackOfAndroid ==
    ASSUME NEW r \in Requests, r.target = "android"
    PROVE  /\ PackAndroid(r) \in Seq(StepsOf({"do", "refuse"}, Results, AndroidFacts(r)))
           /\ LeftWhole(PackAndroid(r), "it")
<1> DEFINE ops == {"do", "refuse"}
           T == StepsOf(ops, Results, AndroidFacts(r))
<1>1. /\ \A w \in Calls : Package!Do(w) \in Seq(T) /\ \A fine : Package!Unless(fine, w) \in Seq(T)
      /\ \A w \in Calls, f \in AndroidFacts(r) : Package!Makes(w, f) \in Seq(T)
      /\ \A w \in Calls, fail \in Results, done \in Results : Package!Out(w, fail, done) \in Seq(T)
      /\ <<>> \in Seq(T)
  <2>1. "do" \in ops /\ "refuse" \in ops /\ Package!Keep \in Results
    BY DEF Results
  <2> HIDE DEF ops
  <2> QED BY <2>1, KindsOfSteps
<1>2. Package!Keep \in Results /\ "partial" \in Results /\ "unsigned" \in Results /\ "whole" \in Results
  BY DEF Results
<1>3. CASE r.mode = "archive"
  <2> DEFINE most == Package!Unless(r.suffix = ".aar", "not .aar") \o Package!Out("create", Package!Keep, "partial")
                     \o Package!Out("entries", "partial", "partial") \o Package!Out("classes.jar", "partial", "partial")
             last == Package!Out("close", "partial", "whole")
  <2>1. PackAndroid(r) = most \o last
    BY <1>3 DEF PackAndroid, Package!archiveAndroid
  <2>2. "not .aar" \in Calls /\ "create" \in Calls /\ "entries" \in Calls /\ "classes.jar" \in Calls /\ "close" \in Calls
    BY DEF Calls
  <2>3. /\ Package!Unless(r.suffix = ".aar", "not .aar") \in Seq(T) /\ Package!Out("create", Package!Keep, "partial") \in Seq(T)
        /\ Package!Out("entries", "partial", "partial") \in Seq(T) /\ Package!Out("classes.jar", "partial", "partial") \in Seq(T)
        /\ last \in Seq(T)
    BY <1>1, <1>2, <2>2
  <2>4. LeftWhole(last, "it")
    BY WholeOut
  <2> HIDE DEF T, last
  <2>5. most \in Seq(T)
    BY <2>3, ConcatProperties
  <2> HIDE DEF most
  <2>6. most \o last \in Seq(T) /\ LeftWhole(most \o last, "it")
    BY <2>3, <2>4, <2>5, ConcatProperties, WholeAfterAll
  <2> QED BY <2>1, <2>6 DEF T
<1>4. Package!exeAndroid(r) \in Seq(T)
  <2>1. /\ "classes" \in Calls /\ "icons" \in Calls /\ "themes" \in Calls /\ "google services" \in Calls
        /\ "aapt2 compile" \in Calls /\ "aapt2 compile, library" \in Calls /\ "AndroidManifest.xml" \in Calls
        /\ "aapt2 link" \in Calls /\ "R classes" \in Calls /\ "d8" \in Calls /\ "app.zip" \in Calls
    BY DEF Calls
  <2> DEFINE pieces == [i \in DOMAIN r.libraries |-> Package!Do("aapt2 compile, library")]
  <2>2. Package!FlattenSeq(pieces) \in Seq(T)
    <3>1. r.libraries \in Seq(Nat)
      BY RequestsAssumption
    <3>2. DOMAIN r.libraries = 1 .. Len(r.libraries) /\ Len(r.libraries) \in Nat
      BY <3>1
    <3>3. pieces = [i \in DOMAIN r.libraries |-> pieces[i]] /\ \A i \in DOMAIN r.libraries : pieces[i] \in Seq(T)
      BY <1>1, <2>1
    <3> HIDE DEF pieces, T
    <3> QED BY <3>2, <3>3, ForEachOf
  <2>3. ManifestFact(r) \in AndroidFacts(r)
    BY DEF AndroidFacts
  <2>4. /\ Package!Do("icons") \in Seq(T) /\ Package!Do("themes") \in Seq(T) /\ Package!Do("google services") \in Seq(T)
        /\ Package!Do("aapt2 compile") \in Seq(T) /\ Package!Do("classes") \in Seq(T)
        /\ Package!Makes("AndroidManifest.xml", ManifestFact(r)) \in Seq(T)
        /\ Package!Do("aapt2 link") \in Seq(T) /\ Package!Do("R classes") \in Seq(T)
        /\ Package!Do("d8") \in Seq(T) /\ Package!Do("app.zip") \in Seq(T)
    BY <1>1, <2>1, <2>3
  <2> HIDE DEF T
  <2>5. Package!Resources(r) \in Seq(T)
    <3>1. Package!Resources(r) = Package!Do("icons") \o Package!Do("themes") \o Package!Do("google services")
                                 \o Package!Do("aapt2 compile") \o Package!FlattenSeq(pieces)
      BY DEF Package!Resources, Package!ForEach
    <3> DEFINE b == Package!FlattenSeq(pieces)
               a == Package!Do("icons") \o Package!Do("themes") \o Package!Do("google services")
                    \o Package!Do("aapt2 compile")
    <3>2. a \in Seq(T)
      BY <2>4, ConcatProperties
    <3>3. b \in Seq(T) /\ Package!Resources(r) = a \o b
      BY <2>2, <3>1
    <3> HIDE DEF a, b
    <3> QED BY <3>2, <3>3, ConcatProperties
  <2>6. Package!LinkAndroid(r) \in Seq(T)
    BY <2>4, ConcatProperties DEF Package!LinkAndroid, ManifestFact
  <2>7. Package!DexAndroid(r) \in Seq(T)
    BY <2>4, ConcatProperties DEF Package!DexAndroid
  <2> HIDE DEF pieces
  <2> QED BY <2>4, <2>5, <2>6, <2>7, ConcatProperties DEF Package!exeAndroid
<1>5. /\ Package!signAPK(r) \in Seq(T) /\ LeftWhole(Package!signAPK(r), "it")
      /\ Package!signAAB(r) \in Seq(T) /\ LeftWhole(Package!signAAB(r), "it")
  <2>1. /\ "zipalign" \in Calls /\ "debug keystore" \in Calls /\ "apksigner" \in Calls /\ "bundletool" \in Calls
        /\ "build-bundle" \in Calls /\ "keytool" \in Calls /\ "jarsigner" \in Calls
    BY DEF Calls
  <2>2. /\ Package!Out("zipalign", "partial", "unsigned") \in Seq(T) /\ Package!Keystore(r) \in Seq(T)
        /\ Package!Out("apksigner", "unsigned", "whole") \in Seq(T) /\ Package!Out("jarsigner", "unsigned", "whole") \in Seq(T)
        /\ Package!Do("bundletool") \in Seq(T) /\ Package!Do("build-bundle") \in Seq(T) /\ Package!Do("keytool") \in Seq(T)
    BY <1>1, <1>2, <2>1 DEF Package!Keystore, Package!OnlyIf
  <2>3. LeftWhole(Package!Out("apksigner", "unsigned", "whole"), "it") /\ LeftWhole(Package!Out("jarsigner", "unsigned", "whole"), "it")
    BY WholeOut
  <2> HIDE DEF T
  <2>4. Package!signAPK(r) \in Seq(T) /\ LeftWhole(Package!signAPK(r), "it")
    <3> DEFINE most == Package!Out("zipalign", "partial", "unsigned") \o Package!Keystore(r)
    <3>1. most \in Seq(T)
      BY <2>2, ConcatProperties
    <3> QED BY <2>2, <2>3, <3>1, ConcatProperties, WholeAfterAll DEF Package!signAPK
  <2>5. Package!signAAB(r) \in Seq(T) /\ LeftWhole(Package!signAAB(r), "it")
    <3> DEFINE most == Package!Do("bundletool") \o Package!Do("build-bundle") \o Package!Out("zipalign", "partial", "unsigned")
                       \o Package!Keystore(r) \o Package!Do("keytool")
    <3>1. most \in Seq(T)
      BY <2>2, ConcatProperties
    <3> QED BY <2>2, <2>3, <3>1, ConcatProperties, WholeAfterAll DEF Package!signAAB
  <2> QED BY <2>4, <2>5
<1>6. CASE r.mode # "archive"
  <2> DEFINE sign == IF r.suffix = ".aab" THEN Package!signAAB(r) ELSE Package!signAPK(r)
             refuse == Package!Unless(r.suffix \in {".apk", ".aab"}, "neither .apk nor .aab")
  <2>1. refuse \in Seq(T)
    <3>1. "neither .apk nor .aab" \in Calls
      BY DEF Calls
    <3> QED BY <1>1, <3>1
  <2>2. sign \in Seq(T) /\ LeftWhole(sign, "it")
    BY <1>5
  <2>3. PackAndroid(r) = (refuse \o Package!exeAndroid(r)) \o sign
    BY <1>6 DEF PackAndroid
  <2> HIDE DEF T, sign, refuse
  <2>4. refuse \o Package!exeAndroid(r) \in Seq(T)
    BY <1>4, <2>1, ConcatProperties
  <2>5. PackAndroid(r) \in Seq(T) /\ LeftWhole(PackAndroid(r), "it")
    BY <2>2, <2>3, <2>4, ConcatProperties, WholeAfterAll
  <2> QED BY <2>5 DEF T
<1> QED BY <1>3, <1>6

\* The same of a build for Android: a package, a bundle or an archive.
LEMMA StepsOfAndroid ==
    ASSUME NEW r \in Requests, r.target = "android"
    PROVE  StepsAreFine(r)
<1> DEFINE ops == {"do", "refuse"}
           facts == AndroidFacts(r)
           T == StepsOf(Ops, Results, facts)
           first == Package!Do("SDK") \o Package!Do("platform and build-tools") \o Package!Do("packages") \o Package!Do("libraries")
<1>1. Package!Build(r) = (first \o Package!compileAndroid(r)) \o PackAndroid(r)
  BY DEF Package!Build, Package!buildAndroid, PackAndroid
<1>2. first \in Seq(StepsOf(ops, Results, facts))
  <2> DEFINE S == StepsOf(ops, Results, facts)
  <2>1. "SDK" \in Calls /\ "platform and build-tools" \in Calls /\ "packages" \in Calls /\ "libraries" \in Calls
    BY DEF Calls
  <2>2. \A w \in Calls : Package!Do(w) \in Seq(S)
    <3>1. "do" \in ops /\ Package!Keep \in Results
      BY DEF Results
    <3> HIDE DEF ops, facts
    <3> QED BY <3>1, KindsOfSteps
  <2>3. /\ Package!Do("SDK") \in Seq(S) /\ Package!Do("platform and build-tools") \in Seq(S)
        /\ Package!Do("packages") \in Seq(S) /\ Package!Do("libraries") \in Seq(S)
    BY <2>1, <2>2
  <2> HIDE DEF S
  <2>4. first \in Seq(S)
    BY <2>3, ConcatProperties
  <2> QED BY <2>4 DEF S
<1> HIDE DEF first
<1>3. Awaited(first) /\ Awaited(PackAndroid(r)) /\ Awaited(Package!compileAndroid(r))
  <2>1. "start" \notin ops
    OBVIOUS
  <2> HIDE DEF ops
  <2>2. PackAndroid(r) \in Seq(StepsOf(ops, Results, facts))
    BY PackOfAndroid DEF ops
  <2> QED BY <1>2, <2>1, <2>2, NothingToAwait, CompileOfAndroid
<1>4. first \in Seq(T) /\ PackAndroid(r) \in Seq(T) /\ Package!compileAndroid(r) \in Seq(T)
  <2>1. ops \in SUBSET Ops /\ Results \in SUBSET Results
    BY DEF Ops
  <2>2. PackAndroid(r) \in Seq(StepsOf(ops, Results, facts))
    BY PackOfAndroid
  <2> HIDE DEF ops
  <2> QED BY <1>2, <2>1, <2>2, FewerSteps, CompileOfAndroid
<1> HIDE DEF T, facts
<1>5. first \o Package!compileAndroid(r) \in Seq(T) /\ Awaited(first \o Package!compileAndroid(r))
  BY <1>3, <1>4, ConcatProperties, AwaitedBoth
<1>6. Package!Build(r) \in Seq(T) /\ Awaited(Package!Build(r))
  BY <1>1, <1>3, <1>4, <1>5, ConcatProperties, AwaitedBoth
<1>7. LeftWhole(Package!Build(r), "it")
  BY <1>1, <1>4, <1>5, WholeAfterAll, PackOfAndroid
<1>8. Package!Artifacts(r) = {"it"}
  BY DEF Package!Artifacts
<1> QED BY <1>6, <1>7, <1>8, AndroidFactsAgree DEF StepsAreFine, T, facts

-----------------------------------------------------------------------------
(* ios and tvos.                                                           *)

Programs(r, A) == {Package!iosCompilerConfiguration(r, a) : a \in A}
Chosen(r) == Package!ForEach(Package!getArchs(r), LAMBDA a : Package!OnlyIf(Package!Kept(r, a), <<a>>))

\* The architectures a build is for on iOS are some it keeps.
LEMMA ChosenAreKept ==
    ASSUME NEW r \in Requests, r.target \in Package!Targets
    PROVE  Chosen(r) \in Seq({a \in ArchNames : Package!Kept(r, a)})
<1> DEFINE A == {a \in ArchNames : Package!Kept(r, a)}
           archs == Package!getArchs(r)
           pieces == [i \in DOMAIN archs |-> Package!OnlyIf(Package!Kept(r, archs[i]), <<archs[i]>>)]
<1>1. /\ archs \in Seq(ArchNames) /\ Len(archs) \in Nat \ {0} /\ DOMAIN archs = 1 .. Len(archs)
      /\ \A i \in DOMAIN archs : archs[i] \in ArchNames
  <2>1. archs \in Seq(ArchNames) /\ Len(archs) \in Nat \ {0} /\ DOMAIN archs = 1 .. Len(archs)
    BY ArchsOf
  <2> HIDE DEF archs
  <2> QED BY <2>1
<1>2. \A a \in ArchNames : Package!OnlyIf(Package!Kept(r, a), <<a>>) \in Seq(A)
  <2> TAKE a \in ArchNames
  <2>1. CASE Package!Kept(r, a)
    <3>1. a \in A
      BY <2>1
    <3> HIDE DEF A
    <3> QED BY <2>1, <3>1, SomeAreASeq DEF Package!OnlyIf
  <2>2. CASE ~ Package!Kept(r, a)
    BY <2>2 DEF Package!OnlyIf
  <2> QED BY <2>1, <2>2
<1>3. pieces = [i \in DOMAIN archs |-> pieces[i]] /\ \A i \in DOMAIN archs : pieces[i] \in Seq(A)
  <2> HIDE DEF A, archs
  <2> QED BY <1>1, <1>2
<1>4. Chosen(r) = Package!FlattenSeq(pieces)
  BY DEF Chosen, Package!ForEach
<1> HIDE DEF pieces, archs
<1>5. Package!FlattenSeq(pieces) \in Seq(A)
  <2> HIDE DEF A
  <2> QED BY <1>1, <1>3, ForEachOf
<1> QED BY <1>4, <1>5

\* One compile for each architecture that is kept.
LEMMA CompilesOf ==
    ASSUME NEW r, NEW A \in SUBSET ArchNames, NEW archs \in Seq(A), NEW facts, Programs(r, A) \subseteq facts
    PROVE  Package!Compiles(r, archs) \in Seq(StepsOf(Ops, Results, facts)) /\ Awaited(Package!Compiles(r, archs))
<1> DEFINE T == StepsOf(Ops, Results, facts)
           One(a) == Package!Unless(a \in Package!Device \/ Package!iosSimulatorArch(a), "unsupported -arch")
                     \o Package!Do("xcrun") \o Package!Start(a, Package!iosCompilerConfiguration(r, a))
           pieces == [i \in DOMAIN archs |-> One(archs[i])]
<1>1. Package!Compiles(r, archs) = Package!FlattenSeq(pieces) \o Package!Await
  BY DEF Package!Compiles, Package!ForEach
<1>2. "unsupported -arch" \in Calls /\ "xcrun" \in Calls
  BY DEF Calls
<1>3. /\ \A w \in Calls : Package!Do(w) \in Seq(T) /\ \A fine : Package!Unless(fine, w) \in Seq(T)
      /\ \A w \in ArchNames \cup Calls, f \in facts : Package!Start(w, f) \in Seq(T)
      /\ Package!Await \in Seq(T)
  <2>1. {"do", "refuse", "start", "await"} \subseteq Ops /\ Package!Keep \in Results
    BY DEF Ops, Results
  <2> QED BY <2>1, KindsOfSteps
<1>4. \A a \in A : One(a) \in Seq(T)
  <2> TAKE a \in A
  <2>1. Package!iosCompilerConfiguration(r, a) \in facts /\ a \in ArchNames
    BY DEF Programs
  <2>2. /\ Package!Unless(a \in Package!Device \/ Package!iosSimulatorArch(a), "unsupported -arch") \in Seq(T)
        /\ Package!Do("xcrun") \in Seq(T) /\ Package!Start(a, Package!iosCompilerConfiguration(r, a)) \in Seq(T)
    BY <1>2, <1>3, <2>1
  <2> HIDE DEF T
  <2> QED BY <2>2, ConcatProperties
<1>5. Package!FlattenSeq(pieces) \in Seq(T)
  <2>1. DOMAIN archs = 1 .. Len(archs) /\ Len(archs) \in Nat /\ \A i \in DOMAIN archs : archs[i] \in A
    OBVIOUS
  <2>2. pieces = [i \in DOMAIN archs |-> pieces[i]] /\ \A i \in DOMAIN archs : pieces[i] \in Seq(T)
    <3> HIDE DEF One, T
    <3> QED BY <1>4, <2>1
  <2> HIDE DEF pieces, T
  <2> QED BY <2>1, <2>2, ForEachOf
<1> DEFINE flat == Package!FlattenSeq(pieces)
<1> HIDE DEF flat, T
<1>6. flat \in Seq(T)
  BY <1>5 DEF flat
<1>7. flat \o Package!Await \in Seq(T) /\ Awaited(flat \o Package!Await)
  BY <1>3, <1>6, ConcatProperties, AwaitedAtTheEnd
<1> QED BY <1>1, <1>7 DEF flat, T

\* Steps that start nothing, before and after others.
LEMMA AwaitedBetween ==
    ASSUME NEW T, NEW s \in Seq(T), NEW t \in Seq(T), NEW u \in Seq(T), Awaited(s), Awaited(t), Awaited(u)
    PROVE  (s \o t) \o u \in Seq(T) /\ Awaited((s \o t) \o u)
<1>1. s \o t \in Seq(T) /\ Awaited(s \o t)
  BY AwaitedBoth, ConcatProperties
<1> QED BY <1>1, AwaitedBoth, ConcatProperties

\* A step that starts nothing leaves nothing to wait for.
LEMMA OneIsAwaited ==
    ASSUME NEW ops, NEW dones, NEW facts
    PROVE  /\ \A w : Awaited(Package!Do(w)) /\ \A fine : Awaited(Package!Unless(fine, w))
           /\ \A w, f : Awaited(Package!Makes(w, f))
           /\ \A w, fail, done, on : Awaited(Package!To(on, w, fail, done)) /\ Awaited(Package!Out(w, fail, done))
<1>1. \A w, on, fail, done, makes : Awaited(Package!Step("do", w, on, fail, done, makes))
  BY DEF Awaited, Package!Step
<1>2. \A w, on, fail, done, makes : Awaited(Package!Step("refuse", w, on, fail, done, makes))
  BY DEF Awaited, Package!Step
<1>3. Awaited(<<>>)
  BY DEF Awaited
<1> QED BY <1>1, <1>2, <1>3 DEF Package!Do, Package!Unless, Package!Refuse, Package!Makes, Package!To, Package!Out

\* The executable of iOS or tvOS: it starts compiles, waits for them, and is whole.
LEMMA ExeOf ==
    ASSUME NEW r, NEW A \in SUBSET ArchNames, NEW archs \in Seq(A), NEW facts, NEW where \in SUBSET {"it"},
           Programs(r, A) \subseteq facts, Package!iosManifestFor(r, archs) \in facts
    PROVE  /\ Package!exeIOS(r, archs, where) \in Seq(StepsOf(Ops, Results, facts))
           /\ Awaited(Package!exeIOS(r, archs, where))
           /\ \A a \in where : LeftWhole(Package!exeIOS(r, archs, where), a)
<1> DEFINE T == StepsOf(Ops, Results, facts)
           s1 == Package!To(where, "RemoveAll", "partial", "partial")
           s2 == Package!Compiles(r, archs)
           s3 == Package!Unless(archs # <<>>, "lipo")
           s4 == Package!Do("lipo")
           s5 == Package!Makes("Info.plist", Package!iosManifestFor(r, archs))
           s6 == Package!Do("icons")
           s7 == Package!To(where, "plutil", "partial", "whole")
<1>1. Package!exeIOS(r, archs, where) = s1 \o s2 \o s3 \o s4 \o s5 \o s6 \o s7
  BY DEF Package!exeIOS
<1>2. "RemoveAll" \in Calls /\ "lipo" \in Calls /\ "Info.plist" \in Calls /\ "icons" \in Calls /\ "plutil" \in Calls
  BY DEF Calls
<1>3. s1 \in Seq(T) /\ s3 \in Seq(T) /\ s4 \in Seq(T) /\ s5 \in Seq(T) /\ s6 \in Seq(T) /\ s7 \in Seq(T)
  <2>1. /\ "do" \in Ops /\ "refuse" \in Ops /\ Package!Keep \in Results /\ "partial" \in Results /\ "whole" \in Results
    BY DEF Ops, Results
  <2>2. where \in SUBSET ({"it"} \cup ArchNames)
    OBVIOUS
  <2> QED BY <1>2, <2>1, <2>2, KindsOfSteps
<1>4. s2 \in Seq(T) /\ Awaited(s2)
  BY CompilesOf
<1>5. Awaited(s1) /\ Awaited(s3) /\ Awaited(s4) /\ Awaited(s5) /\ Awaited(s6) /\ Awaited(s7)
  BY OneIsAwaited
<1>6. \A a \in where : LeftWhole(s7, a)
  BY WholeAtLast
<1> DEFINE most == s1 \o s2 \o s3 \o s4 \o s5 \o s6
<1> HIDE DEF T, s1, s2, s3, s4, s5, s6, s7
<1>7. most \in Seq(T) /\ Awaited(most)
  <2>1. s1 \o s2 \o s3 \in Seq(T) /\ Awaited(s1 \o s2 \o s3)
    BY <1>3, <1>4, <1>5, AwaitedBetween
  <2> DEFINE p == s1 \o s2 \o s3
  <2> HIDE DEF p
  <2>2. p \o s4 \o s5 \in Seq(T) /\ Awaited(p \o s4 \o s5)
    BY <1>3, <1>5, <2>1, AwaitedBetween DEF p
  <2> DEFINE q == p \o s4 \o s5
  <2> HIDE DEF q
  <2>3. q \o s6 \in Seq(T) /\ Awaited(q \o s6)
    BY <1>3, <1>5, <2>2, AwaitedBoth, ConcatProperties DEF q
  <2> QED BY <2>3 DEF q, p
<1> HIDE DEF most
<1>8. most \o s7 \in Seq(T) /\ Awaited(most \o s7) /\ \A a \in where : LeftWhole(most \o s7, a)
  BY <1>3, <1>5, <1>6, <1>7, AwaitedBoth, ConcatProperties, WholeAfterAll
<1> QED BY <1>1, <1>8 DEF most, T

\* The property list of iOS says what its programs are for.
LEMMA DescribesItsPrograms ==
    ASSUME NEW r \in Requests, r.target \in {"ios", "tvos"}
    PROVE  LET archs == Chosen(r)
           IN Consistent(r, Programs(r, Package!ToSet(archs)) \cup {Package!iosManifestFor(r, archs)})
<1> DEFINE archs == Chosen(r)
           facts == Programs(r, Package!ToSet(archs)) \cup {Package!iosManifestFor(r, archs)}
<1>0. archs \in Seq({a \in ArchNames : Package!Kept(r, a)})
  BY ChosenAreKept DEF Package!Targets
<1> HIDE DEF archs
<1>1. /\ Package!iosManifestFor(r, archs).of = "plist" /\ Package!iosManifestFor(r, archs).min = Package!IOSFloor(r)
      /\ Package!iosManifestFor(r, archs).platform = Package!iosPlatform(r.target, Package!iosSimulatorBuild(archs))
  BY DEF Package!iosManifestFor
<1>2. \A a : /\ Package!iosCompilerConfiguration(r, a).of = "program"
             /\ Package!iosCompilerConfiguration(r, a).min = Package!IOSFloor(r)
             /\ Package!iosCompilerConfiguration(r, a).platform = Package!iosPlatform(r.target, Package!iosSimulatorArch(a))
  BY DEF Package!iosCompilerConfiguration
<1>3. ASSUME NEW a \in Package!ToSet(archs)
      PROVE  Package!iosSimulatorArch(a) = Package!iosSimulatorBuild(archs)
  <2>1. PICK i \in DOMAIN archs : archs[i] = a
    BY <1>3 DEF Package!ToSet
  <2>2. archs # <<>> /\ 1 \in DOMAIN archs
    BY <1>0, <2>1
  <2>3. Package!Kept(r, a) /\ Package!Kept(r, archs[1])
    BY <1>0, <2>1, <2>2
  <2>4. Package!iosSimulatorArch(a) = Package!iosSimulatorArch(archs[1])
    BY <2>3 DEF Package!Kept, Package!Device, Package!iosSimulatorArch
  <2> QED BY <2>2, <2>4 DEF Package!iosSimulatorBuild, Package!iosSimulatorArch
<1>4. ASSUME NEW p \in facts, NEW q \in facts, p.of = "plist", q.of = "program"
      PROVE  p.platform = q.platform /\ p.min = q.min
  <2>1. p = Package!iosManifestFor(r, archs)
    BY <1>2, <1>4 DEF Programs
  <2>2. PICK a \in Package!ToSet(archs) : q = Package!iosCompilerConfiguration(r, a)
    BY <1>1, <1>4 DEF Programs
  <2> QED BY <1>1, <1>2, <1>3, <2>1, <2>2
<1>5. \A m \in facts : m.of # "manifest"
  BY <1>1, <1>2 DEF Programs
<1> HIDE DEF facts
<1>6. Consistent(r, facts)
  BY <1>4, <1>5 DEF Consistent
<1> QED BY <1>6 DEF facts, archs

\* The same of a build for iOS or tvOS: an application, its archive or a framework.
LEMMA StepsOfIOS ==
    ASSUME NEW r \in Requests, r.target \in {"ios", "tvos"}
    PROVE  StepsAreFine(r)
<1>0. r.target \in Package!Targets /\ Package!Artifacts(r) = {"it"}
  BY DEF Package!Targets, Package!Artifacts
<1>a. /\ "not .framework" \in Calls /\ "RemoveAll" \in Calls /\ "symlinks" \in Calls /\ "lipo" \in Calls
      /\ "header" \in Calls /\ "modulemap" \in Calls /\ "neither .app nor .ipa" \in Calls
      /\ "profiles" \in Calls /\ "signApple" \in Calls /\ "zip" \in Calls
  BY DEF Calls
<1>1. ASSUME NEW facts
      PROVE  /\ \A w \in Calls : /\ Package!Do(w) \in Seq(StepsOf(Ops, Results, facts))
                                 /\ \A fine : Package!Unless(fine, w) \in Seq(StepsOf(Ops, Results, facts))
                                 /\ Package!Out(w, "partial", "partial") \in Seq(StepsOf(Ops, Results, facts))
                                 /\ Package!Out(w, "partial", "whole") \in Seq(StepsOf(Ops, Results, facts))
  <2>1. "do" \in Ops /\ "refuse" \in Ops /\ Package!Keep \in Results /\ "partial" \in Results /\ "whole" \in Results
    BY DEF Ops, Results
  <2> QED BY <2>1, KindsOfSteps
<1>2. CASE r.mode = "archive"
  <2> DEFINE facts == Programs(r, ArchNames)
             T == StepsOf(Ops, Results, facts)
             s1 == Package!Unless(r.suffix = ".framework", "not .framework")
             s2 == Package!Out("RemoveAll", "partial", "partial")
             s3 == Package!Do("symlinks")
             s4 == Package!Compiles(r, Package!getArchs(r))
             s5 == Package!Do("lipo")
             s6 == Package!Do("header")
             s7 == Package!Out("modulemap", "partial", "whole")
  <2>1. Package!Build(r) = s1 \o s2 \o s3 \o s4 \o s5 \o s6 \o s7
    BY <1>2 DEF Package!Build, Package!buildIOS, Package!archiveIOS
  <2>2. s1 \in Seq(T) /\ s2 \in Seq(T) /\ s3 \in Seq(T) /\ s5 \in Seq(T) /\ s6 \in Seq(T) /\ s7 \in Seq(T)
    BY <1>1, <1>a
  <2>3. Awaited(s1) /\ Awaited(s2) /\ Awaited(s3) /\ Awaited(s5) /\ Awaited(s6) /\ Awaited(s7)
    BY OneIsAwaited
  <2>4. s4 \in Seq(T) /\ Awaited(s4)
    <3>1. ArchNames \in SUBSET ArchNames /\ Package!getArchs(r) \in Seq(ArchNames)
      BY <1>0, ArchsOf
    <3> QED BY <3>1, CompilesOf
  <2>5. LeftWhole(s7, "it")
    BY WholeOut
  <2> HIDE DEF T, s1, s2, s3, s4, s5, s6, s7
  <2> DEFINE p == s1 \o s2 \o s3
             q == p \o s4 \o s5
             most == q \o s6
  <2>6. p \in Seq(T) /\ Awaited(p)
    BY <2>2, <2>3, AwaitedBetween
  <2> HIDE DEF p
  <2>7. q \in Seq(T) /\ Awaited(q)
    BY <2>2, <2>3, <2>4, <2>6, AwaitedBetween
  <2> HIDE DEF q
  <2>8. most \in Seq(T) /\ Awaited(most)
    BY <2>2, <2>3, <2>7, AwaitedBoth, ConcatProperties
  <2>9. Package!Build(r) = most \o s7
    BY <2>1 DEF q, p
  <2> HIDE DEF most
  <2>10. Package!Build(r) \in Seq(T) /\ Awaited(Package!Build(r)) /\ LeftWhole(Package!Build(r), "it")
    BY <2>2, <2>3, <2>5, <2>8, <2>9, AwaitedBoth, ConcatProperties, WholeAfterAll
  <2>11. Consistent(r, facts)
    <3>1. \A f \in facts : f.of = "program"
      BY DEF Programs, Package!iosCompilerConfiguration
    <3> QED BY <3>1 DEF Consistent
  <2> QED BY <1>0, <2>10, <2>11 DEF StepsAreFine, T
<1>3. CASE r.mode # "archive"
  <2> DEFINE archs == Chosen(r)
             A == Package!ToSet(archs)
             facts == Programs(r, A) \cup {Package!iosManifestFor(r, archs)}
             T == StepsOf(Ops, Results, facts)
  <2>1. A \in SUBSET ArchNames /\ archs \in Seq(A)
    <3>1. archs \in Seq({a \in ArchNames : Package!Kept(r, a)})
      BY <1>0, ChosenAreKept
    <3> HIDE DEF archs
    <3>2. A \in SUBSET ArchNames
      BY <3>1 DEF Package!ToSet
    <3>3. archs \in Seq(A)
      BY <3>1 DEF Package!ToSet
    <3> QED BY <3>2, <3>3
  <2>2. Consistent(r, facts)
    BY DescribesItsPrograms
  <2>3. \A where \in SUBSET {"it"} :
           /\ Package!exeIOS(r, archs, where) \in Seq(T)
           /\ Awaited(Package!exeIOS(r, archs, where))
           /\ \A a \in where : LeftWhole(Package!exeIOS(r, archs, where), a)
    <3>1. Programs(r, A) \subseteq facts /\ Package!iosManifestFor(r, archs) \in facts
      OBVIOUS
    <3> HIDE DEF archs, A, facts
    <3> QED BY <2>1, <3>1, ExeOf
  <2>4. CASE ~ Package!ForDevice(r)
    <3> DEFINE s == Package!Unless(r.suffix = ".app", "neither .app nor .ipa")
               exe == Package!exeIOS(r, archs, {"it"})
    <3>1. Package!Build(r) = s \o exe
      BY <1>3, <2>4 DEF Package!Build, Package!buildIOS, Chosen
    <3>2. s \in Seq(T) /\ Awaited(s) /\ exe \in Seq(T) /\ Awaited(exe) /\ LeftWhole(exe, "it")
      BY <1>1, <1>a, <2>3, OneIsAwaited
    <3> HIDE DEF s, exe, T
    <3>3. Package!Build(r) \in Seq(T) /\ Awaited(Package!Build(r)) /\ LeftWhole(Package!Build(r), "it")
      BY <3>1, <3>2, AwaitedBoth, ConcatProperties, WholeAfterAll
    <3> QED BY <1>0, <2>2, <3>3 DEF StepsAreFine, T
  <2>5. CASE Package!ForDevice(r)
    <3> DEFINE exe == Package!exeIOS(r, archs, {})
               s1 == Package!Do("profiles")
               s2 == Package!Do("signApple")
               s3 == Package!Out("zip", "partial", "whole")
               most == exe \o s1 \o s2
    <3>1. Package!Build(r) = most \o s3
      BY <1>3, <2>5 DEF Package!Build, Package!buildIOS, Chosen
    <3>2. /\ exe \in Seq(T) /\ Awaited(exe) /\ s1 \in Seq(T) /\ Awaited(s1) /\ s2 \in Seq(T) /\ Awaited(s2)
          /\ s3 \in Seq(T) /\ Awaited(s3) /\ LeftWhole(s3, "it")
      BY <1>1, <1>a, <2>3, OneIsAwaited, WholeOut
    <3> HIDE DEF exe, s1, s2, s3, T
    <3>3. most \in Seq(T) /\ Awaited(most)
      BY <3>2, AwaitedBetween
    <3> HIDE DEF most
    <3>4. Package!Build(r) \in Seq(T) /\ Awaited(Package!Build(r)) /\ LeftWhole(Package!Build(r), "it")
      BY <3>1, <3>2, <3>3, AwaitedBoth, ConcatProperties, WholeAfterAll
    <3> QED BY <1>0, <2>2, <3>4 DEF StepsAreFine, T
  <2> QED BY <2>4, <2>5
<1> QED BY <1>2, <1>3

\* The same of every build that passes the validation.
LEMMA StepsOfBuild ==
    ASSUME NEW r \in Requests, Package!validate(r)
    PROVE  StepsAreFine(r)
BY StepsOfJS, StepsOfWindows, StepsOfMac, StepsOfAndroid, StepsOfIOS DEF Package!validate, Package!Targets

-----------------------------------------------------------------------------
(* The build.                                                              *)

Busy(c) == Package!Compiling(c) # {}
\* What is left of the steps after the first n, and what those n did.
LeftOf(B, n) == [i \in 1 .. Len(B) - n |-> B[n + i]]
WholeBy(B, n, a) ==
    \E i \in 1 .. n : /\ B[i].op \in {"do", "merge"} /\ a \in B[i].on /\ B[i].done = "whole"
                      /\ \A j \in i + 1 .. n : a \in B[j].on => B[j].done \in {Package!Keep, "whole"}
Pending1(B, n) == \E i \in 1 .. n : B[i].op = "start" /\ \A j \in i + 1 .. n : B[j].op # "await"

\* The first n steps are done: what they leave is there, and who is still compiling is waited for.
Reached(B, n, c) ==
    /\ n \in 0 .. Len(B) /\ steps[c] = LeftOf(B, n)
    /\ \A i \in 1 .. n : B[i].op # "refuse"
    /\ \A a \in DOMAIN dest[c] : WholeBy(B, n, a) => dest[c][a] = "whole"
    /\ settled[c] \subseteq UNION {B[i].makes : i \in 1 .. n}
    /\ Busy(c) \/ c \in failed => Pending1(B, n)

\* What a caller is told of with nil.
Ready(c) ==
    /\ \A a \in DOMAIN dest[c] : dest[c][a] = "whole"
    /\ ~Busy(c) /\ c \notin failed /\ Package!Described(c)

BeforeSteps == {"called", "waiting", "apply", "info", "temp"}
StepsType ==
    /\ request \in [Callers -> Requests]
    /\ DOMAIN pPc = Callers /\ DOMAIN steps = Callers /\ DOMAIN settled = Callers /\ DOMAIN pAnswer = Callers
    /\ DOMAIN dest = Callers /\ \A c \in Callers : DOMAIN dest[c] = Package!Artifacts(request[c])
Caller(c) ==
    /\ pPc[c] \notin {"called", "returned"} => Package!validate(request[c])
    /\ pPc[c] \in BeforeSteps => ~Busy(c) /\ c \notin failed /\ settled[c] = {} /\ pAnswer[c] # "nil"
    /\ pPc[c] = "steps" => pAnswer[c] # "nil" /\ \E n \in Nat : Reached(Package!Build(request[c]), n, c)
    /\ pPc[c] \notin BeforeSteps \cup {"steps"} /\ pAnswer[c] = "nil" /\ c \notin lost => Ready(c)
StepsInv == StepsType /\ \A c \in Callers : Caller(c)

\* A step is done: one less is left.
LEMMA OneMoreStep ==
    ASSUME NEW T, NEW B \in Seq(T), NEW n \in 0 .. Len(B), LeftOf(B, n) # <<>>
    PROVE  /\ n + 1 \in 1 .. Len(B) /\ n + 1 \in 0 .. Len(B) /\ LeftOf(B, n)[1] = B[n + 1]
           /\ Tail(LeftOf(B, n)) = LeftOf(B, n + 1)
<1> DEFINE k == Len(B) - n
           s == LeftOf(B, n)
<1>1. k \in Nat /\ Len(B) \in Nat /\ n \in Nat
  OBVIOUS
<1>2. s \in Seq(T) /\ Len(s) = k /\ \A i \in 1 .. k : s[i] = B[n + i]
  <2>1. \A i \in 1 .. k : n + i \in 1 .. Len(B)
    BY <1>1
  <2>2. s \in [1 .. k -> T]
    BY <2>1 DEF LeftOf
  <2> QED BY <1>1, <2>2 DEF LeftOf
<1> HIDE DEF s
<1>3. k # 0
  <2>1. s # <<>>
    BY DEF s
  <2> HIDE DEF k
  <2> QED BY <1>2, <2>1
<1>4. n + 1 \in 1 .. Len(B) /\ n + 1 \in 0 .. Len(B) /\ 1 \in 1 .. k
  BY <1>1, <1>3
<1>5. Tail(s) \in Seq(T) /\ Len(Tail(s)) = k - 1 /\ \A i \in 1 .. k - 1 : Tail(s)[i] = s[i + 1]
  <2>1. s # <<>>
    BY DEF s
  <2>2. Tail(s) \in Seq(T) /\ Len(Tail(s)) = Len(s) - 1 /\ \A i \in 1 .. Len(Tail(s)) : Tail(s)[i] = s[i + 1]
    BY <1>2, <2>1, HeadTailProperties
  <2> HIDE DEF k
  <2> QED BY <1>2, <2>2
<1>a. PICK t : t = Tail(s)
  OBVIOUS
<1>b. t \in Seq(T) /\ Len(t) = k - 1 /\ \A i \in 1 .. k - 1 : t[i] = s[i + 1]
  BY ONLY <1>5, <1>a
<1>6. t = LeftOf(B, n + 1)
  <2>1. Len(B) - (n + 1) = k - 1 /\ k - 1 \in Nat
    BY <1>1, <1>3
  <2>2. ASSUME NEW i \in 1 .. k - 1 PROVE t[i] = B[(n + 1) + i]
    <3>1. PICK j : j = n + (i + 1)
      OBVIOUS
    <3>2. i + 1 \in 1 .. k /\ (n + 1) + i = j
      BY <1>1, <3>1
    <3>3. s[i + 1] = B[j]
      BY <1>2, <3>1, <3>2
    <3>4. t[i] = s[i + 1]
      BY ONLY <1>b, <2>2
    <3> QED BY <3>2, <3>3, <3>4
  <2>3. t = [i \in 1 .. k - 1 |-> t[i]]
    BY ONLY <1>b, <2>1
  <2>4. t = [i \in 1 .. k - 1 |-> B[(n + 1) + i]]
    BY <2>2, <2>3
  <2> HIDE DEF k
  <2>5. LeftOf(B, n + 1) = [i \in 1 .. k - 1 |-> B[(n + 1) + i]]
    BY <2>1 DEF LeftOf
  <2> QED BY ONLY <2>4, <2>5
<1>7. s[1] = B[n + 1]
  BY <1>2, <1>4
<1> QED BY <1>4, <1>6, <1>7, <1>a DEF s

\* When none is left, all are done.
LEMMA NoMoreSteps ==
    ASSUME NEW T, NEW B \in Seq(T), NEW n \in 0 .. Len(B), LeftOf(B, n) = <<>>
    PROVE  n = Len(B)
<1> DEFINE k == Len(B) - n
<1>1. k \in Nat /\ Len(B) \in Nat /\ n \in Nat
  OBVIOUS
<1>2. DOMAIN LeftOf(B, n) = 1 .. k
  BY DEF LeftOf
<1>3. DOMAIN LeftOf(B, n) = {}
  OBVIOUS
<1>4. 1 \notin 1 .. k
  BY ONLY <1>2, <1>3
<1>5. k = 0
  <2> HIDE DEF k
  <2> QED BY ONLY <1>1, <1>4
<1> QED BY <1>1, <1>5

\* One more step that leaves the artifact as it was or whole.
LEMMA WholeByOneMore ==
    ASSUME NEW B, NEW n \in Nat, NEW a, WholeBy(B, n + 1, a)
    PROVE  \/ B[n + 1].op \in {"do", "merge"} /\ a \in B[n + 1].on /\ B[n + 1].done = "whole"
           \/ WholeBy(B, n, a) /\ (a \in B[n + 1].on => B[n + 1].done \in {Package!Keep, "whole"})
<1>1. PICK i \in 1 .. n + 1 :
           /\ B[i].op \in {"do", "merge"} /\ a \in B[i].on /\ B[i].done = "whole"
           /\ \A j \in i + 1 .. n + 1 : a \in B[j].on => B[j].done \in {Package!Keep, "whole"}
  BY DEF WholeBy
<1>2. CASE i = n + 1
  BY <1>1, <1>2
<1>3. CASE i # n + 1
  <2>1. i \in 1 .. n /\ n + 1 \in i + 1 .. n + 1 /\ i + 1 .. n \subseteq i + 1 .. n + 1
    BY <1>3
  <2>2. WholeBy(B, n, a)
    BY <1>1, <2>1 DEF WholeBy
  <2> QED BY <1>1, <2>1, <2>2
<1> QED BY <1>2, <1>3

\* What is still waited for, one step later.
LEMMA PendingOneMore ==
    ASSUME NEW B, NEW n \in Nat
    PROVE  /\ B[n + 1].op = "start" => Pending1(B, n + 1)
           /\ Pending1(B, n) /\ B[n + 1].op # "await" => Pending1(B, n + 1)
<1>1. ASSUME B[n + 1].op = "start" PROVE Pending1(B, n + 1)
  <2>1. n + 1 \in 1 .. n + 1 /\ \A j \in (n + 1) + 1 .. n + 1 : FALSE
    OBVIOUS
  <2> QED BY <1>1, <2>1 DEF Pending1
<1>2. ASSUME Pending1(B, n), B[n + 1].op # "await" PROVE Pending1(B, n + 1)
  <2>1. PICK i \in 1 .. n : B[i].op = "start" /\ \A j \in i + 1 .. n : B[j].op # "await"
    BY <1>2 DEF Pending1
  <2>2. i \in 1 .. n + 1 /\ \A j \in i + 1 .. n + 1 : j = n + 1 \/ j \in i + 1 .. n
    OBVIOUS
  <2> QED BY <1>2, <2>1, <2>2 DEF Pending1
<1> QED BY <1>1, <1>2

\* What a call of one does not touch of another, or a goroutine only ends.
LEMMA AnotherCaller ==
    ASSUME NEW d \in Callers, Caller(d), UNCHANGED request,
           pPc'[d] = pPc[d], steps'[d] = steps[d], settled'[d] = settled[d], dest'[d] = dest[d],
           pAnswer'[d] = pAnswer[d], d \in lost => d \in lost', Busy(d)' => Busy(d),
           d \in failed' => d \in failed \/ Busy(d)
    PROVE  Caller(d)'
<1>1. Package!Described(d)' <=> Package!Described(d)
  BY DEF Package!Described, Package!Facts
<1>2. Ready(d) => Ready(d)'
  BY <1>1 DEF Ready
<1>3. ASSUME NEW B, NEW n \in Nat, Reached(B, n, d) PROVE Reached(B, n, d)'
  BY <1>3 DEF Reached
<1>4. (\E n \in Nat : Reached(Package!Build(request[d]), n, d)) =>
      (\E n \in Nat : Reached(Package!Build(request[d]), n, d)')
  BY <1>3
<1>5. Package!Build(request[d])' = Package!Build(request[d])
  OBVIOUS
<1> QED BY <1>2, <1>4, <1>5 DEF Caller

\* The call of one, to the others.
LEMMA CallOfAnother ==
    ASSUME StepsType, NEW c \in Callers, NEW d \in Callers, c # d, Package!Call(c)
    PROVE  /\ UNCHANGED request /\ pPc'[d] = pPc[d] /\ steps'[d] = steps[d] /\ settled'[d] = settled[d]
           /\ dest'[d] = dest[d] /\ pAnswer'[d] = pAnswer[d] /\ (d \in lost => d \in lost')
           /\ Package!Compiling(d)' \subseteq Package!Compiling(d) /\ UNCHANGED failed
<1> USE DEF StepsType, Package!Goto, Package!Answers, Package!Compiling
<1>1. CASE \/ Package!Refused(c) \/ Package!Called(c) \/ Package!Lock(c) \/ Package!apply(c) \/ Package!Info(c)
           \/ Package!NoInfo(c) \/ Package!RemoveAll(c) \/ Package!restore(c) \/ Package!Unlock(c)
           \/ Package!Finished(c)
  BY <1>1 DEF Package!Refused, Package!Called, Package!Lock, Package!apply, Package!Info, Package!NoInfo,
              Package!RemoveAll, Package!restore, Package!Unlock, Package!Finished, Package!locked, Package!compiles
<1>2. CASE Package!MkdirTemp(c)
  BY <1>2 DEF Package!MkdirTemp, Package!compiles
<1>3. ASSUME NEW to, Package!Leads(c, to) PROVE dest'[d] = dest[d]
  BY <1>3 DEF Package!Leads
<1>4. CASE Package!Done(c)
  BY <1>3, <1>4 DEF Package!Done, Package!Rest, Package!compiles
<1>5. CASE Package!Fails(c) \/ Package!MergeFails(c)
  BY <1>3, <1>5 DEF Package!Fails, Package!MergeFails, Package!Leave, Package!compiles
<1>6. CASE Package!Refuses(c)
  BY <1>6 DEF Package!Refuses, Package!Leave, Package!compiles
<1>7. CASE Package!StartCompile(c)
  <2>1. /\ UNCHANGED <<request, pPc, dest, pAnswer, lost, failed>> /\ running' = running
        /\ steps'[d] = steps[d] /\ settled'[d] = settled[d]
    BY <1>7 DEF Package!StartCompile, Package!Rest
  <2>2. started' = started \cup {[of |-> c, what |-> Package!Next1(c).what]}
    BY <1>7 DEF Package!StartCompile
  <2>3. \A p \in started' : p.of = d => p \in started
    BY <2>2
  <2> QED BY <2>1, <2>3
<1>8. CASE Package!Wait(c)
  BY <1>8 DEF Package!Wait, Package!Rest, Package!Leave, Package!compiles
<1> QED BY <1>1, <1>2, <1>4, <1>5, <1>6, <1>7, <1>8 DEF Package!Call

\* The requests stay, and the calls have what they had.
LEMMA StepsTypeKept ==
    ASSUME StepsType, [Package!Next]_(Package!vars)
    PROVE  StepsType'
<1> USE DEF StepsType, Package!Goto, Package!Answers
<1>1. CASE UNCHANGED Package!vars
  BY <1>1 DEF Package!vars, Package!locked, Package!compiles
<1>2. CASE Package!Goroutines
  BY <1>2 DEF Package!Goroutines, Package!Begin, Package!CompileEnds, Package!locked
<1>3. ASSUME NEW c \in Callers, Package!Call(c) PROVE StepsType'
  <2>1. ASSUME NEW to, Package!Leads(c, to)
        PROVE  DOMAIN dest' = Callers /\ \A d \in Callers : DOMAIN dest'[d] = DOMAIN dest[d]
    BY <2>1 DEF Package!Leads
  <2>2. CASE \/ Package!Refused(c) \/ Package!Called(c) \/ Package!Lock(c) \/ Package!apply(c) \/ Package!Info(c)
             \/ Package!NoInfo(c) \/ Package!RemoveAll(c) \/ Package!restore(c) \/ Package!Unlock(c)
             \/ Package!Finished(c) \/ Package!MkdirTemp(c)
    BY <2>2 DEF Package!Refused, Package!Called, Package!Lock, Package!apply, Package!Info, Package!NoInfo,
                Package!RemoveAll, Package!restore, Package!Unlock, Package!Finished, Package!MkdirTemp
  <2>3. CASE Package!Done(c)
    BY <2>1, <2>3 DEF Package!Done, Package!Rest
  <2>4. CASE Package!Fails(c) \/ Package!MergeFails(c)
    BY <2>1, <2>4 DEF Package!Fails, Package!MergeFails, Package!Leave
  <2>5. CASE Package!Refuses(c)
    BY <2>5 DEF Package!Refuses, Package!Leave
  <2>6. CASE Package!StartCompile(c)
    BY <2>6 DEF Package!StartCompile, Package!Rest
  <2>7. CASE Package!Wait(c)
    BY <2>7 DEF Package!Wait, Package!Rest, Package!Leave
  <2> QED BY <1>3, <2>2, <2>3, <2>4, <2>5, <2>6, <2>7 DEF Package!Call
<1> QED BY <1>1, <1>2, <1>3 DEF Package!Next

\* The step a call does next is one of its build.
LEMMA NextOfSteps ==
    ASSUME NEW c \in Callers, NEW T, Package!Build(request[c]) \in Seq(T), NEW n \in Nat,
           Reached(Package!Build(request[c]), n, c), steps[c] # <<>>
    PROVE  /\ Package!Next1(c) = Package!Build(request[c])[n + 1] /\ Package!Next1(c) \in T
           /\ n + 1 \in 0 .. Len(Package!Build(request[c]))
           /\ Tail(steps[c]) = LeftOf(Package!Build(request[c]), n + 1)
<1> DEFINE B == Package!Build(request[c])
<1>1. B \in Seq(T) /\ n \in 0 .. Len(B) /\ steps[c] = LeftOf(B, n)
  BY DEF Reached
<1> HIDE DEF B
<1>2. /\ n + 1 \in 1 .. Len(B) /\ n + 1 \in 0 .. Len(B) /\ LeftOf(B, n)[1] = B[n + 1]
      /\ Tail(LeftOf(B, n)) = LeftOf(B, n + 1)
  BY <1>1, OneMoreStep
<1>3. B[n + 1] \in T
  BY <1>1, <1>2
<1> QED BY <1>1, <1>2, <1>3 DEF Package!Next1, B

\* A step that is done.
LEMMA StepIsDone ==
    ASSUME StepsType, NEW c \in Callers, Caller(c), Package!Done(c) \/ Package!StartCompile(c)
    PROVE  Caller(c)'
<1>1. /\ pPc[c] = "steps" /\ steps[c] # <<>> /\ UNCHANGED <<request, pPc, pAnswer, lost, failed>>
      /\ steps' = [steps EXCEPT ![c] = Tail(steps[c])]
      /\ settled' = [settled EXCEPT ![c] = settled[c] \cup Package!Next1(c).makes]
      /\ Package!Next1(c).op \in {"do", "merge", "start"}
  BY DEF Package!Done, Package!StartCompile, Package!At, Package!Rest, Package!compiles
<1>2. PICK B : B = Package!Build(request[c])
  OBVIOUS
<1>3. Package!validate(request[c]) /\ pAnswer[c] # "nil" /\ request[c] \in Requests
  BY <1>1 DEF Caller, StepsType
<1>4. PICK n \in Nat : Reached(B, n, c)
  BY <1>1, <1>2 DEF Caller
<1>5. StepsAreFine(request[c])
  BY <1>3, StepsOfBuild
<1>6. PICK facts : B \in Seq(StepsOf(Ops, Results, facts))
  BY <1>2, <1>5 DEF StepsAreFine
<1>7. PICK x : x = B[n + 1]
  OBVIOUS
<1>8. /\ Package!Next1(c) = x /\ x \in StepsOf(Ops, Results, facts) /\ n + 1 \in 0 .. Len(B)
      /\ Tail(steps[c]) = LeftOf(B, n + 1)
  BY <1>1, <1>2, <1>4, <1>6, <1>7, NextOfSteps
<1>9. steps'[c] = LeftOf(B, n + 1) /\ settled'[c] = settled[c] \cup x.makes
  BY <1>1, <1>8 DEF StepsType
<1>10. /\ \A i \in 1 .. n : B[i].op # "refuse"
       /\ \A a \in DOMAIN dest[c] : WholeBy(B, n, a) => dest[c][a] = "whole"
       /\ settled[c] \subseteq UNION {B[i].makes : i \in 1 .. n}
       /\ Busy(c) \/ c \in failed => Pending1(B, n)
  BY <1>4 DEF Reached
<1>11. \A i \in 1 .. n + 1 : B[i].op # "refuse"
  BY <1>1, <1>7, <1>8, <1>10
<1>12. settled'[c] \subseteq UNION {B[i].makes : i \in 1 .. n + 1}
  <2>1. x.makes = B[n + 1].makes /\ n + 1 \in 1 .. n + 1 /\ 1 .. n \subseteq 1 .. n + 1
    BY <1>7
  <2> QED BY <1>9, <1>10, <2>1
<1>13. \A a \in DOMAIN dest'[c] : WholeBy(B, n + 1, a) => dest'[c][a] = "whole"
  <2>1. CASE Package!StartCompile(c)
    <3>1. UNCHANGED dest /\ x.op = "start"
      BY <1>8, <2>1 DEF Package!StartCompile, Package!At
    <3> QED BY <1>7, <1>10, <3>1, WholeByOneMore
  <2>2. CASE Package!Done(c)
    <3>1. Package!Leads(c, x.done)
      BY <1>8, <2>2 DEF Package!Done
    <3>2. CASE x.done = Package!Keep
      <4>1. UNCHANGED dest
        BY <3>1, <3>2 DEF Package!Leads
      <4>2. x.done # "whole"
        BY <3>2 DEF Package!Keep
      <4> QED BY <1>7, <1>10, <4>1, <4>2, WholeByOneMore
    <3>3. CASE x.done # Package!Keep
      <4>1. dest'[c] = [a \in DOMAIN dest[c] |-> IF a \in x.on THEN x.done ELSE dest[c][a]]
        BY <1>8, <3>1, <3>3 DEF Package!Leads, StepsType
      <4> QED BY <1>7, <1>10, <3>3, <4>1, WholeByOneMore
    <3> QED BY <3>2, <3>3
  <2> QED BY <2>1, <2>2
<1>14. Busy(c)' \/ c \in failed' => Pending1(B, n + 1)
  <2>1. CASE x.op = "start"
    BY <1>7, <2>1, PendingOneMore
  <2>2. CASE x.op # "start"
    <3>1. Package!Done(c)
      BY <1>8, <2>2 DEF Package!StartCompile, Package!At
    <3>2. UNCHANGED <<started, running>>
      BY <3>1 DEF Package!Done, Package!compiles
    <3>3. Busy(c)' => Busy(c)
      BY <3>2 DEF Busy, Package!Compiling
    <3>4. x.op # "await"
      BY <1>1, <1>8
    <3> QED BY <1>1, <1>7, <1>10, <3>3, <3>4, PendingOneMore
  <2> QED BY <2>1, <2>2
<1>15. Reached(B, n + 1, c)'
  BY <1>8, <1>9, <1>11, <1>12, <1>13, <1>14 DEF Reached
<1>16. Package!Build(request[c])' = B /\ n + 1 \in Nat
  BY <1>1, <1>2
<1>17. pPc'[c] = "steps" /\ pAnswer'[c] # "nil" /\ Package!validate(request[c])'
  BY <1>1, <1>3
<1> QED BY <1>15, <1>16, <1>17 DEF Caller, BeforeSteps

\* A step that fails, or that refuses.
LEMMA StepFails ==
    ASSUME StepsType, NEW c \in Callers, Caller(c),
           Package!Fails(c) \/ Package!MergeFails(c) \/ Package!Refuses(c)
    PROVE  Caller(c)'
<1>1. pPc[c] = "steps" /\ pPc'[c] = "remove" /\ UNCHANGED request
  BY DEF Package!Fails, Package!MergeFails, Package!Refuses, Package!Leave, Package!Goto, StepsType
<1>2. pAnswer'[c] # "nil" \/ c \in lost'
  BY DEF Package!Fails, Package!MergeFails, Package!Refuses, Package!Answers, StepsType
<1> QED BY <1>1, <1>2 DEF Caller, BeforeSteps

\* The compiles are waited for.
LEMMA StepIsWaitedFor ==
    ASSUME StepsType, NEW c \in Callers, Caller(c), Package!Wait(c)
    PROVE  Caller(c)'
<1>1. /\ pPc[c] = "steps" /\ steps[c] # <<>> /\ UNCHANGED <<request, dest, settled, lost, started, running, failed>>
      /\ ~Busy(c) /\ Package!Next1(c).op = "await"
  BY DEF Package!Wait, Package!At, Package!compiles, Busy
<1>2. CASE c \in failed
  <2>1. pPc'[c] = "remove" /\ pAnswer'[c] # "nil"
    BY <1>2 DEF Package!Wait, Package!Leave, Package!Goto, Package!Answers, StepsType
  <2> QED BY <1>1, <2>1 DEF Caller, BeforeSteps
<1>3. CASE c \notin failed
  <2>1. steps' = [steps EXCEPT ![c] = Tail(steps[c])] /\ UNCHANGED <<pPc, pAnswer>>
    BY <1>3 DEF Package!Wait, Package!Rest
  <2>2. PICK B : B = Package!Build(request[c])
    OBVIOUS
  <2>3. Package!validate(request[c]) /\ pAnswer[c] # "nil" /\ request[c] \in Requests
    BY <1>1 DEF Caller, StepsType
  <2>4. PICK n \in Nat : Reached(B, n, c)
    BY <1>1, <2>2 DEF Caller
  <2>5. PICK facts : B \in Seq(StepsOf(Ops, Results, facts))
    BY <2>2, <2>3, StepsOfBuild DEF StepsAreFine
  <2>6. PICK x : x = B[n + 1]
    OBVIOUS
  <2>7. Package!Next1(c) = x /\ n + 1 \in 0 .. Len(B) /\ Tail(steps[c]) = LeftOf(B, n + 1)
    BY <1>1, <2>2, <2>4, <2>5, <2>6, NextOfSteps
  <2>8. steps'[c] = LeftOf(B, n + 1)
    BY <2>1, <2>7 DEF StepsType
  <2>9. /\ \A i \in 1 .. n : B[i].op # "refuse"
        /\ \A a \in DOMAIN dest[c] : WholeBy(B, n, a) => dest[c][a] = "whole"
        /\ settled[c] \subseteq UNION {B[i].makes : i \in 1 .. n}
    BY <2>4 DEF Reached
  <2>10. \A i \in 1 .. n + 1 : B[i].op # "refuse"
    BY <1>1, <2>6, <2>7, <2>9
  <2>11. settled'[c] \subseteq UNION {B[i].makes : i \in 1 .. n + 1}
    <3>1. 1 .. n \subseteq 1 .. n + 1
      OBVIOUS
    <3> QED BY <1>1, <2>9, <3>1
  <2>12. \A a \in DOMAIN dest'[c] : WholeBy(B, n + 1, a) => dest'[c][a] = "whole"
    BY <1>1, <2>6, <2>7, <2>9, WholeByOneMore
  <2>13. ~(Busy(c)' \/ c \in failed')
    BY <1>1, <1>3 DEF Busy, Package!Compiling
  <2>14. Reached(B, n + 1, c)'
    BY <2>7, <2>8, <2>10, <2>11, <2>12, <2>13 DEF Reached
  <2>15. Package!Build(request[c])' = B /\ n + 1 \in Nat
    BY <1>1, <2>2
  <2> QED BY <1>1, <2>1, <2>3, <2>14, <2>15 DEF Caller, BeforeSteps
<1> QED BY <1>2, <1>3

\* All the steps are done: what is there is whole, and nothing compiles.
LEMMA StepsAreDone ==
    ASSUME StepsType, NEW c \in Callers, Caller(c), Package!Finished(c)
    PROVE  Caller(c)'
<1>1. /\ pPc[c] = "steps" /\ steps[c] = <<>> /\ pPc'[c] = "remove"
      /\ UNCHANGED <<request, settled, dest, lost, started, running, failed>>
  BY DEF Package!Finished, Package!Goto, Package!compiles, StepsType
<1>2. PICK r : r = request[c]
  OBVIOUS
<1>3. PICK B : B = Package!Build(r)
  OBVIOUS
<1>4. Package!validate(r) /\ r \in Requests
  BY <1>1, <1>2 DEF Caller, StepsType
<1>5. PICK n \in Nat : Reached(B, n, c)
  BY <1>1, <1>2, <1>3 DEF Caller
<1>6. StepsAreFine(r)
  BY <1>4, StepsOfBuild
<1>7. PICK facts : B \in Seq(StepsOf(Ops, Results, facts)) /\ Consistent(r, facts)
  BY <1>3, <1>6 DEF StepsAreFine
<1>8. n = Len(B)
  BY <1>1, <1>5, <1>7, NoMoreSteps DEF Reached
<1>9. /\ \A i \in 1 .. n : B[i].op # "refuse"
      /\ \A a \in DOMAIN dest[c] : WholeBy(B, n, a) => dest[c][a] = "whole"
      /\ settled[c] \subseteq UNION {B[i].makes : i \in 1 .. n}
      /\ Busy(c) \/ c \in failed => Pending1(B, n)
  BY <1>5 DEF Reached
<1>10. \A a \in DOMAIN dest[c] : dest[c][a] = "whole"
  <2>1. \A a \in Package!Artifacts(r) : LeftWhole(B, a)
    BY <1>3, <1>6, <1>8, <1>9 DEF StepsAreFine
  <2>2. \A a \in Package!Artifacts(r) : WholeBy(B, n, a)
    BY <1>8, <2>1 DEF LeftWhole, WholeBy
  <2>3. DOMAIN dest[c] = Package!Artifacts(r)
    BY <1>2 DEF StepsType
  <2> QED BY <1>9, <2>2, <2>3
<1>11. ~Busy(c) /\ c \notin failed
  <2>1. Awaited(B)
    BY <1>3, <1>6 DEF StepsAreFine
  <2> QED BY <1>8, <1>9, <2>1 DEF Awaited, Pending1
<1>12. settled[c] \subseteq facts
  <2>1. \A i \in 1 .. n : B[i] \in StepsOf(Ops, Results, facts)
    BY <1>7, <1>8
  <2>2. \A i \in 1 .. n : B[i].makes \subseteq facts
    BY <2>1 DEF StepsOf
  <2> QED BY <1>9, <2>2
<1>13. Package!Described(c)
  BY <1>2, <1>7, <1>12 DEF Package!Described, Package!Facts, Consistent
<1>14. Ready(c)'
  <2>1. Package!Described(c)' <=> Package!Described(c)
    BY <1>1 DEF Package!Described, Package!Facts
  <2>2. Busy(c)' <=> Busy(c)
    BY <1>1 DEF Busy, Package!Compiling
  <2> QED BY <1>1, <1>10, <1>11, <1>13, <2>1, <2>2 DEF Ready
<1> QED BY <1>1, <1>2, <1>4, <1>14 DEF Caller, BeforeSteps

\* The work directory is made and the steps begin.
LEMMA StepsBegin ==
    ASSUME StepsType, NEW c \in Callers, Caller(c), Package!MkdirTemp(c)
    PROVE  Caller(c)'
<1>1. /\ pPc[c] = "temp" /\ pPc'[c] = "steps" /\ steps'[c] = Package!Build(request[c])
      /\ UNCHANGED <<request, settled, dest, lost, started, running, failed, pAnswer>>
  BY DEF Package!MkdirTemp, Package!Goto, Package!compiles, StepsType
<1>2. PICK B : B = Package!Build(request[c])
  OBVIOUS
<1>3. ~Busy(c) /\ c \notin failed /\ settled[c] = {} /\ pAnswer[c] # "nil" /\ Package!validate(request[c])
  BY <1>1 DEF Caller, BeforeSteps
<1>4. PICK facts : B \in Seq(StepsOf(Ops, Results, facts))
  BY <1>2, <1>3, StepsOfBuild DEF StepsAreFine, StepsType
<1>5. 0 \in 0 .. Len(B) /\ B = LeftOf(B, 0)
  <2>1. Len(B) \in Nat /\ B = [i \in 1 .. Len(B) |-> B[i]]
    BY <1>4
  <2>2. \A i \in 1 .. Len(B) : 0 + i = i
    BY <2>1
  <2> QED BY <2>1, <2>2 DEF LeftOf
<1>6. ~Busy(c)' /\ c \notin failed'
  BY <1>1, <1>3 DEF Busy, Package!Compiling
<1>7. \A a : ~WholeBy(B, 0, a)
  BY DEF WholeBy
<1>8. Reached(B, 0, c)'
  BY <1>1, <1>2, <1>3, <1>5, <1>6, <1>7 DEF Reached
<1>9. Package!Build(request[c])' = B
  BY <1>1, <1>2
<1> QED BY <1>1, <1>3, <1>8, <1>9 DEF Caller, BeforeSteps

\* A call of one caller keeps it, for all.
LEMMA StepsCall ==
    ASSUME StepsType, NEW c \in Callers, Caller(c), Package!Call(c)
    PROVE  Caller(c)'
<1>1. CASE Package!Called(c) \/ Package!Lock(c) \/ Package!apply(c) \/ Package!Info(c)
  <2>1. /\ UNCHANGED <<request, steps, settled, dest, lost, started, running, failed, pAnswer>>
        /\ pPc[c] \in BeforeSteps /\ pPc'[c] \in BeforeSteps
        /\ pPc[c] = "called" => Package!validate(request[c])
    BY <1>1 DEF Package!Called, Package!Lock, Package!apply, Package!Info, Package!Goto, Package!compiles,
                Package!locked, StepsType, BeforeSteps
  <2>2. Busy(c)' <=> Busy(c)
    BY <2>1 DEF Busy, Package!Compiling
  <2> QED BY <2>1, <2>2 DEF Caller, BeforeSteps
<1>2. CASE Package!Refused(c)
  <2>1. pPc'[c] = "returned" /\ pAnswer'[c] = "error"
    BY <1>2 DEF Package!Refused, Package!Goto, Package!Answers, StepsType
  <2> QED BY <2>1 DEF Caller, BeforeSteps
<1>3. CASE Package!NoInfo(c)
  <2>1. pPc[c] \in {"info", "temp"} /\ pPc'[c] = "restore" /\ pAnswer'[c] = "error" /\ UNCHANGED request
    BY <1>3 DEF Package!NoInfo, Package!Goto, Package!Answers, StepsType
  <2> QED BY <2>1 DEF Caller, BeforeSteps
<1>4. CASE Package!RemoveAll(c) \/ Package!restore(c) \/ Package!Unlock(c)
  <2>1. /\ UNCHANGED <<request, steps, settled, dest, lost, started, running, failed, pAnswer>>
        /\ pPc[c] \in {"remove", "restore", "unlock"} /\ pPc'[c] \in {"restore", "unlock", "returned"}
    BY <1>4 DEF Package!RemoveAll, Package!restore, Package!Unlock, Package!Goto, Package!compiles, StepsType
  <2>2. Ready(c) => Ready(c)'
    <3>1. Package!Described(c)' <=> Package!Described(c)
      BY <2>1 DEF Package!Described, Package!Facts
    <3>2. Busy(c)' <=> Busy(c)
      BY <2>1 DEF Busy, Package!Compiling
    <3> QED BY <2>1, <3>1, <3>2 DEF Ready
  <2> QED BY <2>1, <2>2 DEF Caller, BeforeSteps
<1> QED BY <1>1, <1>2, <1>3, <1>4, StepsBegin, StepIsDone, StepFails, StepIsWaitedFor, StepsAreDone
        DEF Package!Call

\* A compile begins or ends, of one that waits or will wait for it.
LEMMA StepsGoroutine ==
    ASSUME Package!Goroutines, NEW d \in Callers, Caller(d)
    PROVE  Caller(d)'
<1>1. UNCHANGED <<request, pPc, steps, settled, dest, pAnswer, lost>>
  BY DEF Package!Goroutines, Package!Begin, Package!CompileEnds
<1>2. Package!Compiling(d)' \subseteq Package!Compiling(d)
  BY DEF Package!Goroutines, Package!Begin, Package!CompileEnds, Package!Compiling
<1>3. d \in failed' => d \in failed \/ Busy(d)
  BY DEF Package!Goroutines, Package!Begin, Package!CompileEnds, Package!Compiling, Busy
<1>4. Busy(d)' => Busy(d)
  BY <1>2 DEF Busy
<1> QED BY <1>1, <1>3, <1>4, AnotherCaller

\* Nobody has begun.
LEMMA StepsStart == Package!Init => StepsInv
<1> SUFFICES ASSUME Package!Init PROVE StepsInv
  OBVIOUS
<1>1. StepsType
  BY DEF Package!Init, StepsType
<1>2. \A c \in Callers : Package!Compiling(c) = {}
  BY DEF Package!Init, Package!Compiling
<1>3. \A c \in Callers : Caller(c)
  BY <1>2 DEF Package!Init, Caller, BeforeSteps, Busy
<1> QED BY <1>1, <1>3 DEF StepsInv

\* A call, or a goroutine.
LEMMA StepsStep ==
    ASSUME StepsInv, [Package!Next]_(Package!vars)
    PROVE  StepsInv'
<1>0. StepsType /\ StepsType' /\ \A d \in Callers : Caller(d)
  BY StepsTypeKept DEF StepsInv
<1>1. CASE UNCHANGED Package!vars
  <2>1. UNCHANGED <<request, pPc, steps, settled, dest, pAnswer, lost, started, running, failed>>
    BY <1>1 DEF Package!vars, Package!compiles
  <2>2. \A d \in Callers : Busy(d)' <=> Busy(d)
    BY <2>1 DEF Busy, Package!Compiling
  <2>3. \A d \in Callers : Caller(d)'
    BY <1>0, <2>1, <2>2, AnotherCaller
  <2> QED BY <1>0, <2>3 DEF StepsInv
<1>2. CASE Package!Goroutines
  BY <1>0, <1>2, StepsGoroutine DEF StepsInv
<1>3. ASSUME NEW c \in Callers, Package!Call(c) PROVE StepsInv'
  <2>1. Caller(c)'
    BY <1>0, <1>3, StepsCall
  <2>2. ASSUME NEW d \in Callers, c # d PROVE Caller(d)'
    <3>1. /\ UNCHANGED request /\ pPc'[d] = pPc[d] /\ steps'[d] = steps[d] /\ settled'[d] = settled[d]
          /\ dest'[d] = dest[d] /\ pAnswer'[d] = pAnswer[d] /\ (d \in lost => d \in lost')
          /\ Package!Compiling(d)' \subseteq Package!Compiling(d) /\ UNCHANGED failed
      BY <1>0, <1>3, <2>2, CallOfAnother
    <3>2. Busy(d)' => Busy(d)
      BY <3>1 DEF Busy
    <3> QED BY <1>0, <3>1, <3>2, AnotherCaller
  <2> QED BY <1>0, <2>1, <2>2 DEF StepsInv
<1> QED BY <1>1, <1>2, <1>3 DEF Package!Next

\* Who answered nil has done every step.
LEMMA StepsSafe == StepsInv => Package!ReportedIsDelivered
BY DEF StepsInv, Caller, Ready, Busy, BeforeSteps, Package!ReportedIsDelivered

-----------------------------------------------------------------------------
(* The compiles a failed call left behind.                                 *)

StraysInv ==
    /\ \A p \in started \cup running : p.of \in Callers
    /\ \A c \in Callers : pPc[c] \in {"remove", "restore", "unlock", "returned"} => pAnswer[c] \in {"nil", "error"}
    /\ \A c \in strayed : /\ c \in Callers /\ pPc[c] \in {"unlock", "returned"}
                          /\ pAnswer[c] = "error" \/ c \in lost

\* No compile has begun.
LEMMA StraysStart == Package!Init => StraysInv
BY DEF Package!Init, StraysInv

\* A call answers before it leaves, and its answer stays.
LEMMA StraysCall ==
    ASSUME StepsType, StraysInv, NEW c \in Callers, Package!Call(c)
    PROVE  StraysInv'
<1> USE DEF StepsType, StraysInv, Package!Goto, Package!Answers
<1>1. CASE Package!Called(c) \/ Package!Lock(c) \/ Package!apply(c) \/ Package!Info(c) \/ Package!MkdirTemp(c)
  BY <1>1 DEF Package!Called, Package!Lock, Package!apply, Package!Info, Package!MkdirTemp, Package!locked, Package!compiles
<1>2. CASE Package!Refused(c) \/ Package!NoInfo(c) \/ Package!Finished(c)
  BY <1>2 DEF Package!Refused, Package!NoInfo, Package!Finished, Package!locked, Package!compiles
<1>3. CASE Package!RemoveAll(c) \/ Package!restore(c) \/ Package!Unlock(c)
  BY <1>3 DEF Package!RemoveAll, Package!restore, Package!Unlock, Package!compiles
<1>4. CASE Package!Done(c)
  BY <1>4 DEF Package!Done, Package!Rest, Package!compiles
<1>5. CASE Package!Fails(c) \/ Package!MergeFails(c) \/ Package!Refuses(c)
  BY <1>5 DEF Package!Fails, Package!MergeFails, Package!Refuses, Package!Leave, Package!compiles
<1>6. CASE Package!StartCompile(c)
  <2>1. started' = started \cup {[of |-> c, what |-> Package!Next1(c).what]}
    BY <1>6 DEF Package!StartCompile
  <2>2. UNCHANGED <<pPc, running, strayed, pAnswer, lost>>
    BY <1>6 DEF Package!StartCompile, Package!Rest
  <2>3. \A p \in started' \cup running' : p.of \in Callers
    BY <2>1, <2>2
  <2> QED BY <2>2, <2>3
<1>7. CASE Package!Wait(c)
  BY <1>7 DEF Package!Wait, Package!Rest, Package!Leave, Package!compiles
<1> QED BY <1>1, <1>2, <1>3, <1>4, <1>5, <1>6, <1>7 DEF Package!Call

\* A compile that begins under other settings is of a call that left, and it left
\* with an error: who answers nil has waited.
LEMMA StraysBegin ==
    ASSUME PackageInv, StepsInv, StraysInv, NEW p \in started, Package!Begin(p)
    PROVE  StraysInv'
<1>1. /\ UNCHANGED <<pPc, pAnswer, lost>> /\ started' \cup running' = started \cup running
      /\ strayed' = IF settings = {p.of} THEN strayed ELSE strayed \cup {p.of}
  BY DEF Package!Begin
<1>2. PICK c \in Callers : c = p.of
  BY DEF StraysInv
<1>3. ASSUME settings # {c} PROVE pPc[c] \in {"unlock", "returned"} /\ (pAnswer[c] = "error" \/ c \in lost)
  <2>1. p \in Package!Compiling(c)
    BY <1>2 DEF Package!Compiling
  <2>2. Busy(c) /\ Caller(c)
    BY <2>1 DEF Busy, StepsInv
  <2>3. pPc[c] \notin BeforeSteps /\ ~Package!InBuild(c)
    BY <1>3, <2>2 DEF Caller, PackageInv, PackageHolds
  <2>4. pPc[c] \in {"unlock", "returned"}
    BY <2>3 DEF BeforeSteps, Package!InBuild, PackageInv, PackageType, Locked
  <2>5. pAnswer[c] = "nil" => c \in lost
    BY <2>2, <2>4 DEF Caller, BeforeSteps, Ready
  <2> QED BY <2>4, <2>5 DEF StraysInv
<1> QED BY <1>1, <1>2, <1>3 DEF StraysInv

\* A call, or a goroutine.
LEMMA StraysStep ==
    ASSUME PackageInv, StepsInv, StraysInv, [Package!Next]_(Package!vars)
    PROVE  StraysInv'
<1>1. CASE UNCHANGED Package!vars
  BY <1>1 DEF Package!vars, Package!compiles, StraysInv
<1>2. ASSUME NEW p \in started \cup running, Package!Begin(p) \/ Package!CompileEnds(p) PROVE StraysInv'
  <2>1. CASE Package!Begin(p)
    BY <2>1, StraysBegin DEF Package!Begin
  <2>2. CASE Package!CompileEnds(p)
    BY <2>2 DEF Package!CompileEnds, StraysInv
  <2> QED BY <1>2, <2>1, <2>2
<1>3. StepsType
  BY DEF StepsInv
<1> QED BY <1>1, <1>2, <1>3, StraysCall DEF Package!Next, Package!Goroutines

\* Who builds does so under its settings, and leaves those there were.
LEMMA PackageSafe == PackageInv /\ StraysInv => Package!SettingsAreItsOwn
<1> SUFFICES ASSUME PackageInv, StraysInv PROVE Package!SettingsAreItsOwn
  OBVIOUS
<1>1. \A c \in Callers : Package!InBuild(c) => settings = {c}
  BY DEF PackageInv, PackageHolds
<1>3. \A c \in strayed : ~Package!InBuild(c) /\ (pAnswer[c] = "error" \/ c \in lost)
  BY DEF StraysInv, Package!InBuild
<1>2. ASSUME \A c \in Callers : pPc[c] \in {"called", "waiting", "returned"}
      PROVE  settings = Package!Nobody /\ work = {}
  <2>1. building = {} \/ \E c : c \in building
    OBVIOUS
  <2> QED BY <1>2, <2>1 DEF Package!Nobody, PackageInv, PackageHolds, PackageQuiet, Locked
<1> QED BY <1>1, <1>2, <1>3 DEF Package!SettingsAreItsOwn

=============================================================================
