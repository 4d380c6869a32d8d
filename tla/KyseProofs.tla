----------------------------- MODULE KyseProofs -----------------------------
(***************************************************************************)
(* Of the parser of views, for a view of any length that is made of the    *)
(* lines that open and close blocks: when its blocks close in order it is  *)
(* accepted, and one closer left out or miswritten is one error.           *)
(*                                                                         *)
(* The parser's stack and its count of errors are made of the lines, one   *)
(* after another (ParsedBy).  While there is no error the stack is the blocks *)
(* the depths say are open (Sound).  Of a view and the one that was meant  *)
(* the stacks differ by one block, or by one error (Behind).               *)
(***************************************************************************)
EXTENDS MCKyse, Integers, WellFoundedInduction, SequenceTheorems, FiniteSetTheorems, TLAPS

(***************************************************************************)
(* Induction over the numbers, as a fact about sets, and what is made by a *)
(* recursive function.                                                     *)
(***************************************************************************)
LEMMA LeastNumber ==
    ASSUME NEW T, T \subseteq Nat, T # {}
    PROVE  \E x \in T : \A y \in T : x <= y
<1> DEFINE R == {p \in Nat \X Nat : p[1] < p[2]}
<1>1. IsWellFoundedOn(R, Nat)
  <2>1. IsWellFoundedOn(OpToRel(<, Nat), Nat)
    BY NatLessThanWellFounded
  <2>2. R = OpToRel(<, Nat)
    BY DEF OpToRel
  <2> QED BY <2>1, <2>2
<1>2. PICK x \in T : \A y \in T : ~(<<y, x>> \in R)
  <2> HIDE DEF R
  <2> QED BY <1>1, WFMin
<1>3. ASSUME NEW y \in T, y < x PROVE FALSE
  <2>1. <<y, x>> \in R
    BY <1>3
  <2> QED BY <1>2, <2>1
<1>4. \A y \in T : x <= y
  BY <1>3
<1> QED BY <1>4

\* Induction: of a set that has zero and, with each number, the next.
LEMMA Induction ==
    ASSUME NEW S, 0 \in S, \A n \in Nat : n \in S => n + 1 \in S
    PROVE  Nat \subseteq S
<1> DEFINE T == Nat \ S
<1> SUFFICES ASSUME T # {} PROVE FALSE
  OBVIOUS
<1>1. PICK x \in T : \A y \in T : x <= y
  BY LeastNumber
<1>2. x \in Nat /\ x # 0 /\ x - 1 \in Nat /\ (x - 1) + 1 = x /\ ~(x <= x - 1)
  BY <1>1
<1>3. x - 1 \in S
  BY <1>1, <1>2
<1> QED BY <1>1, <1>2, <1>3

\* The same, up to a number.
LEMMA InductionUpTo ==
    ASSUME NEW N \in Nat, NEW S, 0 \in S, \A n \in 0 .. N - 1 : n \in S => n + 1 \in S
    PROVE  0 .. N \subseteq S
<1> DEFINE T == {n \in Nat : n <= N => n \in S}
<1>1. 0 \in T
  OBVIOUS
<1>2. \A n \in Nat : n \in T => n + 1 \in T
  OBVIOUS
<1>3. Nat \subseteq T
  <2> HIDE DEF T
  <2> QED BY <1>1, <1>2, Induction
<1> QED BY <1>3

(***************************************************************************)
(* A value made step by step: there is one, when every step is taken in a  *)
(* set that it stays in.                                                   *)
(***************************************************************************)
Makes(f, N, e, step) == f[0] = e /\ \A k \in 1 .. N : f[k] = step[<<f[k - 1], k>>]

\* What is made step by step exists, up to any number.
LEMMA Recursion ==
    ASSUME NEW N \in Nat, NEW X, NEW e \in X, NEW step \in [X \X (1 .. N) -> X]
    PROVE  \E f \in [0 .. N -> X] : Makes(f, N, e, step)
<1> DEFINE Made(f, n) == f[0] = e /\ \A k \in 1 .. n : f[k] = step[<<f[k - 1], k>>]
           Held == {n \in 0 .. N : \E f \in [0 .. n -> X] : Made(f, n)}
<1>1. 0 \in Held
  <2> DEFINE f == [k \in 0 .. 0 |-> e]
  <2>1. f \in [0 .. 0 -> X] /\ Made(f, 0)
    OBVIOUS
  <2> HIDE DEF Made
  <2> QED BY <2>1
<1>2. ASSUME NEW n \in 0 .. N - 1, n \in Held PROVE n + 1 \in Held
  <2>1. PICK f \in [0 .. n -> X] : Made(f, n)
    BY <1>2
  <2>2. n + 1 \in 0 .. N /\ n + 1 \in 1 .. N /\ n \in 0 .. n /\ n \in Nat
    OBVIOUS
  <2> DEFINE g == [k \in 0 .. n + 1 |-> IF k <= n THEN f[k] ELSE step[<<f[n], n + 1>>]]
  <2>3. step[<<f[n], n + 1>>] \in X
    BY <2>2
  <2>4. g \in [0 .. n + 1 -> X]
    BY <2>3
  <2>5. g[0] = e
    BY <2>1, <2>2
  <2>6. ASSUME NEW k \in 1 .. n + 1 PROVE g[k] = step[<<g[k - 1], k>>]
    <3>1. k - 1 \in 0 .. n /\ k - 1 <= n /\ k - 1 \in 0 .. n + 1
      BY <2>2
    <3>2. g[k - 1] = f[k - 1]
      BY <3>1
    <3>3. CASE k <= n
      <4>1. k \in 1 .. n /\ g[k] = f[k]
        BY <3>3
      <4> HIDE DEF g
      <4> QED BY <2>1, <3>2, <4>1
    <3>4. CASE ~(k <= n)
      <4>1. k = n + 1 /\ k - 1 = n
        BY <2>2, <3>4
      <4>2. g[k] = step[<<f[n], n + 1>>]
        BY <3>4
      <4> HIDE DEF g
      <4> QED BY <3>2, <4>1, <4>2
    <3> QED BY <3>3, <3>4
  <2> HIDE DEF g
  <2>7. Made(g, n + 1)
    BY <2>5, <2>6
  <2> HIDE DEF Made
  <2> QED BY <2>2, <2>4, <2>7
<1>3. N \in Held
  <2> HIDE DEF Held
  <2>1. 0 .. N \subseteq Held
    BY <1>1, <1>2, InductionUpTo
  <2> QED BY <2>1
<1> QED BY <1>3 DEF Makes


\* What goes the same steps from the same start is the same.
LEMMA SameSteps ==
    ASSUME NEW N \in Nat, NEW f, NEW g, f[0] = g[0],
           \A k \in 1 .. N : f[k - 1] = g[k - 1] => f[k] = g[k]
    PROVE  \A k \in 0 .. N : f[k] = g[k]
<1> DEFINE T == {k \in 0 .. N : f[k] = g[k]}
<1>1. 0 \in T
  OBVIOUS
<1>2. ASSUME NEW n \in 0 .. N - 1, n \in T PROVE n + 1 \in T
  <2>1. n + 1 \in 1 .. N /\ (n + 1) - 1 = n /\ n + 1 \in 0 .. N
    OBVIOUS
  <2>2. f[n] = g[n]
    BY <1>2
  <2> QED BY <2>1, <2>2
<1>3. 0 .. N \subseteq T
  <2> HIDE DEF T
  <2> QED BY <1>1, <1>2, InductionUpTo
<1> QED BY <1>3

(***************************************************************************)
(* The lines that open and close blocks, and how deep each stands.          *)
(***************************************************************************)
Names0 == Blocks \ {"go"}
Opening(l) == l.is = "directive" /\ l.name \in Names0
Closing(l) == l.is = "closer" /\ l.name \in Closers
Brackets == {Does(b) : b \in Names0} \cup {Ends(CloserOf[b]) : b \in Names0}

\* What the lines are.
LEMMA Lines ==
    /\ \A b \in Names0 : /\ Does(b).is = "directive" /\ Does(b).name = b /\ Does(b).form = "whole"
    /\ \A c \in Closers : Ends(c).is = "closer" /\ Ends(c).name = c /\ ~ Ends(c).rest
BY DEF Does, Ends, Line

LEMMA ClosersDiffer == \A b, c \in Names0 : CloserOf[b] = CloserOf[c] => b = c
BY DEF Names0, Blocks, CloserOf

\* Each line opens one block or closes one.
LEMMA EachIsOne ==
    ASSUME NEW l \in Brackets
    PROVE  /\ Opening(l) \/ Closing(l)
           /\ Opening(l) => IsOpener(l) /\ Step(l) = 1 /\ l.is # "closer"
           /\ Closing(l) => ~ IsOpener(l) /\ Step(l) = 0 - 1 /\ l.is = "closer"
<1>1. Opening(l) \/ Closing(l)
  BY Lines DEF Brackets, Opening, Closing, Closers, Names0
<1> QED BY <1>1 DEF Opening, Closing, IsOpener, Step, Names0

(***************************************************************************)
(* What the parser makes of such lines: the blocks that are open, and how  *)
(* many errors there are.                                                  *)
(***************************************************************************)
Waiting(stack, c) == {i \in DOMAIN stack : CloserOf[stack[i]] = c}
Innermost(stack, c) ==
    IF Waiting(stack, c) = {} THEN 0 ELSE CHOOSE i \in Waiting(stack, c) : \A j \in Waiting(stack, c) : j <= i

Parses == [stack : Seq(Names0), errors : Nat]
Untouched == [stack |-> <<>>, errors |-> 0]

Takes(s, l) ==
    LET n == Len(s.stack)
        k == Innermost(s.stack, l.name)
    IN IF Opening(l) THEN [stack |-> Append(s.stack, l.name), errors |-> s.errors]
       ELSE IF n = 0 THEN [stack |-> s.stack, errors |-> s.errors + 1]
       ELSE IF k = 0 THEN [stack |-> SubSeq(s.stack, 1, n - 1), errors |-> s.errors + 1]
       ELSE [stack |-> SubSeq(s.stack, 1, k - 1), errors |-> s.errors + (n - k)]

ParsedBy(ls, f) == f[0] = Untouched /\ \A k \in 1 .. Len(ls) : f[k] = Takes(f[k - 1], ls[k])

\* The innermost block a closer is of, if there is one.
LEMMA InnermostIs ==
    ASSUME NEW stack \in Seq(Names0), NEW c, NEW k, k = Innermost(stack, c)
    PROVE  /\ k \in 0 .. Len(stack)
           /\ k = 0 => \A i \in 1 .. Len(stack) : CloserOf[stack[i]] # c
           /\ k # 0 => CloserOf[stack[k]] = c /\ \A i \in 1 .. Len(stack) : CloserOf[stack[i]] = c => i <= k
<1> DEFINE W == Waiting(stack, c)
<1>1. W \subseteq 1 .. Len(stack) /\ Len(stack) \in Nat /\ \A i \in 1 .. Len(stack) : i \in W <=> CloserOf[stack[i]] = c
  BY DEF Waiting
<1>2. CASE W = {}
  BY <1>1, <1>2 DEF Innermost
<1>3. CASE W # {}
  <2> DEFINE T == {Len(stack) - i : i \in W}
  <2>1. T \subseteq Nat /\ T # {}
    BY <1>1, <1>3
  <2>2. PICK t \in T : \A y \in T : t <= y
    <3> HIDE DEF T
    <3> QED BY <2>1, LeastNumber
  <2>3. PICK i \in W : t = Len(stack) - i
    BY <2>2
  <2>4. ASSUME NEW j \in W PROVE j <= i
    <3>1. Len(stack) - j \in T
      OBVIOUS
    <3>2. t <= Len(stack) - j
      <4> HIDE DEF T
      <4> QED BY <2>2, <3>1
    <3> QED BY <1>1, <2>3, <3>2
  <2>5. k \in W /\ \A j \in W : j <= k
    <3> HIDE DEF W
    <3>1. k = CHOOSE x \in W : \A j \in W : j <= x
      BY <1>3 DEF Innermost, W
    <3> QED BY <2>4, <3>1
  <2> QED BY <1>1, <2>5
<1> QED BY <1>2, <1>3

\* One line more, as the cases of it are used below.
LEMMA OpeningTakes ==
    ASSUME NEW s \in Parses, NEW l \in Brackets, Opening(l), NEW then, then = Takes(s, l)
    PROVE  /\ then \in Parses /\ then.errors = s.errors /\ then.stack = Append(s.stack, l.name)
           /\ Len(then.stack) = Len(s.stack) + 1 /\ then.stack[Len(s.stack) + 1] = l.name
           /\ \A i \in 1 .. Len(s.stack) : then.stack[i] = s.stack[i]
<1>1. l.name \in Names0 /\ s.stack \in Seq(Names0)
  BY DEF Opening, Parses
<1>2. then = [stack |-> Append(s.stack, l.name), errors |-> s.errors]
  BY DEF Takes
<1> QED BY <1>1, <1>2, AppendProperties DEF Parses

LEMMA ClosingTakes ==
    ASSUME NEW s \in Parses, NEW l \in Brackets, Closing(l), NEW then, then = Takes(s, l),
           NEW n, n = Len(s.stack), NEW k, k = Innermost(s.stack, l.name)
    PROVE  /\ then \in Parses /\ n \in Nat /\ k \in 0 .. n
           /\ n = 0 => then.errors = s.errors + 1 /\ then.stack = s.stack
           /\ n # 0 /\ k = 0 => then.errors = s.errors + 1 /\ Len(then.stack) = n - 1
           /\ n # 0 /\ k # 0 => then.errors = s.errors + (n - k) /\ Len(then.stack) = k - 1
           /\ \A i \in 1 .. Len(then.stack) : i \in 1 .. n /\ then.stack[i] = s.stack[i]
<1>1. s.stack \in Seq(Names0) /\ n \in Nat /\ k \in 0 .. n /\ s.errors \in Nat
  BY InnermostIs DEF Parses
<1>2. ~ Opening(l)
  BY EachIsOne
<1>3. ASSUME NEW m \in 0 .. n - 1 PROVE /\ SubSeq(s.stack, 1, m) \in Seq(Names0) /\ Len(SubSeq(s.stack, 1, m)) = m
                                        /\ \A i \in 1 .. m : SubSeq(s.stack, 1, m)[i] = s.stack[i]
  BY <1>1, <1>3
<1>4. CASE n = 0
  <2>1. then = [stack |-> s.stack, errors |-> s.errors + 1]
    BY <1>2, <1>4 DEF Takes
  <2>2. then.stack = s.stack /\ then.errors = s.errors + 1 /\ Len(s.stack) = 0
    BY <1>4, <2>1
  <2>3. then \in Parses
    BY <1>1, <2>1 DEF Parses
  <2> QED BY <1>1, <1>4, <2>2, <2>3
<1>5. CASE n # 0 /\ k = 0
  <2>1. then = [stack |-> SubSeq(s.stack, 1, n - 1), errors |-> s.errors + 1]
    BY <1>2, <1>5 DEF Takes
  <2>2. n - 1 \in 0 .. n - 1
    BY <1>1, <1>5
  <2>3. PICK m \in 0 .. n - 1 : m = n - 1
    BY <2>2
  <2>4. then.stack = SubSeq(s.stack, 1, m) /\ then.errors = s.errors + 1
    BY <2>1, <2>3
  <2>5. then.stack \in Seq(Names0) /\ Len(then.stack) = m /\ \A i \in 1 .. m : then.stack[i] = s.stack[i]
    BY <1>3, <2>4
  <2>6. then \in Parses
    BY <1>1, <2>1, <2>4, <2>5 DEF Parses
  <2> QED BY <1>1, <1>5, <2>3, <2>4, <2>5, <2>6
<1>6. CASE n # 0 /\ k # 0
  <2>1. then = [stack |-> SubSeq(s.stack, 1, k - 1), errors |-> s.errors + (n - k)]
    BY <1>2, <1>6 DEF Takes
  <2>2. k - 1 \in 0 .. n - 1 /\ n - k \in Nat
    BY <1>1, <1>6
  <2> QED BY <1>1, <1>3, <1>6, <2>1, <2>2, SMTT(30) DEF Parses
<1> QED BY <1>1, <1>4, <1>5, <1>6

LEMMA TakesIs ==
    ASSUME NEW s \in Parses, NEW l \in Brackets
    PROVE  Takes(s, l) \in Parses
BY EachIsOne, OpeningTakes, ClosingTakes

\* Any such lines are read so, and each reading stays among the parses.
LEMMA ReadingSo ==
    ASSUME NEW ls \in Seq(Brackets)
    PROVE  \E f \in [0 .. Len(ls) -> Parses] : ParsedBy(ls, f)
<1> DEFINE n == Len(ls)
           step == [p \in Parses \X (1 .. n) |-> Takes(p[1], ls[p[2]])]
<1>1. n \in Nat /\ \A i \in 1 .. n : ls[i] \in Brackets
  OBVIOUS
<1>2. Untouched \in Parses
  BY DEF Untouched, Parses
<1> HIDE DEF n
<1>3. step \in [Parses \X (1 .. n) -> Parses]
  BY <1>1, TakesIs
<1>4. PICK H \in [0 .. n -> Parses] : Makes(H, n, Untouched, step)
  <2> HIDE DEF step
  <2> QED BY <1>1, <1>2, <1>3, Recursion
<1>5. ASSUME NEW k \in 1 .. n PROVE H[k] = Takes(H[k - 1], ls[k])
  <2>1. <<H[k - 1], k>> \in Parses \X (1 .. n)
    <3>1. k - 1 \in 0 .. n
      BY <1>1
    <3> QED BY <1>4, <3>1
  <2>2. step[<<H[k - 1], k>>] = Takes(H[k - 1], ls[k])
    BY <2>1
  <2> HIDE DEF step
  <2> QED BY <1>4, <2>2 DEF Makes
<1>6. ParsedBy(ls, H)
  BY <1>4, <1>5 DEF ParsedBy, Makes, n
<1> QED BY <1>4, <1>6 DEF n

(***************************************************************************)
(* The depths, and the blocks they say are open.                           *)
(***************************************************************************)
LEMMA DepthsAre ==
    ASSUME NEW ls \in Seq(Brackets), NEW d, d = Depths(ls)
    PROVE  /\ d \in [0 .. Len(ls) -> Int] /\ d[0] = 0
           /\ \A k \in 1 .. Len(ls) : d[k] = d[k - 1] + Step(ls[k])
<1> DEFINE n == Len(ls)
           Term(f, i) == IF i = 0 THEN 0 ELSE f[i - 1] + Step(ls[i])
           MadeSo(f) == f = [i \in 0 .. n |-> Term(f, i)]
           f == CHOOSE f : MadeSo(f)
           step == [p \in Int \X (1 .. n) |-> p[1] + Step(ls[p[2]])]
<1>1. n \in Nat /\ \A i \in 1 .. n : Step(ls[i]) \in Int
  BY EachIsOne
<1>2. d = f
  BY DEF Depths
<1> HIDE DEF n
<1>3. step \in [Int \X (1 .. n) -> Int]
  BY <1>1
<1>4. PICK H \in [0 .. n -> Int] : Makes(H, n, 0, step)
  <2>1. 0 \in Int
    OBVIOUS
  <2> HIDE DEF step
  <2> QED BY <1>1, <1>3, <2>1, Recursion
<1>5. H[0] = 0 /\ \A k \in 1 .. n : H[k] = H[k - 1] + Step(ls[k])
  <2>1. ASSUME NEW k \in 1 .. n PROVE H[k] = H[k - 1] + Step(ls[k])
    <3>1. <<H[k - 1], k>> \in Int \X (1 .. n)
      <4>1. k - 1 \in 0 .. n
        BY <1>1
      <4> QED BY <1>4, <4>1
    <3>2. step[<<H[k - 1], k>>] = H[k - 1] + Step(ls[k])
      BY <3>1
    <3> HIDE DEF step
    <3> QED BY <1>4, <3>2 DEF Makes
  <2> QED BY <1>4, <2>1 DEF Makes
<1>6. MadeSo(H)
  <2>1. \A i \in 0 .. n : H[i] = Term(H, i)
    <3> TAKE i \in 0 .. n
    <3>1. i # 0 => i \in 1 .. n
      BY <1>1
    <3> QED BY <1>5, <3>1
  <2>2. H = [i \in 0 .. n |-> H[i]]
    BY <1>4
  <2> HIDE DEF Term
  <2> QED BY <2>1, <2>2
<1>7. MadeSo(f)
  <2> HIDE DEF MadeSo
  <2> QED BY <1>6
<1> HIDE DEF f, step
<1>8. \A i \in 0 .. n : f[i] = Term(f, i)
  <2> HIDE DEF Term
  <2> QED BY <1>7
<1>9. f[0] = 0 /\ \A k \in 1 .. n : f[k] = f[k - 1] + Step(ls[k])
  <2>1. 0 \in 0 .. n /\ \A k \in 1 .. n : k \in 0 .. n /\ k # 0
    BY <1>1
  <2> QED BY <1>8, <2>1
<1>10. \A k \in 0 .. n : f[k] = H[k]
  <2>1. f[0] = H[0] /\ \A k \in 1 .. n : f[k - 1] = H[k - 1] => f[k] = H[k]
    BY <1>5, <1>9
  <2> QED BY <1>1, <2>1, SameSteps, ZenonT(60)
<1>11. f = H
  <2>1. DOMAIN f = 0 .. n /\ f = [i \in DOMAIN f |-> f[i]]
    <3> HIDE DEF Term
    <3> QED BY <1>7
  <2> QED BY <1>4, <1>10, <2>1
<1> QED BY <1>2, <1>4, <1>9, <1>11 DEF n

\* The k-th line ends the block its depth says, or is none of these lines' first mistake.
Fits(ls, k) ==
    /\ Depths(ls)[k] >= 0
    /\ ls[k].is = "closer" => ls[k].name = CloserOf[ls[Opener(ls, k)].name]

Open0(ls, n, level, name) ==
    \E o \in 1 .. n : /\ IsOpener(ls[o]) /\ ls[o].name = name /\ Depths(ls)[o - 1] = level - 1
                      /\ \A q \in o .. n : Depths(ls)[q] >= level

\* While there is no error the blocks that are open are those the depths say, and each closer fits.
Sound(ls, n, s) ==
    /\ Len(s.stack) = Depths(ls)[n] /\ \A k \in 1 .. n : Fits(ls, k)
    /\ \A level \in 1 .. Len(s.stack) : Open0(ls, n, level, s.stack[level])
Follows(ls, n, s) == IF s.errors = 0 THEN Sound(ls, n, s) ELSE \E k \in 1 .. n : ~ Fits(ls, k)

\* The opener of a closer is the one of the innermost block that is open.
LEMMA OpenerIs ==
    ASSUME NEW ls \in Seq(Brackets), NEW n \in 0 .. Len(ls) - 1, Closing(ls[n + 1]),
           Depths(ls)[n] \in Nat \ {0}, NEW name, Open0(ls, n, Depths(ls)[n], name)
    PROVE  ls[Opener(ls, n + 1)].name = name
<1> DEFINE d == Depths(ls)
           here == {i \in 1 .. ((n + 1) - 1) : IsOpener(ls[i]) /\ d[i - 1] = d[n + 1]}
<1>1. Len(ls) \in Nat /\ ls[n + 1] \in Brackets /\ n + 1 \in 1 .. Len(ls) /\ (n + 1) - 1 = n
  OBVIOUS
<1>2. d[n + 1] = d[n] - 1 /\ d \in [0 .. Len(ls) -> Int]
  <2>1. d[n + 1] = d[n] + Step(ls[n + 1]) /\ d \in [0 .. Len(ls) -> Int]
    BY <1>1, DepthsAre
  <2> HIDE DEF d
  <2> QED BY <1>1, <2>1, EachIsOne
<1>3. PICK o \in 1 .. n : /\ IsOpener(ls[o]) /\ ls[o].name = name /\ d[o - 1] = d[n] - 1
                          /\ \A q \in o .. n : d[q] >= d[n]
  BY DEF Open0
<1>4. Opener(ls, n + 1) = CHOOSE i \in here : \A k \in here : k <= i
  BY DEF Opener
<1> HIDE DEF d
<1>5. o \in here
  BY <1>1, <1>2, <1>3
<1>6. ASSUME NEW i \in here PROVE i <= o
  <2>1. i \in 1 .. n /\ d[i - 1] = d[n] - 1
    BY <1>1, <1>2
  <2>2. ASSUME ~(i <= o) PROVE FALSE
    <3>1. i - 1 \in o .. n /\ d[n] \in Int
      BY <1>1, <1>2, <1>3, <2>1, <2>2
    <3>2. d[i - 1] >= d[n]
      BY <1>3, <3>1
    <3> QED BY <2>1, <3>1, <3>2
  <2> QED BY <2>2
<1>7. \A i \in here : (\A k \in here : k <= i) => i = o
  <2>1. \A i \in here : i \in 1 .. n
    BY <1>1
  <2> HIDE DEF here
  <2> QED BY <1>5, <1>6, <2>1
<1>8. Opener(ls, n + 1) = o
  <2> HIDE DEF here
  <2> QED BY <1>4, <1>5, <1>6, <1>7
<1> QED BY <1>3, <1>8

\* What is open stays open over a line that does not end it.
LEMMA StaysOpen ==
    ASSUME NEW ls \in Seq(Brackets), NEW n \in 0 .. Len(ls) - 1, NEW level \in Nat, NEW name,
           Open0(ls, n, level, name), Depths(ls)[n + 1] >= level
    PROVE  Open0(ls, n + 1, level, name)
<1>1. PICK o \in 1 .. n : /\ IsOpener(ls[o]) /\ ls[o].name = name /\ Depths(ls)[o - 1] = level - 1
                          /\ \A q \in o .. n : Depths(ls)[q] >= level
  BY DEF Open0
<1>2. o \in 1 .. n + 1 /\ \A q \in o .. n + 1 : q \in o .. n \/ q = n + 1
  OBVIOUS
<1> QED BY <1>1, <1>2 DEF Open0

LEMMA SoundStep ==
    ASSUME NEW ls \in Seq(Brackets), NEW n \in 0 .. Len(ls) - 1, NEW s \in Parses, Follows(ls, n, s),
           NEW then, then = Takes(s, ls[n + 1])
    PROVE  Follows(ls, n + 1, then)
<1> DEFINE l == ls[n + 1]
           m == Len(s.stack)
<1>1. Len(ls) \in Nat /\ l \in Brackets /\ n + 1 \in 1 .. Len(ls) /\ n \in Nat /\ m \in Nat /\ s.stack \in Seq(Names0)
      /\ s.errors \in Nat
  BY DEF Parses
<1>2. PICK d : d = Depths(ls)
  OBVIOUS
<1>3. d \in [0 .. Len(ls) -> Int] /\ d[n + 1] = d[n] + Step(l) /\ d[n] \in Int
  <2>1. d \in [0 .. Len(ls) -> Int] /\ \A k \in 1 .. Len(ls) : d[k] = d[k - 1] + Step(ls[k])
    BY <1>2, DepthsAre
  <2> QED BY <1>1, <2>1
<1>4. then \in Parses
  BY <1>1, TakesIs
<1> HIDE DEF l, m
<1>5. CASE s.errors # 0
  <2>1. then.errors # 0
    <3>1. CASE Opening(l)
      BY <1>1, <1>5, <3>1, OpeningTakes DEF l
    <3>2. CASE Closing(l)
      <4>1. PICK k : k = Innermost(s.stack, l.name)
        OBVIOUS
      <4>2. /\ m = 0 => then.errors = s.errors + 1
            /\ m # 0 /\ k = 0 => then.errors = s.errors + 1
            /\ m # 0 /\ k # 0 => then.errors = s.errors + (m - k)
            /\ k \in 0 .. m
        BY <1>1, <3>2, <4>1, ClosingTakes DEF l, m
      <4> QED BY <1>1, <1>5, <4>2
    <3> QED BY <1>1, <3>1, <3>2, EachIsOne
  <2>2. PICK k \in 1 .. n : ~ Fits(ls, k)
    BY <1>5 DEF Follows
  <2>3. k \in 1 .. n + 1
    BY <1>1
  <2> QED BY <2>1, <2>2, <2>3 DEF Follows
<1>6. CASE s.errors = 0
  <2>1. m = d[n] /\ (\A k \in 1 .. n : Fits(ls, k)) /\ \A level \in 1 .. m : Open0(ls, n, level, s.stack[level])
    BY <1>2, <1>6 DEF Follows, Sound, m
  <2>2. CASE Opening(l)
    <3>1. /\ then.errors = 0 /\ Len(then.stack) = m + 1 /\ then.stack[m + 1] = l.name
          /\ \A i \in 1 .. m : then.stack[i] = s.stack[i]
      BY <1>1, <1>6, <2>2, OpeningTakes DEF l, m
    <3>2. d[n + 1] = m + 1 /\ IsOpener(l) /\ l.is # "closer"
      BY <1>1, <1>3, <2>1, <2>2, EachIsOne
    <3>3. Fits(ls, n + 1)
      BY <1>1, <1>2, <3>2 DEF Fits, l
    <3>4. ASSUME NEW level \in 1 .. m + 1 PROVE Open0(ls, n + 1, level, then.stack[level])
      <4>1. CASE level \in 1 .. m
        <5>1. Depths(ls)[n + 1] >= level /\ level \in Nat
          BY <1>1, <1>2, <3>2, <4>1
        <5>2. Open0(ls, n, level, s.stack[level])
          BY <2>1, <4>1
        <5>3. Open0(ls, n + 1, level, s.stack[level])
          BY <5>1, <5>2, StaysOpen
        <5> QED BY <3>1, <4>1, <5>3
      <4>2. CASE level = m + 1
        <5>1. n + 1 \in 1 .. n + 1 /\ (n + 1) - 1 = n /\ \A q \in n + 1 .. n + 1 : q = n + 1
          BY <1>1
        <5>2. Depths(ls)[(n + 1) - 1] = level - 1 /\ Depths(ls)[n + 1] >= level
          BY <1>1, <1>2, <2>1, <3>2, <4>2, <5>1
        <5> QED BY <3>1, <3>2, <4>2, <5>1, <5>2 DEF Open0, l
      <4> QED BY <1>1, <4>1, <4>2
    <3>5. \A k \in 1 .. n + 1 : Fits(ls, k)
      <4>1. \A k \in 1 .. n + 1 : k \in 1 .. n \/ k = n + 1
        BY <1>1
      <4> QED BY <2>1, <3>3, <4>1
    <3> QED BY <1>2, <3>1, <3>2, <3>4, <3>5 DEF Follows, Sound
  <2>3. CASE Closing(l)
    <3>1. PICK k : k = Innermost(s.stack, l.name)
      OBVIOUS
    <3>2. /\ m = 0 => then.errors = s.errors + 1
          /\ m # 0 /\ k = 0 => then.errors = s.errors + 1
          /\ m # 0 /\ k # 0 => then.errors = s.errors + (m - k) /\ Len(then.stack) = k - 1
          /\ k \in 0 .. m
          /\ \A i \in 1 .. Len(then.stack) : i \in 1 .. m /\ then.stack[i] = s.stack[i]
      BY <1>1, <2>3, <3>1, ClosingTakes, SMTT(30) DEF l, m
    <3>3. d[n + 1] = m - 1 /\ l.is = "closer"
      BY <1>1, <1>3, <2>1, <2>3, EachIsOne
    <3>4. CASE m = 0
      <4>1. ~ Fits(ls, n + 1)
        BY <1>1, <1>2, <3>3, <3>4 DEF Fits
      <4>2. then.errors # 0 /\ n + 1 \in 1 .. n + 1
        BY <1>1, <1>6, <3>2, <3>4
      <4> QED BY <4>1, <4>2 DEF Follows
    <3>5. CASE m # 0
      <4>1. ls[Opener(ls, n + 1)].name = s.stack[m]
        <5>1. m \in 1 .. m /\ Depths(ls)[n] \in Nat \ {0} /\ Depths(ls)[n] = m
          BY <1>1, <1>2, <2>1, <3>5
        <5>2. Open0(ls, n, Depths(ls)[n], s.stack[m])
          BY <2>1, <5>1
        <5> QED BY <2>3, <5>1, <5>2, OpenerIs DEF l
      <4>2. k = m <=> CloserOf[s.stack[m]] = l.name
        <5>1. m \in 1 .. Len(s.stack) /\ m = Len(s.stack)
          BY <1>1, <3>5 DEF m
        <5>2. /\ k = 0 => CloserOf[s.stack[m]] # l.name
              /\ k # 0 => CloserOf[s.stack[k]] = l.name /\ (CloserOf[s.stack[m]] = l.name => m <= k)
          BY <1>1, <3>1, <5>1, InnermostIs
        <5> QED BY <1>1, <3>2, <3>5, <5>2
      <4>3. CASE k = m
        <5>1. then.errors = 0 /\ Len(then.stack) = m - 1
          BY <1>1, <1>6, <3>2, <3>5, <4>3
        <5>2. Fits(ls, n + 1)
          BY <1>1, <1>2, <3>3, <3>5, <4>1, <4>2, <4>3 DEF Fits, l
        <5>3. ASSUME NEW level \in 1 .. m - 1 PROVE Open0(ls, n + 1, level, then.stack[level])
          <6>1. level \in 1 .. m /\ level \in Nat /\ level \in 1 .. Len(then.stack) /\ level <= m - 1
            BY <1>1, <5>1
          <6>2. Depths(ls)[n + 1] >= level /\ then.stack[level] = s.stack[level]
            BY <1>1, <1>2, <3>2, <3>3, <6>1
          <6>3. Open0(ls, n, level, s.stack[level])
            BY <2>1, <6>1
          <6> QED BY <6>1, <6>2, <6>3, StaysOpen
        <5>4. \A i \in 1 .. n + 1 : Fits(ls, i)
          <6>1. \A i \in 1 .. n + 1 : i \in 1 .. n \/ i = n + 1
            BY <1>1
          <6> QED BY <2>1, <5>2, <6>1
        <5> QED BY <1>2, <3>3, <5>1, <5>3, <5>4 DEF Follows, Sound
      <4>4. CASE k # m
        <5>1. then.errors # 0 /\ n + 1 \in 1 .. n + 1
          BY <1>1, <1>6, <3>2, <3>5, <4>4
        <5>2. ~ Fits(ls, n + 1)
          BY <3>3, <4>1, <4>2, <4>4 DEF Fits, l
        <5> QED BY <5>1, <5>2 DEF Follows
      <4> QED BY <4>3, <4>4
    <3> QED BY <3>4, <3>5
  <2> QED BY <1>1, <2>2, <2>3, EachIsOne
<1> QED BY <1>5, <1>6

LEMMA AlwaysFollows ==
    ASSUME NEW ls \in Seq(Brackets), NEW f \in [0 .. Len(ls) -> Parses], ParsedBy(ls, f), NEW n \in 0 .. Len(ls)
    PROVE  Follows(ls, n, f[n])
<1> DEFINE S == {k \in 0 .. Len(ls) : Follows(ls, k, f[k])}
<1>1. Len(ls) \in Nat
  OBVIOUS
<1>2. 0 \in S
  <2>1. f[0].errors = 0 /\ f[0].stack = <<>> /\ Depths(ls)[0] = 0 /\ Len(<<>>) = 0
    BY DepthsAre DEF ParsedBy, Untouched
  <2> QED BY <1>1, <2>1 DEF Follows, Sound
<1>3. ASSUME NEW k \in 0 .. Len(ls) - 1, k \in S PROVE k + 1 \in S
  <2>1. k + 1 \in 1 .. Len(ls) /\ (k + 1) - 1 = k /\ k + 1 \in 0 .. Len(ls) /\ k \in 0 .. Len(ls)
    BY <1>1
  <2>2. f[k + 1] = Takes(f[k], ls[k + 1]) /\ f[k] \in Parses
    BY <2>1 DEF ParsedBy
  <2>3. Follows(ls, k, f[k])
    BY <1>3
  <2> QED BY <2>1, <2>2, <2>3, SoundStep
<1>4. 0 .. Len(ls) \subseteq S
  <2> HIDE DEF S
  <2> QED BY <1>1, <1>2, <1>3, InductionUpTo
<1> QED BY <1>4

\* Of a view of such lines, read to its end: no error and nothing open, when its
\* blocks close in order and only then.
LEMMA BalancedIs ==
    ASSUME NEW ls \in Seq(Brackets), NEW f \in [0 .. Len(ls) -> Parses], ParsedBy(ls, f)
    PROVE  Balanced(ls) <=> f[Len(ls)].errors = 0 /\ f[Len(ls)].stack = <<>>
<1> DEFINE n == Len(ls)
<1>1. n \in Nat /\ n \in 0 .. n /\ DOMAIN ls = 1 .. n
  OBVIOUS
<1>2. PICK d : d = Depths(ls)
  OBVIOUS
<1>3. d \in [0 .. n -> Int] /\ d[0] = 0
  BY <1>2, DepthsAre
<1>4. Balanced(ls) <=> (\A k \in 1 .. n : Fits(ls, k)) /\ d[n] = 0
  <2>1. \A k \in 0 .. n : k = 0 \/ k \in 1 .. n
    BY <1>1
  <2>2. (\A k \in DOMAIN d : d[k] >= 0) <=> \A k \in 1 .. n : d[k] >= 0
    BY <1>1, <1>3, <2>1
  <2> QED BY <1>1, <1>2, <2>2 DEF Balanced, Fits
<1>5. PICK s \in Parses : s = f[n]
  BY <1>1
<1>6. Follows(ls, n, s)
  BY <1>1, <1>5, AlwaysFollows
<1>7. CASE s.errors = 0
  <2>1. Len(s.stack) = d[n] /\ \A k \in 1 .. n : Fits(ls, k)
    BY <1>2, <1>6, <1>7 DEF Follows, Sound
  <2>2. s.stack = <<>> <=> Len(s.stack) = 0
    BY <1>5 DEF Parses
  <2> QED BY <1>4, <1>5, <1>7, <2>1, <2>2
<1>8. CASE s.errors # 0
  BY <1>4, <1>5, <1>6, <1>8 DEF Follows
<1> QED BY <1>7, <1>8

(***************************************************************************)
(* A view and the one that was meant, read side by side.                   *)
(***************************************************************************)
\* Read on from one mistake: one block more is open than was meant, or there was one error.
Behind(a, b) ==
    \/ a.errors = 1 /\ a.stack = b.stack
    \/ /\ a.errors = 0 /\ Len(a.stack) = Len(b.stack) + 1
       /\ \E q \in 1 .. Len(a.stack) :
            \A i \in 1 .. Len(b.stack) : b.stack[i] = IF i < q THEN a.stack[i] ELSE a.stack[i + 1]

LEMMA SameSequence ==
    ASSUME NEW S, NEW s \in Seq(S), NEW t \in Seq(S), Len(s) = Len(t), \A i \in 1 .. Len(s) : s[i] = t[i]
    PROVE  s = t
BY SeqEqual

\* A closer that is no error ends the innermost block.
LEMMA EndsTheInnermost ==
    ASSUME NEW s \in Parses, NEW l \in Brackets, Closing(l), NEW then, then = Takes(s, l), s.errors = 0, then.errors = 0
    PROVE  /\ Len(s.stack) # 0 /\ CloserOf[s.stack[Len(s.stack)]] = l.name
           /\ then \in Parses /\ Len(then.stack) = Len(s.stack) - 1
           /\ \A i \in 1 .. Len(then.stack) : then.stack[i] = s.stack[i]
<1>1. PICK n : n = Len(s.stack)
  OBVIOUS
<1>2. PICK k : k = Innermost(s.stack, l.name)
  OBVIOUS
<1>3. /\ then \in Parses /\ n \in Nat /\ k \in 0 .. n
      /\ n = 0 => then.errors = s.errors + 1
      /\ n # 0 /\ k = 0 => then.errors = s.errors + 1
      /\ n # 0 /\ k # 0 => then.errors = s.errors + (n - k) /\ Len(then.stack) = k - 1
      /\ \A i \in 1 .. Len(then.stack) : then.stack[i] = s.stack[i]
  <2>1. /\ then \in Parses /\ n \in Nat /\ k \in 0 .. n
        /\ n = 0 => then.errors = s.errors + 1 /\ then.stack = s.stack
        /\ n # 0 /\ k = 0 => then.errors = s.errors + 1 /\ Len(then.stack) = n - 1
        /\ n # 0 /\ k # 0 => then.errors = s.errors + (n - k) /\ Len(then.stack) = k - 1
        /\ \A i \in 1 .. Len(then.stack) : i \in 1 .. n /\ then.stack[i] = s.stack[i]
    BY <1>1, <1>2, ClosingTakes, SMTT(30)
  <2> QED BY <2>1
<1>4. n # 0 /\ k = n /\ k # 0
  BY <1>3
<1>5. CloserOf[s.stack[k]] = l.name
  BY <1>2, <1>4, InnermostIs DEF Parses
<1> QED BY <1>1, <1>3, <1>4, <1>5

\* The same line, read with the same blocks open.
LEMMA SameStack ==
    ASSUME NEW a \in Parses, NEW b \in Parses, a.stack = b.stack, NEW l
    PROVE  /\ Takes(a, l).stack = Takes(b, l).stack
           /\ Takes(a, l).errors - a.errors = Takes(b, l).errors - b.errors
<1>1. PICK s : s = a.stack
  OBVIOUS
<1>2. PICK n : n = Len(s)
  OBVIOUS
<1>3. PICK k : k = Innermost(s, l.name)
  OBVIOUS
<1>4. k \in 0 .. n /\ n \in Nat /\ a.errors \in Nat /\ b.errors \in Nat
  BY <1>1, <1>2, <1>3, InnermostIs DEF Parses
<1>5. \A x \in {a, b} :
        Takes(x, l) = IF Opening(l) THEN [stack |-> Append(s, l.name), errors |-> x.errors]
                      ELSE IF n = 0 THEN [stack |-> s, errors |-> x.errors + 1]
                      ELSE IF k = 0 THEN [stack |-> SubSeq(s, 1, n - 1), errors |-> x.errors + 1]
                      ELSE [stack |-> SubSeq(s, 1, k - 1), errors |-> x.errors + (n - k)]
  BY <1>1, <1>2, <1>3 DEF Takes
<1>6. CASE Opening(l)
  BY <1>4, <1>5, <1>6
<1>7. CASE ~ Opening(l) /\ n = 0
  BY <1>4, <1>5, <1>7
<1>8. CASE ~ Opening(l) /\ n # 0 /\ k = 0
  BY <1>4, <1>5, <1>8
<1>9. CASE ~ Opening(l) /\ n # 0 /\ k # 0
  BY <1>4, <1>5, <1>9
<1> QED BY <1>6, <1>7, <1>8, <1>9

\* A line of a view that was meant, none of them an error.
LEMMA StaysBehind ==
    ASSUME NEW a \in Parses, NEW b \in Parses, Behind(a, b), b.errors = 0, NEW l \in Brackets, Takes(b, l).errors = 0
    PROVE  Behind(Takes(a, l), Takes(b, l))
<1>1. PICK a1 \in Parses : a1 = Takes(a, l)
  BY TakesIs
<1>2. PICK b1 \in Parses : b1 = Takes(b, l)
  BY TakesIs
<1>3. PICK n \in Nat : n = Len(b.stack)
  BY DEF Parses
<1>a. /\ a.stack \in Seq(Names0) /\ b.stack \in Seq(Names0) /\ a1.stack \in Seq(Names0) /\ b1.stack \in Seq(Names0)
      /\ a1.errors \in Nat /\ a.errors \in Nat
  BY DEF Parses
<1>4. CASE a.errors = 1 /\ a.stack = b.stack
  <2>1. a1.stack = b1.stack /\ a1.errors - a.errors = b1.errors - b.errors
    BY <1>1, <1>2, <1>4, SameStack
  <2>2. a1.errors = 1
    BY <1>2, <1>4, <1>a, <2>1
  <2> QED BY <1>1, <1>2, <2>1, <2>2 DEF Behind
<1>5. CASE a.errors = 0 /\ ~(a.errors = 1)
  <2>1. Len(a.stack) = n + 1
    BY <1>3, <1>5 DEF Behind
  <2>2. PICK q \in 1 .. n + 1 : \A i \in 1 .. n : b.stack[i] = IF i < q THEN a.stack[i] ELSE a.stack[i + 1]
    BY <1>3, <1>5, <2>1 DEF Behind
  <2>3. CASE Opening(l)
    <3>1. /\ a1.errors = 0 /\ Len(a1.stack) = n + 2 /\ a1.stack[n + 2] = l.name
          /\ \A i \in 1 .. n + 1 : a1.stack[i] = a.stack[i]
      <4>1. /\ a1.errors = a.errors /\ a1.stack = Append(a.stack, l.name)
            /\ Len(a1.stack) = Len(a.stack) + 1 /\ a1.stack[Len(a.stack) + 1] = l.name
            /\ \A i \in 1 .. Len(a.stack) : a1.stack[i] = a.stack[i]
        BY <1>1, <2>3, OpeningTakes
      <4>2. (n + 1) + 1 = n + 2
        OBVIOUS
      <4> QED BY <1>5, <2>1, <4>1, <4>2
    <3>2. /\ Len(b1.stack) = n + 1 /\ b1.stack[n + 1] = l.name
          /\ \A i \in 1 .. n : b1.stack[i] = b.stack[i]
      BY <1>2, <1>3, <2>3, OpeningTakes
    <3>3. ASSUME NEW i \in 1 .. n + 1 PROVE b1.stack[i] = IF i < q THEN a1.stack[i] ELSE a1.stack[i + 1]
      <4>1. CASE i \in 1 .. n
        <5>1. i \in 1 .. n + 1 /\ i + 1 \in 1 .. n + 1
          BY <4>1
        <5> QED BY <2>2, <3>1, <3>2, <4>1, <5>1
      <4>2. CASE i = n + 1
        BY <3>1, <3>2, <4>2
      <4> QED BY <4>1, <4>2
    <3>4. q \in 1 .. Len(a1.stack)
      BY <3>1
    <3>5. \E p \in 1 .. Len(a1.stack) :
            \A i \in 1 .. Len(b1.stack) : b1.stack[i] = IF i < p THEN a1.stack[i] ELSE a1.stack[i + 1]
      BY <3>2, <3>3, <3>4
    <3>6. a1.errors = 0 /\ Len(a1.stack) = Len(b1.stack) + 1
      BY <3>1, <3>2
    <3> QED BY <1>1, <1>2, <3>5, <3>6 DEF Behind
  <2>4. CASE Closing(l)
    <3>1. /\ n # 0 /\ CloserOf[b.stack[n]] = l.name /\ Len(b1.stack) = n - 1
          /\ \A i \in 1 .. n - 1 : b1.stack[i] = b.stack[i]
      BY <1>2, <1>3, <2>4, EndsTheInnermost
    <3>2. PICK k : k = Innermost(a.stack, l.name)
      OBVIOUS
    <3>3. /\ k \in 0 .. n + 1
          /\ k # 0 => a1.errors = (n + 1) - k /\ Len(a1.stack) = k - 1
          /\ \A i \in 1 .. Len(a1.stack) : a1.stack[i] = a.stack[i]
      <4>1. /\ k \in 0 .. n + 1
            /\ n + 1 # 0 /\ k # 0 => a1.errors = a.errors + ((n + 1) - k) /\ Len(a1.stack) = k - 1
            /\ \A i \in 1 .. Len(a1.stack) : a1.stack[i] = a.stack[i]
        BY <1>1, <2>1, <2>4, <3>2, ClosingTakes
      <4> QED BY <1>5, <4>1
    <3>4. /\ k = 0 => \A i \in 1 .. n + 1 : CloserOf[a.stack[i]] # l.name
          /\ k # 0 => CloserOf[a.stack[k]] = l.name /\ \A i \in 1 .. n + 1 : CloserOf[a.stack[i]] = l.name => i <= k
      BY <1>a, <2>1, <3>2, InnermostIs, SMTT(30)
    <3>5. CASE q <= n
      <4>1. a.stack[n + 1] = b.stack[n]
        <5>1. n \in 1 .. n /\ ~(n < q)
          BY <3>1, <3>5
        <5> QED BY <2>2, <5>1
      <4>2. k = n + 1
        BY <3>1, <3>3, <3>4, <4>1
      <4>3. a1.errors = 0 /\ Len(a1.stack) = n
        BY <3>3, <4>2
      <4>4. ASSUME NEW i \in 1 .. n - 1 PROVE b1.stack[i] = IF i < q THEN a1.stack[i] ELSE a1.stack[i + 1]
        <5>1. i \in 1 .. n /\ i + 1 \in 1 .. n
          OBVIOUS
        <5>2. a1.stack[i] = a.stack[i] /\ a1.stack[i + 1] = a.stack[i + 1]
          BY <3>3, <4>3, <5>1
        <5> QED BY <2>2, <3>1, <5>1, <5>2
      <4>5. q \in 1 .. n
        BY <3>5
      <4>6. \E p \in 1 .. Len(a1.stack) :
              \A i \in 1 .. Len(b1.stack) : b1.stack[i] = IF i < p THEN a1.stack[i] ELSE a1.stack[i + 1]
        BY <3>1, <4>3, <4>4, <4>5
      <4>7. a1.errors = 0 /\ Len(a1.stack) = Len(b1.stack) + 1
        BY <3>1, <4>3
      <4> QED BY <1>1, <1>2, <4>6, <4>7 DEF Behind
    <3>6. CASE ~(q <= n)
      <4>1. q = n + 1 /\ \A i \in 1 .. n : b.stack[i] = a.stack[i]
        <5>1. q = n + 1
          BY <3>6
        <5>2. \A i \in 1 .. n : i < q
          BY <5>1
        <5> QED BY <2>2, <5>1, <5>2
      <4>2. n \in 1 .. n /\ n + 1 \in 1 .. n + 1 /\ a.stack[n] = b.stack[n] /\ n \in 1 .. n + 1
        BY <3>1, <4>1
      <4>3. k = n + 1 \/ k = n
        BY <3>1, <3>3, <3>4, <4>2
      <4>4. CASE k = n + 1
        <5>1. a1.errors = 0 /\ Len(a1.stack) = n /\ n \in 1 .. n
          BY <3>3, <4>2, <4>4
        <5>2. ASSUME NEW i \in 1 .. n - 1 PROVE i < n /\ b1.stack[i] = a1.stack[i]
          <6>1. i \in 1 .. n
            OBVIOUS
          <6> QED BY <3>1, <3>3, <4>1, <5>1, <6>1
        <5> QED BY <1>1, <1>2, <3>1, <5>1, <5>2 DEF Behind
      <4>5. CASE k = n
        <5>1. a1.errors = 1 /\ Len(a1.stack) = n - 1
          BY <3>1, <3>3, <4>5
        <5>2. ASSUME NEW i \in 1 .. n - 1 PROVE a1.stack[i] = b1.stack[i]
          <6>1. i \in 1 .. n
            OBVIOUS
          <6> QED BY <3>1, <3>3, <4>1, <5>1, <6>1
        <5>3. a1.stack = b1.stack
          BY <1>a, <3>1, <5>1, <5>2, SameSequence
        <5> QED BY <1>1, <1>2, <5>1, <5>3 DEF Behind
      <4> QED BY <4>3, <4>4, <4>5
    <3> QED BY <3>5, <3>6
  <2> QED BY <2>3, <2>4, EachIsOne
<1>6. (a.errors = 1 /\ a.stack = b.stack) \/ (a.errors = 0 /\ ~(a.errors = 1))
  BY DEF Behind
<1> QED BY <1>4, <1>5, <1>6

\* A view whose blocks close in order is read without an error.
LEMMA NoErrorOnTheWay ==
    ASSUME NEW ls \in Seq(Brackets), NEW f \in [0 .. Len(ls) -> Parses], ParsedBy(ls, f), Balanced(ls)
    PROVE  \A n \in 0 .. Len(ls) : f[n].errors = 0
<1>1. DOMAIN ls = 1 .. Len(ls) /\ Len(ls) \in Nat
  OBVIOUS
<1>2. \A k \in 1 .. Len(ls) : Fits(ls, k)
  <2>1. PICK d : d = Depths(ls)
    OBVIOUS
  <2>2. DOMAIN d = 0 .. Len(ls) /\ \A k \in 1 .. Len(ls) : k \in 0 .. Len(ls)
    BY <1>1, <2>1, DepthsAre
  <2> QED BY <1>1, <2>1, <2>2 DEF Balanced, Fits
<1>3. ASSUME NEW n \in 0 .. Len(ls) PROVE f[n].errors = 0
  <2>1. Follows(ls, n, f[n])
    BY AlwaysFollows
  <2>2. \A k \in 1 .. n : k \in 1 .. Len(ls)
    BY <1>1
  <2> QED BY <1>2, <2>1, <2>2 DEF Follows
<1> QED BY <1>3

\* Read on behind what was meant, a view has one mistake at its end.
LEMMA OneMistakeAtTheEnd ==
    ASSUME NEW ls \in Seq(Brackets), NEW f \in [0 .. Len(ls) -> Parses], ParsedBy(ls, f),
           NEW meant \in Seq(Brackets), NEW g \in [0 .. Len(meant) -> Parses], ParsedBy(meant, g), Balanced(meant),
           NEW off \in {0, 1}, Len(meant) = Len(ls) + off,
           NEW k \in 0 .. Len(ls), \A i \in k + 1 .. Len(ls) : meant[i + off] = ls[i], Behind(f[k], g[k + off])
    PROVE  f[Len(ls)].errors + Len(f[Len(ls)].stack) = 1
<1>1. PICK N \in Nat : N = Len(ls)
  OBVIOUS
<1> DEFINE S == {i \in 0 .. N : i >= k => Behind(f[i], g[i + off])}
<1>2. 0 \in S
  BY <1>1
<1>3. ASSUME NEW i \in 0 .. N - 1, i \in S PROVE i + 1 \in S
  <2>1. i + 1 \in 0 .. N /\ i + 1 \in 1 .. N /\ (i + 1) - 1 = i /\ i \in 0 .. N
    BY <1>1
  <2>2. CASE i >= k
    <3>1. Behind(f[i], g[i + off])
      BY <1>3, <2>2
    <3>2. i + 1 \in k + 1 .. N
      BY <1>1, <2>2
    <3>3. /\ i + off \in 0 .. Len(meant) /\ (i + 1) + off \in 1 .. Len(meant) /\ ((i + 1) + off) - 1 = i + off
          /\ (i + 1) + off \in 0 .. Len(meant)
      BY <1>1
    <3>4. ls[i + 1] \in Brackets /\ meant[(i + 1) + off] = ls[i + 1]
      BY <1>1, <2>1, <3>2
    <3>5. f[i + 1] = Takes(f[i], ls[i + 1]) /\ g[(i + 1) + off] = Takes(g[i + off], ls[i + 1])
      BY <1>1, <2>1, <3>3, <3>4 DEF ParsedBy
    <3>6. f[i] \in Parses /\ g[i + off] \in Parses
      BY <1>1, <2>1, <3>3
    <3>7. g[i + off].errors = 0 /\ g[(i + 1) + off].errors = 0
      BY <3>3, NoErrorOnTheWay
    <3>8. Behind(f[i + 1], g[(i + 1) + off])
      BY <3>1, <3>4, <3>5, <3>6, <3>7, StaysBehind
    <3> QED BY <2>1, <3>8
  <2>3. CASE ~(i >= k)
    <3>1. i + 1 >= k => i + 1 = k
      BY <1>1, <2>3
    <3> QED BY <1>1, <2>1, <3>1
  <2> QED BY <2>2, <2>3
<1>4. N \in S
  <2> HIDE DEF S
  <2>1. 0 .. N \subseteq S
    BY <1>1, <1>2, <1>3, InductionUpTo
  <2> QED BY <2>1
<1>5. Behind(f[N], g[N + off])
  BY <1>1, <1>4
<1>6. g[N + off].stack = <<>> /\ g[N + off].errors = 0
  BY <1>1, BalancedIs
<1>7. PICK a \in Parses : a = f[N]
  BY <1>1
<1>8. PICK b : b = g[N + off]
  OBVIOUS
<1>9. b.stack = <<>> /\ Behind(a, b) /\ Len(b.stack) = 0
  BY <1>5, <1>6, <1>7, <1>8
<1>10. a.errors + Len(a.stack) = 1
  <2>1. CASE a.errors = 1 /\ a.stack = b.stack
    BY <1>9, <2>1
  <2>2. CASE a.errors = 0 /\ Len(a.stack) = Len(b.stack) + 1
    BY <1>9, <2>2
  <2> QED BY <1>9, <2>1, <2>2 DEF Behind
<1> QED BY <1>1, <1>7, <1>10

\* A closer that was left out.
LEMMA Inserted ==
    ASSUME NEW ls \in Seq(Brackets), NEW k \in 1 .. Len(ls) + 1, NEW l \in Brackets, NEW meant, meant = InsertAt(ls, k, l)
    PROVE  /\ meant \in Seq(Brackets) /\ Len(meant) = Len(ls) + 1 /\ meant[k] = l
           /\ \A i \in 1 .. k - 1 : meant[i] = ls[i]
           /\ \A i \in k .. Len(ls) : meant[i + 1] = ls[i]
<1>1. PICK N \in Nat : N = Len(ls)
  OBVIOUS
<1>2. PICK before : before = SubSeq(ls, 1, k - 1)
  OBVIOUS
<1>3. PICK later : later = SubSeq(ls, k, N)
  OBVIOUS
<1>4. before \in Seq(Brackets) /\ Len(before) = k - 1 /\ \A i \in 1 .. k - 1 : before[i] = ls[i]
  BY <1>1, <1>2
<1>5. later \in Seq(Brackets) /\ Len(later) = (N - k) + 1 /\ \A i \in 1 .. (N - k) + 1 : later[i] = ls[(k + i) - 1]
  BY <1>1, <1>3
<1>6. meant = (before \o <<l>>) \o later
  BY <1>1, <1>2, <1>3 DEF InsertAt
<1>7. PICK half : half = before \o <<l>>
  OBVIOUS
<1>8. half \in Seq(Brackets) /\ Len(half) = k /\ half[k] = l /\ \A i \in 1 .. k - 1 : half[i] = ls[i]
  BY <1>1, <1>4, <1>7
<1>9. meant \in Seq(Brackets) /\ Len(meant) = N + 1 /\ (\A i \in 1 .. k : meant[i] = half[i])
      /\ \A i \in k + 1 .. N + 1 : meant[i] = later[i - k]
  BY <1>1, <1>5, <1>6, <1>7, <1>8, SMTT(30)
<1>10. ASSUME NEW i \in k .. N PROVE meant[i + 1] = ls[i]
  <2>1. i + 1 \in k + 1 .. N + 1 /\ (i + 1) - k \in 1 .. (N - k) + 1 /\ (k + ((i + 1) - k)) - 1 = i
    BY <1>1
  <2> QED BY <1>5, <1>9, <2>1
<1> QED BY <1>1, <1>8, <1>9, <1>10

\* Before the mistake the view is the one that was meant.
LEMMA SameBefore ==
    ASSUME NEW ls \in Seq(Brackets), NEW f, ParsedBy(ls, f), NEW meant \in Seq(Brackets), NEW g, ParsedBy(meant, g),
           NEW n \in Nat, n <= Len(ls), n <= Len(meant), \A i \in 1 .. n : ls[i] = meant[i]
    PROVE  f[n] = g[n]
<1>1. f[0] = g[0]
  BY DEF ParsedBy
<1>2. \A k \in 1 .. n : f[k - 1] = g[k - 1] => f[k] = g[k]
  <2>1. \A k \in 1 .. n : k \in 1 .. Len(ls) /\ k \in 1 .. Len(meant)
    OBVIOUS
  <2> QED BY <2>1 DEF ParsedBy
<1>3. \A k \in 0 .. n : f[k] = g[k]
  BY ONLY n \in Nat, <1>1, <1>2, SameSteps, ZenonT(60)
<1>4. n \in 0 .. n
  OBVIOUS
<1> QED BY <1>3, <1>4

LEMMA LeftOut ==
    ASSUME NEW ls \in Seq(Brackets), NEW f \in [0 .. Len(ls) -> Parses], ParsedBy(ls, f), OneLeftOut(ls)
    PROVE  f[Len(ls)].errors + Len(f[Len(ls)].stack) = 1
<1>1. PICK k \in 1 .. (Len(ls) + 1), c \in Closers : Balanced(InsertAt(ls, k, Ends(c)))
  BY DEF OneLeftOut
<1>2. PICK l \in Brackets : l = Ends(c) /\ Closing(l)
  BY Lines DEF Brackets, Closing, Closers, Names0
<1>3. PICK meant : meant = InsertAt(ls, k, l)
  OBVIOUS
<1>4. /\ meant \in Seq(Brackets) /\ Len(meant) = Len(ls) + 1 /\ meant[k] = l
      /\ \A i \in 1 .. k - 1 : meant[i] = ls[i]
      /\ \A i \in k .. Len(ls) : meant[i + 1] = ls[i]
  BY <1>3, Inserted
<1>5. PICK g \in [0 .. Len(meant) -> Parses] : ParsedBy(meant, g)
  BY <1>4, ReadingSo
<1>6. /\ Len(ls) \in Nat /\ k - 1 \in Nat /\ k - 1 \in 0 .. Len(ls) /\ k \in 1 .. Len(meant)
      /\ k - 1 \in 0 .. Len(meant) /\ k \in 0 .. Len(meant) /\ (k - 1) + 1 = k /\ k - 1 <= Len(ls) /\ k - 1 <= Len(meant)
  BY <1>4
<1>7. Balanced(meant)
  BY <1>1, <1>2, <1>3
<1>8. f[k - 1] = g[k - 1]
  BY <1>4, <1>5, <1>6, SameBefore
<1>9. PICK a \in Parses : a = f[k - 1]
  BY <1>6
<1>10. PICK b \in Parses : b = g[k]
  BY <1>5, <1>6
<1>11. b = Takes(a, l) /\ a.errors = 0 /\ b.errors = 0
  <2>1. g[k] = Takes(g[k - 1], meant[k])
    BY <1>5, <1>6 DEF ParsedBy
  <2>2. \A i \in 0 .. Len(meant) : g[i].errors = 0
    BY <1>4, <1>5, <1>7, NoErrorOnTheWay
  <2> QED BY <1>4, <1>6, <1>8, <1>9, <1>10, <2>1, <2>2
<1>12. /\ Len(a.stack) # 0 /\ Len(b.stack) = Len(a.stack) - 1
       /\ \A i \in 1 .. Len(b.stack) : b.stack[i] = a.stack[i]
  <2>1. Closing(l)
    BY <1>2
  <2> QED BY <1>11, <2>1, EndsTheInnermost
<1>13. Behind(a, b)
  <2>1. PICK q \in Nat : q = Len(a.stack)
    BY DEF Parses
  <2>2. q \in 1 .. Len(a.stack) /\ Len(a.stack) = Len(b.stack) + 1 /\ \A i \in 1 .. Len(b.stack) : i < q
    BY <1>12, <2>1
  <2> QED BY <1>11, <1>12, <2>2 DEF Behind
<1>14. \A i \in (k - 1) + 1 .. Len(ls) : meant[i + 1] = ls[i]
  BY <1>4, <1>6
<1>15. Behind(f[k - 1], g[(k - 1) + 1])
  BY <1>6, <1>9, <1>10, <1>13
<1> QED BY <1>4, <1>5, <1>6, <1>7, <1>14, <1>15, OneMistakeAtTheEnd

\* A closer that was written wrong.
LEMMA Miswritten ==
    ASSUME NEW ls \in Seq(Brackets), NEW f \in [0 .. Len(ls) -> Parses], ParsedBy(ls, f), OneMiswritten(ls)
    PROVE  f[Len(ls)].errors + Len(f[Len(ls)].stack) = 1
<1>1. PICK k \in DOMAIN ls, c \in Closers :
        /\ ls[k].is = "closer" /\ Balanced([ls EXCEPT ![k] = Ends(c)])
        /\ \A o \in 1 .. (k - 1) :
              IsOpener(ls[o]) /\ (\A j \in o .. (k - 1) :
                                    Depths([ls EXCEPT ![k] = Ends(c)])[j] >= Depths([ls EXCEPT ![k] = Ends(c)])[o])
                  => CloserOf[ls[o].name] # ls[k].name
  BY DEF OneMiswritten
<1>2. PICK l \in Brackets : l = Ends(c) /\ Closing(l)
  BY Lines DEF Brackets, Closing, Closers, Names0
<1>3. PICK meant : meant = [ls EXCEPT ![k] = l]
  OBVIOUS
<1>4. /\ k \in 1 .. Len(ls) /\ Len(ls) \in Nat /\ meant \in Seq(Brackets) /\ Len(meant) = Len(ls) /\ meant[k] = l
      /\ \A i \in 1 .. Len(ls) : i # k => meant[i] = ls[i]
  BY <1>3
<1>5. PICK g \in [0 .. Len(meant) -> Parses] : ParsedBy(meant, g)
  BY <1>4, ReadingSo
<1>6. /\ k - 1 \in Nat /\ k - 1 \in 0 .. Len(ls) /\ k \in 0 .. Len(ls) /\ k - 1 <= Len(ls)
      /\ \A i \in 1 .. k - 1 : i \in 1 .. Len(ls) /\ ls[i] = meant[i]
  BY <1>4
<1>7. /\ Balanced(meant)
      /\ \A o \in 1 .. k - 1 : IsOpener(meant[o]) /\ (\A j \in o .. k - 1 : Depths(meant)[j] >= Depths(meant)[o])
                                   => CloserOf[meant[o].name] # ls[k].name
  BY <1>1, <1>2, <1>3, <1>6
<1>8. f[k - 1] = g[k - 1]
  <2>1. PICK n \in Nat : n = k - 1
    BY <1>6
  <2>2. n <= Len(ls) /\ n <= Len(meant) /\ \A i \in 1 .. n : ls[i] = meant[i]
    BY <1>4, <1>6, <2>1
  <2>3. f[n] = g[n]
    BY <1>4, <1>5, <2>2, SameBefore
  <2> QED BY <2>1, <2>3
<1>9. PICK s \in Parses : s = f[k - 1]
  BY <1>6
<1>10. PICK a \in Parses : a = f[k]
  BY <1>6
<1>11. PICK b \in Parses : b = g[k]
  BY <1>4, <1>5, <1>6
<1>12. a = Takes(s, ls[k]) /\ b = Takes(s, l) /\ s.errors = 0 /\ b.errors = 0
  <2>1. f[k] = Takes(f[k - 1], ls[k]) /\ g[k] = Takes(g[k - 1], meant[k])
    BY <1>4, <1>5 DEF ParsedBy
  <2>2. \A i \in 0 .. Len(meant) : g[i].errors = 0
    BY <1>4, <1>5, <1>7, NoErrorOnTheWay
  <2> QED BY <1>4, <1>6, <1>8, <1>9, <1>10, <1>11, <2>1, <2>2
<1>13. Closing(ls[k]) /\ ls[k] \in Brackets
  <2>1. ls[k] \in Brackets
    BY <1>4
  <2> QED BY <1>1, <2>1, EachIsOne DEF Opening
<1>14. PICK n \in Nat : n = Len(s.stack)
  BY DEF Parses
<1>15. /\ n # 0 /\ Len(b.stack) = n - 1 /\ \A i \in 1 .. n - 1 : b.stack[i] = s.stack[i]
  <2>1. /\ Len(s.stack) # 0 /\ Len(b.stack) = Len(s.stack) - 1
        /\ \A i \in 1 .. Len(b.stack) : b.stack[i] = s.stack[i]
    <3>1. Closing(l)
      BY <1>2
    <3>2. b = Takes(s, l) /\ s.errors = 0 /\ b.errors = 0
      BY <1>12
    <3> QED BY <3>1, <3>2, EndsTheInnermost
  <2> QED BY <1>14, <2>1
<1>16. \A i \in 1 .. n : CloserOf[s.stack[i]] # ls[k].name
  <2>1. Sound(meant, k - 1, s)
    <3>1. Follows(meant, k - 1, g[k - 1])
      BY <1>4, <1>5, <1>6, AlwaysFollows
    <3> QED BY <1>8, <1>9, <1>12, <3>1 DEF Follows
  <2> TAKE i \in 1 .. n
  <2>2. Open0(meant, k - 1, i, s.stack[i])
    BY <1>14, <2>1 DEF Sound
  <2>3. PICK o \in 1 .. k - 1 : /\ IsOpener(meant[o]) /\ meant[o].name = s.stack[i] /\ Depths(meant)[o - 1] = i - 1
                                /\ \A q \in o .. k - 1 : Depths(meant)[q] >= i
    BY <2>2 DEF Open0
  <2>4. PICK d : d = Depths(meant)
    OBVIOUS
  <2>5. d[o] = i
    <3>1. o \in 1 .. Len(meant) /\ meant[o] \in Brackets
      BY <1>4, <1>6
    <3>2. d[o] = d[o - 1] + Step(meant[o])
      BY <1>4, <2>4, <3>1, DepthsAre
    <3>3. Step(meant[o]) = 1
      BY <2>3 DEF Step
    <3> QED BY <2>3, <2>4, <3>2, <3>3
  <2> QED BY <1>7, <2>3, <2>4, <2>5
<1>17. a.errors = 1 /\ Len(a.stack) = n - 1 /\ \A i \in 1 .. n - 1 : a.stack[i] = s.stack[i]
  <2>1. PICK m : m = Innermost(s.stack, ls[k].name)
    OBVIOUS
  <2>2. m = 0
    <3>1. m \in 0 .. n /\ (m # 0 => CloserOf[s.stack[m]] = ls[k].name)
      BY <1>14, <2>1, InnermostIs DEF Parses
    <3> QED BY <1>16, <3>1
  <2>3. /\ n # 0 /\ m = 0 => a.errors = s.errors + 1 /\ Len(a.stack) = n - 1
        /\ \A i \in 1 .. Len(a.stack) : i \in 1 .. n /\ a.stack[i] = s.stack[i]
    BY <1>12, <1>13, <1>14, <2>1, ClosingTakes, SMTT(30)
  <2> QED BY <1>12, <1>15, <2>2, <2>3
<1>18. Behind(a, b)
  <2>1. a.stack = b.stack
    <3>1. a.stack \in Seq(Names0) /\ b.stack \in Seq(Names0)
      BY DEF Parses
    <3> QED BY <1>15, <1>17, <3>1, SameSequence, SMTT(30)
  <2> QED BY <1>17, <2>1 DEF Behind
<1>19. /\ 0 \in {0, 1} /\ Len(meant) = Len(ls) + 0 /\ k + 0 = k
       /\ \A i \in k + 1 .. Len(ls) : meant[i + 0] = ls[i]
  <2>1. \A i \in k + 1 .. Len(ls) : i \in 1 .. Len(ls) /\ i # k /\ i + 0 = i
    BY <1>4
  <2> QED BY <1>4, <2>1
<1>20. Behind(f[k], g[k + 0])
  BY <1>10, <1>11, <1>18, <1>19
<1> QED BY <1>4, <1>5, <1>6, <1>7, <1>19, <1>20, OneMistakeAtTheEnd

(***************************************************************************)
(* The parser itself, while it reads such a view.                          *)
(***************************************************************************)
OpenBlocks == [name : Names0, line : Nat]
Reported == [line : Nat, what : {"neverOpened", "closesAnother", "neverClosed", "noPackageClause"}]
Built == [k : {"open", "close"}, name : Names0, line : Nat, depth : Nat, body : {<<>>}, word : {NoName},
          data : {FALSE}, bad : {FALSE}]

NamesOf(blocks) == [i \in 1 .. Len(blocks) |-> blocks[i].name]
AsParsed(blocks, found) == [stack |-> NamesOf(blocks), errors |-> Len(found)]

\* What was made of the lines is what the parser keeps, and all its errors at their end.
Agrees(ls, blocks, found) == \A f \in [0 .. Len(ls) -> Parses] : ParsedBy(ls, f) => f[Len(ls)] = AsParsed(blocks, found)
AllFound(ls, found) ==
    \A f \in [0 .. Len(ls) -> Parses] : ParsedBy(ls, f) => Len(found) = f[Len(ls)].errors + Len(f[Len(ls)].stack)

Typed == open \in Seq(OpenBlocks) /\ errs \in Seq(Reported) /\ nodes \in Seq(Built) /\ lines \in Seq(Brackets \cup {Is("tag"), Is("package")})

LEMMA MadeOf ==
    ASSUME NEW m \in Nat, NEW S, NEW f \in [1 .. m -> S]
    PROVE  f \in Seq(S) /\ Len(f) = m
OBVIOUS

LEMMA AsParsedIs ==
    ASSUME NEW blocks \in Seq(OpenBlocks), NEW found \in Seq(Reported)
    PROVE  /\ AsParsed(blocks, found) \in Parses
           /\ Len(AsParsed(blocks, found).stack) = Len(blocks) /\ AsParsed(blocks, found).errors = Len(found)
           /\ \A i \in 1 .. Len(blocks) : AsParsed(blocks, found).stack[i] = blocks[i].name
<1>1. PICK m \in Nat : m = Len(blocks)
  OBVIOUS
<1>2. NamesOf(blocks) \in [1 .. m -> Names0]
  <2>1. \A i \in 1 .. m : blocks[i] \in OpenBlocks
    BY <1>1
  <2>2. \A i \in 1 .. m : blocks[i].name \in Names0
    BY <2>1 DEF OpenBlocks
  <2> QED BY <1>1, <2>2 DEF NamesOf
<1>3. NamesOf(blocks) \in Seq(Names0) /\ Len(NamesOf(blocks)) = m
  BY <1>2, MadeOf
<1>4. \A i \in 1 .. m : NamesOf(blocks)[i] = blocks[i].name
  BY <1>1 DEF NamesOf
<1>5. Len(found) \in Nat
  OBVIOUS
<1> QED BY <1>1, <1>3, <1>4, <1>5 DEF AsParsed, Parses

\* A line more, read as it is made.
LEMMA OneLineMore ==
    ASSUME NEW ls \in Seq(Brackets), NEW l \in Brackets, NEW b0, NEW e0, NEW b1, NEW e1,
           Agrees(ls, b0, e0), AsParsed(b1, e1) = Takes(AsParsed(b0, e0), l)
    PROVE  Agrees(Append(ls, l), b1, e1)
<1> DEFINE more == Append(ls, l)
<1>1. PICK N \in Nat : N = Len(ls)
  OBVIOUS
<1>2. /\ more \in Seq(Brackets) /\ Len(more) = N + 1 /\ more[N + 1] = l
      /\ \A i \in 1 .. N : more[i] = ls[i]
  BY <1>1
<1> HIDE DEF more
<1> SUFFICES ASSUME NEW f \in [0 .. N + 1 -> Parses], ParsedBy(more, f) PROVE f[N + 1] = AsParsed(b1, e1)
  BY <1>2 DEF Agrees, more
<1> DEFINE g == [k \in 0 .. N |-> f[k]]
<1>3. g \in [0 .. N -> Parses]
  OBVIOUS
<1>4. ParsedBy(ls, g)
  <2>1. \A k \in 1 .. N : /\ k \in 0 .. N /\ k - 1 \in 0 .. N /\ k \in 1 .. N + 1
    OBVIOUS
  <2>2. g[0] = f[0] /\ \A k \in 1 .. N : g[k] = f[k] /\ g[k - 1] = f[k - 1]
    BY <2>1
  <2> HIDE DEF g
  <2>3. f[0] = Untouched /\ \A k \in 1 .. N + 1 : f[k] = Takes(f[k - 1], more[k])
    BY <1>2 DEF ParsedBy
  <2>4. \A k \in 1 .. N : g[k] = Takes(g[k - 1], ls[k])
    BY <1>2, <2>1, <2>2, <2>3
  <2> QED BY <1>1, <2>2, <2>3, <2>4 DEF ParsedBy
<1>5. g[N] = f[N]
  OBVIOUS
<1>6. g[N] = AsParsed(b0, e0)
  <2> HIDE DEF g
  <2> QED BY <1>1, <1>3, <1>4 DEF Agrees
<1>7. f[N + 1] = Takes(f[N], l)
  <2>1. N + 1 \in 1 .. N + 1 /\ (N + 1) - 1 = N
    OBVIOUS
  <2> QED BY <1>2, <2>1 DEF ParsedBy
<1> QED BY <1>5, <1>6, <1>7

\* A line that opens a block.
LEMMA OpensIt ==
    ASSUME Typed, NEW l \in Brackets, Opening(l), Body(l)
    PROVE  /\ open' \in Seq(OpenBlocks) /\ errs' \in Seq(Reported) /\ nodes' \in Seq(Built)
           /\ mode' = "body" /\ decls' = decls
           /\ AsParsed(open', errs') = Takes(AsParsed(open, errs), l)
<1>1. PICK b \in Names0 : l = Does(b)
  BY Lines DEF Brackets, Opening, Closers, Names0
<1>2. /\ l.is = "directive" /\ l.name = b /\ l.form = "whole" /\ l.word = NoName /\ l.data = FALSE /\ l.bad = FALSE
      /\ b \in Blocks /\ b # "go" /\ b \notin Inline
  BY <1>1 DEF Does, Line, Names0, Blocks, CloserOf, Inline
<1>3. Directive(l)
  BY <1>2 DEF Body
<1>4. Len(lines) + 1 \in Nat /\ Len(open) \in Nat
  BY DEF Typed
<1>5. /\ open' = Append(open, [name |-> b, line |-> LineNo])
      /\ mode' = "body" /\ decls' = decls
      /\ nodes' = Append(nodes, [Node("open", b, LineNo) EXCEPT !.word = NoName, !.data = FALSE, !.bad = FALSE])
      /\ errs' = errs \o (<<>> \o <<>>)
  BY <1>2, <1>3 DEF Directive, Fail, OneIf
<1>6. LineNo \in Nat
  BY <1>4 DEF LineNo
<1>7. [Node("open", b, LineNo) EXCEPT !.word = NoName, !.data = FALSE, !.bad = FALSE] \in Built
  BY <1>4, <1>6 DEF Node, Built
<1>8. nodes' \in Seq(Built)
  BY <1>5, <1>7 DEF Typed
<1>9. errs' = errs
  BY <1>5 DEF Typed
<1>10. open' \in Seq(OpenBlocks)
  BY <1>5, <1>6 DEF Typed, OpenBlocks
<1>11. AsParsed(open', errs') = [stack |-> Append(NamesOf(open), l.name), errors |-> Len(errs)]
  <2>1. PICK n \in Nat : n = Len(open)
    BY <1>4
  <2>2. NamesOf(open') = Append(NamesOf(open), b)
    <3>1. Len(open') = n + 1
      BY <1>5, <2>1 DEF Typed
    <3>2. /\ NamesOf(open) \in Seq(Names0) /\ Len(NamesOf(open)) = n
          /\ NamesOf(open') \in Seq(Names0) /\ Len(NamesOf(open')) = n + 1
      BY <1>9, <1>10, <2>1, <3>1, AsParsedIs DEF AsParsed, Parses, Typed
    <3>3. \A i \in 1 .. n + 1 : NamesOf(open')[i] = IF i = n + 1 THEN b ELSE NamesOf(open)[i]
      BY <1>5, <2>1 DEF NamesOf, Typed
    <3>4. /\ Append(NamesOf(open), b) \in Seq(Names0) /\ Len(Append(NamesOf(open), b)) = n + 1
          /\ \A i \in 1 .. n + 1 : Append(NamesOf(open), b)[i] = IF i = n + 1 THEN b ELSE NamesOf(open)[i]
      BY <3>2
    <3> QED BY <3>2, <3>3, <3>4, SameSequence
  <2> QED BY <1>2, <1>9, <2>2 DEF AsParsed
<1>12. Takes(AsParsed(open, errs), l) = [stack |-> Append(NamesOf(open), l.name), errors |-> Len(errs)]
  BY DEF Takes, AsParsed
<1> QED BY <1>5, <1>8, <1>9, <1>10, <1>11, <1>12 DEF Typed

\* The blocks that are closed, from the innermost down to one.
LEMMA ClosedDown ==
    ASSUME Typed, NEW k \in 1 .. Len(open) + 1, CloseDownTo(k)
    PROVE  /\ open' \in Seq(OpenBlocks) /\ nodes' \in Seq(Built)
           /\ NamesOf(open') = SubSeq(NamesOf(open), 1, k - 1)
<1>1. PICK n \in Nat : n = Len(open)
  BY DEF Typed
<1>2. /\ open' = SubSeq(open, 1, k - 1)
      /\ nodes' = nodes \o [i \in 1 .. (n - k + 1) |-> [Node("close", open[n + 1 - i].name, LineNo) EXCEPT !.depth = (n + 1 - i) - 1]]
  BY <1>1 DEF CloseDownTo
<1>3. open' \in Seq(OpenBlocks) /\ Len(open') = k - 1 /\ \A i \in 1 .. k - 1 : open'[i] = open[i]
  BY <1>1, <1>2 DEF Typed
<1>4. nodes' \in Seq(Built)
  <2> DEFINE closed == [i \in 1 .. (n - k + 1) |-> [Node("close", open[n + 1 - i].name, LineNo) EXCEPT !.depth = (n + 1 - i) - 1]]
  <2>1. n - k + 1 \in Nat
    BY <1>1
  <2>2. ASSUME NEW i \in 1 .. (n - k + 1)
        PROVE  [Node("close", open[n + 1 - i].name, LineNo) EXCEPT !.depth = (n + 1 - i) - 1] \in Built
    <3>1. n + 1 - i \in 1 .. n /\ (n + 1 - i) - 1 \in Nat
      BY <1>1
    <3>2. open[n + 1 - i] \in OpenBlocks
      BY <1>1, <3>1 DEF Typed
    <3>3. open[n + 1 - i].name \in Names0 /\ LineNo \in Nat
      BY <3>2 DEF OpenBlocks, LineNo, Typed
    <3> QED BY <3>1, <3>3 DEF Node, Built
  <2>3. closed \in [1 .. (n - k + 1) -> Built]
    BY <2>2
  <2> HIDE DEF closed
  <2>4. closed \in Seq(Built)
    BY <2>1, <2>3, MadeOf
  <2>5. nodes' = nodes \o closed
    BY <1>2 DEF closed
  <2> QED BY <2>4, <2>5 DEF Typed
<1>5. NamesOf(open') = SubSeq(NamesOf(open), 1, k - 1)
  <2>1. /\ NamesOf(open') \in Seq(Names0) /\ Len(NamesOf(open')) = k - 1
        /\ NamesOf(open) \in Seq(Names0) /\ Len(NamesOf(open)) = n
    BY <1>1, <1>3, AsParsedIs DEF AsParsed, Parses, Typed
  <2>2. /\ SubSeq(NamesOf(open), 1, k - 1) \in Seq(Names0) /\ Len(SubSeq(NamesOf(open), 1, k - 1)) = k - 1
        /\ \A i \in 1 .. k - 1 : SubSeq(NamesOf(open), 1, k - 1)[i] = NamesOf(open)[i]
    BY <1>1, <2>1
  <2>3. \A i \in 1 .. k - 1 : NamesOf(open')[i] = open[i].name /\ NamesOf(open)[i] = open[i].name
    BY <1>1, <1>3 DEF NamesOf
  <2> QED BY <2>1, <2>2, <2>3, SameSequence
<1> QED BY <1>3, <1>4, <1>5

\* The errors of the blocks that never closed.
LEMMA SoMany ==
    ASSUME Typed, NEW k \in 1 .. Len(open) + 1
    PROVE  NeverClosed(k, Len(open)) \in Seq(Reported) /\ Len(NeverClosed(k, Len(open))) = (Len(open) - k) + 1
<1>1. PICK n \in Nat : n = Len(open)
  BY DEF Typed
<1>2. PICK m \in Nat : m = n - k + 1
  BY <1>1
<1>3. ASSUME NEW i \in 1 .. m PROVE Error(open[n + 1 - i].line, "neverClosed") \in Reported
  <2>1. n + 1 - i \in 1 .. n
    BY <1>1, <1>2
  <2>2. open[n + 1 - i] \in OpenBlocks
    BY <1>1, <2>1 DEF Typed
  <2>3. open[n + 1 - i].line \in Nat
    BY <2>2 DEF OpenBlocks
  <2> QED BY <2>3 DEF Error, Reported
<1>4. NeverClosed(k, Len(open)) \in [1 .. m -> Reported]
  BY <1>1, <1>2, <1>3 DEF NeverClosed
<1>5. NeverClosed(k, Len(open)) \in Seq(Reported) /\ Len(NeverClosed(k, Len(open))) = m
  BY <1>4, MadeOf
<1> QED BY <1>1, <1>2, <1>5

\* A line that closes one.
LEMMA ClosesIt ==
    ASSUME Typed, NEW l \in Brackets, Closing(l), Body(l)
    PROVE  /\ open' \in Seq(OpenBlocks) /\ errs' \in Seq(Reported) /\ nodes' \in Seq(Built)
           /\ mode' = "body" /\ decls' = decls
           /\ AsParsed(open', errs') = Takes(AsParsed(open, errs), l)
<1>1. l.is = "closer" /\ ~ l.rest /\ ~ Opening(l)
  BY Lines, EachIsOne DEF Brackets, Closing, Closers, Names0
<1>2. Closer(l)
  BY <1>1 DEF Body
<1>3. PICK n \in Nat : n = Len(open)
  BY DEF Typed
<1>4. PICK stack \in Seq(Names0) : /\ stack = NamesOf(open) /\ Len(stack) = n
                                   /\ \A i \in 1 .. n : stack[i] = open[i].name
  <2>1. AsParsed(open, errs).stack = NamesOf(open)
    BY DEF AsParsed
  <2> QED BY <1>3, <2>1, AsParsedIs DEF Typed, Parses
<1>5. PICK k : k = Innermost(stack, l.name)
  OBVIOUS
<1>6. k \in 0 .. n /\ k = Enclosing(l.name)
  <2>1. DOMAIN open = 1 .. n /\ DOMAIN stack = 1 .. n
    BY <1>3, <1>4 DEF Typed
  <2>2. Waiting(stack, l.name) = {i \in DOMAIN open : CloserOf[open[i].name] = l.name}
    BY <1>4, <2>1 DEF Waiting
  <2>3. Enclosing(l.name) = Innermost(stack, l.name)
    BY <2>2 DEF Enclosing, Innermost
  <2> QED BY <1>4, <1>5, <2>3, InnermostIs
<1>7. mode' = "body" /\ decls' = decls
  BY <1>2 DEF Closer
<1>8. \/ open = <<>> /\ Fail(<<Error(LineNo, "neverOpened")>>) /\ UNCHANGED <<open, nodes>>
      \/ open # <<>> /\ k = 0 /\ Fail(<<>> \o <<Error(LineNo, "closesAnother")>>) /\ CloseDownTo(Len(open))
      \/ k # 0 /\ Fail(<<>> \o NeverClosed(k + 1, Len(open))) /\ CloseDownTo(k)
  BY <1>1, <1>2, <1>6 DEF Closer
<1>9. open = <<>> <=> n = 0
  BY <1>3 DEF Typed
<1>10. Takes(AsParsed(open, errs), l) =
         IF n = 0 THEN [stack |-> stack, errors |-> Len(errs) + 1]
         ELSE IF k = 0 THEN [stack |-> SubSeq(stack, 1, n - 1), errors |-> Len(errs) + 1]
         ELSE [stack |-> SubSeq(stack, 1, k - 1), errors |-> Len(errs) + (n - k)]
  <2>1. AsParsed(open, errs).stack = stack /\ AsParsed(open, errs).errors = Len(errs)
    BY <1>4 DEF AsParsed
  <2> QED BY <1>1, <1>4, <1>5, <2>1 DEF Takes
<1>11. Error(LineNo, "neverOpened") \in Reported /\ Error(LineNo, "closesAnother") \in Reported
  <2>1. LineNo \in Nat
    BY DEF LineNo, Typed
  <2> QED BY <2>1 DEF Error, Reported
<1>12. CASE n = 0
  <2>1. Fail(<<Error(LineNo, "neverOpened")>>) /\ open' = open /\ nodes' = nodes
    BY <1>6, <1>8, <1>9, <1>12
  <2>2. errs' \in Seq(Reported) /\ Len(errs') = Len(errs) + 1
    BY <1>11, <2>1 DEF Fail, Typed
  <2>3. AsParsed(open', errs') = [stack |-> stack, errors |-> Len(errs) + 1]
    BY <1>4, <2>1, <2>2 DEF AsParsed
  <2> QED BY <1>7, <1>10, <1>12, <2>1, <2>2, <2>3 DEF Typed
<1>13. CASE n # 0 /\ k = 0
  <2>1. Fail(<<>> \o <<Error(LineNo, "closesAnother")>>) /\ CloseDownTo(n) /\ n \in 1 .. Len(open) + 1
    BY <1>3, <1>8, <1>9, <1>13
  <2>2. errs' \in Seq(Reported) /\ Len(errs') = Len(errs) + 1
    BY <1>11, <2>1 DEF Fail, Typed
  <2>3. /\ open' \in Seq(OpenBlocks) /\ nodes' \in Seq(Built) /\ NamesOf(open') = SubSeq(stack, 1, n - 1)
    BY <1>4, <2>1, ClosedDown
  <2>4. AsParsed(open', errs') = [stack |-> SubSeq(stack, 1, n - 1), errors |-> Len(errs) + 1]
    BY <2>2, <2>3 DEF AsParsed
  <2> QED BY <1>7, <1>10, <1>13, <2>2, <2>3, <2>4
<1>14. CASE n # 0 /\ k # 0
  <2>1. Fail(<<>> \o NeverClosed(k + 1, Len(open))) /\ CloseDownTo(k) /\ k \in 1 .. Len(open) + 1 /\ k + 1 \in 1 .. Len(open) + 1
    BY <1>3, <1>6, <1>8, <1>9, <1>14
  <2>2. errs' \in Seq(Reported) /\ Len(errs') = Len(errs) + (n - k)
    <3>1. NeverClosed(k + 1, Len(open)) \in Seq(Reported) /\ Len(NeverClosed(k + 1, Len(open))) = (n - (k + 1)) + 1
      BY <1>3, <2>1, SoMany
    <3>2. (n - (k + 1)) + 1 = n - k
      BY <1>3, <1>6
    <3>3. PICK found \in Seq(Reported) : found = NeverClosed(k + 1, Len(open))
      BY <3>1
    <3>4. errs' = errs \o (<<>> \o found) /\ Len(found) = n - k
      BY <2>1, <3>1, <3>2, <3>3 DEF Fail
    <3>5. <<>> \o found = found
      OBVIOUS
    <3>6. errs \in Seq(Reported) /\ errs' = errs \o found
      BY <3>4, <3>5 DEF Typed
    <3>7. Len(errs \o found) = Len(errs) + Len(found) /\ errs \o found \in Seq(Reported)
      BY <3>6
    <3> QED BY <3>4, <3>6, <3>7
  <2>3. /\ open' \in Seq(OpenBlocks) /\ nodes' \in Seq(Built) /\ NamesOf(open') = SubSeq(stack, 1, k - 1)
    BY <1>4, <2>1, ClosedDown
  <2>4. AsParsed(open', errs') = [stack |-> SubSeq(stack, 1, k - 1), errors |-> Len(errs) + (n - k)]
    BY <2>2, <2>3 DEF AsParsed
  <2> QED BY <1>7, <1>10, <1>14, <2>2, <2>3, <2>4
<1> QED BY <1>6, <1>12, <1>13, <1>14

(***************************************************************************)
(* The invariant.  It speaks of the views that are made of such lines.     *)
(***************************************************************************)
Structured ==
    /\ family \in Families
    /\ family = "structure" =>
         /\ Typed /\ decls = <<>>
         /\ mode \in {"header", "tagged", "imports", "body", "ended", "parsed", "refused"}
         /\ mode = "header" => lines = <<>> /\ open = <<>> /\ errs = <<>>
         /\ mode = "tagged" => Len(lines) = 1 /\ open = <<>> /\ errs = <<>>
         /\ mode \in {"imports", "body"} =>
              Len(lines) >= 2 /\ BodyLines \in Seq(Brackets) /\ Agrees(BodyLines, open, errs)
         /\ mode \in {"ended", "parsed"} => BodyLines \in Seq(Brackets) /\ AllFound(BodyLines, errs)

LEMMA StructuredInit == KyseInit => Structured
<1> SUFFICES ASSUME KyseInit PROVE Structured
  OBVIOUS
<1>1. lines = <<>> /\ mode = "header" /\ open = <<>> /\ nodes = <<>> /\ decls = <<>> /\ errs = <<>> /\ family \in Families
  BY DEF KyseInit, Init
<1>2. Typed
  BY <1>1 DEF Typed
<1> QED BY <1>1, <1>2 DEF Structured

\* Nothing read yet, and nothing made of it.
LEMMA NothingRead == Agrees(<<>>, <<>>, <<>>)
<1>1. Len(<<>>) = 0
  OBVIOUS
<1>2. NamesOf(<<>>) = <<>>
  <2>1. NamesOf(<<>>) \in [1 .. 0 -> Names0]
    BY <1>1 DEF NamesOf
  <2> QED BY <2>1
<1> QED BY <1>1, <1>2 DEF Agrees, ParsedBy, Untouched, AsParsed

\* A line more is one more of the body.
LEMMA BodyGrows ==
    ASSUME NEW S, NEW ls \in Seq(S), Len(ls) >= 2, NEW l \in S, NEW more, more = Append(ls, l),
           SubSeq(ls, 3, Len(ls)) \in Seq(Brackets), l \in Brackets
    PROVE  SubSeq(more, 3, Len(more)) = Append(SubSeq(ls, 3, Len(ls)), l)
<1>1. PICK n \in Nat : n = Len(ls) /\ n >= 2
  OBVIOUS
<1>2. PICK old \in Seq(Brackets) : old = SubSeq(ls, 3, n)
  BY <1>1
<1>3. Len(old) = n - 2 /\ \A i \in 1 .. n - 2 : old[i] = ls[i + 2]
  BY <1>1, <1>2
<1>4. more \in Seq(S) /\ Len(more) = n + 1 /\ more[n + 1] = l /\ \A i \in 1 .. n : more[i] = ls[i]
  BY <1>1
<1>5. PICK new : new = SubSeq(more, 3, n + 1)
  OBVIOUS
<1>6. new \in Seq(S) /\ Len(new) = n - 1 /\ \A i \in 1 .. n - 1 : new[i] = more[i + 2]
  BY <1>1, <1>4, <1>5
<1>7. Append(old, l) \in Seq(Brackets) /\ Len(Append(old, l)) = n - 1 /\ Append(old, l)[n - 1] = l
      /\ \A i \in 1 .. n - 2 : Append(old, l)[i] = old[i]
  BY <1>1, <1>3
<1>8. \A i \in 1 .. n - 1 : new[i] = Append(old, l)[i]
  <2> TAKE i \in 1 .. n - 1
  <2>1. CASE i = n - 1
    BY <1>1, <1>4, <1>6, <1>7, <2>1
  <2>2. CASE i # n - 1
    <3>1. i \in 1 .. n - 2 /\ i + 2 \in 1 .. n
      BY <1>1, <2>2
    <3> QED BY <1>3, <1>4, <1>6, <1>7, <3>1
  <2> QED BY <2>1, <2>2
<1>9. new \in Seq(Brackets)
  <2>1. \A i \in 1 .. n - 1 : Append(old, l)[i] \in Brackets
    BY <1>7
  <2>2. new \in [1 .. n - 1 -> S] /\ n - 1 \in Nat
    BY <1>1, <1>6
  <2>3. \A i \in 1 .. n - 1 : new[i] \in Brackets
    BY <1>8, <2>1
  <2>4. new \in [1 .. n - 1 -> Brackets]
    BY <2>2, <2>3
  <2> QED BY <2>2, <2>4, MadeOf
<1>10. new = Append(old, l)
  BY <1>6, <1>7, <1>8, <1>9, SameSequence
<1> QED BY <1>1, <1>2, <1>4, <1>5, <1>10

LEMMA WriteKeeps ==
    ASSUME Structured, family = "structure", Write
    PROVE  Structured'
<1>1. family' = family /\ mode \notin {"refused", "ended", "parsed"}
  BY DEF Write
<1>2. PICK l \in Alphabet["structure"][mode] : Read(l)
  BY DEF Write
<1>3. /\ Alphabet["structure"]["header"] = {Is("tag")} /\ Alphabet["structure"]["tagged"] = {Is("package")}
      /\ Alphabet["structure"]["imports"] \subseteq Brackets /\ Alphabet["structure"]["body"] \subseteq Brackets
  BY StructureAssumption DEF Structured, Brackets, Names0
<1>4. lines' = Append(lines, l)
  BY <1>2 DEF Read
<1>5. /\ Typed /\ decls = <<>> /\ mode \in {"header", "tagged", "imports", "body"}
      /\ mode = "header" => lines = <<>> /\ open = <<>> /\ errs = <<>>
      /\ mode = "tagged" => Len(lines) = 1 /\ open = <<>> /\ errs = <<>>
      /\ mode \in {"imports", "body"} =>
              Len(lines) >= 2 /\ BodyLines \in Seq(Brackets) /\ Agrees(BodyLines, open, errs)
  BY <1>1 DEF Structured
<1>6. l \in Brackets \cup {Is("tag"), Is("package")} /\ lines' \in Seq(Brackets \cup {Is("tag"), Is("package")})
      /\ Len(lines') = Len(lines) + 1
  BY <1>3, <1>4, <1>5 DEF Typed
<1>7. CASE mode = "header"
  <2>1. l.is = "tag" /\ ~ l.bad
    BY <1>3, <1>7 DEF Is, Line
  <2>2. mode' = "tagged" /\ Fail(<<>>) /\ UNCHANGED <<since, open, nodes, decls>>
    BY <1>2, <1>7, <2>1 DEF Read, Header
  <2>3. errs' = <<>>
    BY <1>5, <1>7, <2>2 DEF Fail
  <2>4. Len(lines') = 1
    BY <1>4, <1>5, <1>7
  <2>5. Typed'
    BY <1>5, <1>6, <2>2, <2>3 DEF Typed
  <2> QED BY <1>1, <1>5, <1>7, <2>2, <2>3, <2>4, <2>5 DEF Structured
<1>8. CASE mode = "tagged"
  <2>1. l.is = "package" /\ ~ l.bad
    BY <1>3, <1>8 DEF Is, Line
  <2>2. mode' = "imports" /\ Fail(<<>>) /\ UNCHANGED <<since, open, nodes, decls>>
    BY <1>2, <1>8, <2>1 DEF Read, Header
  <2>3. errs' = <<>> /\ open' = <<>>
    BY <1>5, <1>8, <2>2 DEF Fail
  <2>4. Len(lines') = 2
    <3>1. Len(lines) = 1
      BY <1>5, <1>8
    <3> QED BY <1>6, <3>1
  <2>5. BodyLines' = <<>>
    <3>1. PICK S : lines' \in Seq(S)
      BY <1>6
    <3>2. SubSeq(lines', 3, 2) = <<>>
      BY <3>1, <2>4
    <3> QED BY <2>4, <3>2 DEF BodyLines
  <2>6. Typed'
    BY <1>5, <1>6, <2>2, <2>3 DEF Typed
  <2>7. Agrees(BodyLines', open', errs') /\ BodyLines' \in Seq(Brackets)
    BY <2>3, <2>5, NothingRead
  <2> QED BY <1>1, <1>5, <2>2, <2>3, <2>4, <2>6, <2>7 DEF Structured
<1>9. CASE mode \in {"imports", "body"}
  <2>1. l \in Brackets
    BY <1>3, <1>9
  <2>2. Body(l)
    <3>1. CASE mode = "imports"
      <4>1. l.is \in {"directive", "closer"}
        BY <2>1, EachIsOne DEF Opening, Closing
      <4>2. Imports(l)
        BY <1>2, <3>1 DEF Read
      <4> QED BY <4>1, <4>2 DEF Imports
    <3>2. CASE mode = "body"
      BY <1>2, <3>2 DEF Read
    <3> QED BY <1>9, <3>1, <3>2
  <2>3. /\ open' \in Seq(OpenBlocks) /\ errs' \in Seq(Reported) /\ nodes' \in Seq(Built)
        /\ mode' = "body" /\ decls' = decls
        /\ AsParsed(open', errs') = Takes(AsParsed(open, errs), l)
    BY <1>5, <2>1, <2>2, EachIsOne, OpensIt, ClosesIt
  <2>4. BodyLines' = Append(BodyLines, l)
    BY <1>4, <1>5, <1>6, <1>9, <2>1, BodyGrows DEF BodyLines, Typed
  <2>5. Agrees(BodyLines', open', errs') /\ BodyLines' \in Seq(Brackets)
    BY <1>5, <1>9, <2>1, <2>3, <2>4, OneLineMore
  <2>6. Typed'
    BY <1>6, <2>3 DEF Typed
  <2>7. Len(lines') >= 2
    BY <1>5, <1>6, <1>9 DEF Typed
  <2> QED BY <1>1, <1>5, <2>3, <2>5, <2>6, <2>7 DEF Structured
<1> QED BY <1>5, <1>7, <1>8, <1>9

\* A file of such lines extends nothing and declares nothing.
LEMMA NothingMissing ==
    ASSUME Typed, decls = <<>>
    PROVE  Assembled = <<>> /\ TypeErrors = <<>>
<1>1. \A i \in DOMAIN nodes : nodes[i].k # "do"
  <2>1. \A i \in DOMAIN nodes : nodes[i] \in Built
    BY DEF Typed
  <2>2. \A n \in Built : n.k # "do"
    BY DEF Built
  <2> QED BY <2>1, <2>2
<1>2. \A name : At("do", name) = {}
  BY <1>1 DEF At
<1>3. Extends = {} /\ ~ IsLayout
  BY <1>2 DEF Extends, IsLayout
<1>4. Assembled = <<>>
  <2>1. Cardinality({}) = 0
    BY FS_EmptySet
  <2>2. 1 .. 0 - 1 = {}
    OBVIOUS
  <2>3. Cardinality(Extends) = 0
    BY <1>3, <2>1
  <2>4. [i \in 1 .. Cardinality(Extends) - 1 |-> Error(0, "extendsTwice")] \in [1 .. 0 -> {Error(0, "extendsTwice")}]
    BY <2>2, <2>3
  <2>5. [i \in 1 .. Cardinality(Extends) - 1 |-> Error(0, "extendsTwice")] = <<>>
    BY <2>4
  <2>6. Assembled = [i \in 1 .. Cardinality(Extends) - 1 |-> Error(0, "extendsTwice")] \o <<>>
    BY <1>3 DEF Assembled
  <2> QED BY <2>5, <2>6
<1>5. \A kinds : OfKind(decls, kinds) = {}
  BY DEF OfKind
<1>6. \A kinds : FirstType(decls, kinds) = NoType
  BY <1>5 DEF FirstType
<1>7. PageType = NoType /\ Draws = NoType
  <2>1. Types(decls) = {}
    BY <1>5 DEF Types
  <2>2. Readable(decls)
    BY DEF Readable
  <2>3. ~(Cardinality(Types(decls)) > 1)
    BY <2>1, FS_EmptySet
  <2>4. {i \in Types(decls) : Marked(decls, decls[i])} = {}
    BY <2>1
  <2>5. First(decls) = NoType
    BY <1>6 DEF First
  <2>6. PageChoice(decls, FALSE) = NoType
    BY <2>2, <2>3, <2>4, <2>5 DEF PageChoice
  <2> QED BY <1>3, <2>6 DEF PageType, Draws, RenderType
<1>8. TypeErrors = <<>>
  <2>1. NoType.line = 0 /\ NoType.ambiguous = {}
    BY DEF NoType
  <2>2. Usable(decls, NoType)
    BY <2>1 DEF Usable
  <2>3. Cardinality({}) = 0
    BY FS_EmptySet
  <2>4. TypeErrors = (<<>> \o <<>>) \o <<>>
    BY <1>3, <1>7, <2>1, <2>2, <2>3 DEF TypeErrors, OneIf
  <2> QED BY <2>4
<1> QED BY <1>4, <1>8

LEMMA ParseKeeps ==
    ASSUME Structured, family = "structure", Parse
    PROVE  Structured'
<1>1. family' = family /\ Typed /\ decls = <<>>
  BY DEF Parse, Structured
<1>2. CASE EndOfSource
  <2>1. /\ mode \in {"header", "tagged", "imports", "body"} /\ lines' = lines /\ decls' = <<>>
        /\ mode = "header" => lines = <<>> /\ open = <<>> /\ errs = <<>>
        /\ mode = "tagged" => Len(lines) = 1 /\ open = <<>> /\ errs = <<>>
        /\ mode \in {"imports", "body"} =>
              Len(lines) >= 2 /\ BodyLines \in Seq(Brackets) /\ Agrees(BodyLines, open, errs)
    BY <1>1, <1>2 DEF EndOfSource, Structured
  <2>2. CASE mode \in {"header", "tagged"}
    <3>1. mode' = "refused" /\ errs' = errs \o <<Error(1, "noPackageClause")>> /\ open' = open /\ nodes' = nodes
      BY <1>2, <2>2 DEF EndOfSource, Fail
    <3>2. Error(1, "noPackageClause") \in Reported
      BY DEF Error, Reported
    <3>3. errs' \in Seq(Reported)
      BY <1>1, <3>1, <3>2 DEF Typed
    <3>4. Typed'
      BY <1>1, <2>1, <3>1, <3>3 DEF Typed
    <3> QED BY <1>1, <2>1, <3>1, <3>4 DEF Structured
  <2>3. CASE mode \in {"imports", "body"}
    <3>1. mode' = "ended" /\ Fail(Unfinished) /\ CloseDownTo(1)
      BY <1>2, <2>3 DEF EndOfSource
    <3>2. PICK found \in Seq(Reported) : found = NeverClosed(1, Len(open)) /\ Len(found) = Len(open)
      <4>1. PICK n \in Nat : n = Len(open)
        BY <1>1 DEF Typed
      <4>2. 1 \in 1 .. Len(open) + 1 /\ (n - 1) + 1 = n
        BY <4>1
      <4> QED BY <1>1, <4>1, <4>2, SoMany
    <3>3. Unfinished = (<<>> \o <<>>) \o found
      BY <2>3, <3>2 DEF Unfinished, OneIf
    <3>4. errs \in Seq(Reported) /\ errs' = errs \o found
      BY <1>1, <3>1, <3>2, <3>3 DEF Fail, Typed
    <3>5. errs' \in Seq(Reported) /\ Len(errs') = Len(errs) + Len(open)
      <4>1. Len(errs \o found) = Len(errs) + Len(found) /\ errs \o found \in Seq(Reported)
        BY <3>4
      <4> QED BY <3>2, <3>4, <4>1
    <3>6. open' \in Seq(OpenBlocks) /\ nodes' \in Seq(Built)
      <4>1. 1 \in 1 .. Len(open) + 1
        BY <1>1 DEF Typed
      <4> QED BY <1>1, <3>1, <4>1, ClosedDown
    <3>7. Typed'
      BY <1>1, <2>1, <3>5, <3>6 DEF Typed
    <3>8. BodyLines' = BodyLines
      BY <2>1 DEF BodyLines
    <3>9. AllFound(BodyLines, errs')
      <4>1. AsParsed(open, errs).errors = Len(errs) /\ Len(AsParsed(open, errs).stack) = Len(open)
        BY <1>1, AsParsedIs DEF Typed
      <4> QED BY <2>1, <2>3, <3>5, <4>1 DEF Agrees, AllFound
    <3> QED BY <1>1, <2>1, <2>3, <3>1, <3>7, <3>8, <3>9 DEF Structured
  <2> QED BY <2>1, <2>2, <2>3
<1>3. CASE Assemble
  <2>1. /\ mode = "ended" /\ mode' = "parsed" /\ errs' = errs \o (Assembled \o TypeErrors)
        /\ UNCHANGED <<lines, since, open, nodes, decls>>
    BY <1>3 DEF Assemble, Fail
  <2>2. errs' = errs
    <3>1. errs \o (<<>> \o <<>>) = errs
      BY <1>1 DEF Typed
    <3> QED BY <1>1, <2>1, <3>1, NothingMissing
  <2>3. Typed' /\ BodyLines' = BodyLines
    BY <1>1, <2>1, <2>2 DEF Typed, BodyLines
  <2>4. BodyLines \in Seq(Brackets) /\ AllFound(BodyLines, errs)
    BY <1>1, <2>1 DEF Structured
  <2> QED BY <1>1, <2>1, <2>2, <2>3, <2>4 DEF Structured
<1> QED BY <1>2, <1>3 DEF Parse

\* The generator and the page leave what was parsed alone.
LEMMA LaterSteps ==
    ASSUME Compile \/ Draw \/ UNCHANGED vars
    PROVE  parser' = parser /\ family' = family
<1>1. CASE Compile
  <2>1. family' = family /\ Generate
    BY <1>1 DEF Compile
  <2>2. parser' = parser
    <3>1. ASSUME NEW i, Reaches(i) PROVE parser' = parser
      BY <3>1 DEF Reaches
    <3>2. CASE Start \/ EndOfPart \/ Format
      BY <3>2 DEF Start, EndOfPart, Format
    <3>3. ASSUME NEW i \in DOMAIN nodes,
                 \/ WriteText(i) \/ Echo(i) \/ Raw(i) \/ CallsOut(i) \/ Attributes(i) \/ Else(i) \/ Jump(i)
                 \/ Open(i) \/ SkipSection(i) \/ SecondHalf(i) \/ EmptyHalf(i) \/ CloseBlock(i)
          PROVE  parser' = parser
      <4>1. Reaches(i)
        BY <3>3 DEF WriteText, Echo, Raw, CallsOut, Attributes, Else, Jump, Open, SkipSection, SecondHalf, EmptyHalf, CloseBlock
      <4> QED BY <3>1, <4>1
    <3> QED BY <2>1, <3>2, <3>3 DEF Generate
  <2> QED BY <2>1, <2>2
<1>2. CASE Draw
  <2>1. CASE Request \/ DrawPart
    BY <2>1 DEF Request, DrawPart
  <2>2. ASSUME NEW i \in DOMAIN nodes,
               DrawMarkup(i) \/ DrawIf(i) \/ DrawElse(i) \/ DrawLoop(i) \/ DrawNothing(i) \/ DrawEnd(i) \/ DrawJump(i)
        PROVE  parser' = parser /\ family' = family
    <3>1. Drawing(i)
      BY <2>2 DEF DrawMarkup, DrawIf, DrawElse, DrawLoop, DrawNothing, DrawEnd, DrawJump, Flow
    <3> QED BY <3>1 DEF Drawing
  <2> QED BY <1>2, <2>1, <2>2 DEF Draw
<1>3. CASE UNCHANGED vars
  BY <1>3 DEF vars
<1> QED BY <1>1, <1>2, <1>3

LEMMA StructuredStep == Structured /\ [KyseNext]_vars => Structured'
<1> SUFFICES ASSUME Structured, [KyseNext]_vars PROVE Structured'
  OBVIOUS
<1>1. family' = family
  BY LaterSteps DEF KyseNext, Write, Parse
<1>2. CASE family # "structure"
  BY <1>1, <1>2 DEF Structured
<1>3. CASE family = "structure" /\ parser' = parser
  <2>1. /\ lines' = lines /\ mode' = mode /\ open' = open /\ nodes' = nodes /\ decls' = decls /\ errs' = errs
    BY <1>3 DEF parser
  <2>2. BodyLines' = BodyLines /\ Typed' = Typed
    BY <2>1 DEF BodyLines, Typed
  <2> QED BY <1>1, <2>1, <2>2 DEF Structured
<1>4. CASE family = "structure" /\ Write
  BY <1>4, WriteKeeps
<1>5. CASE family = "structure" /\ Parse
  BY <1>5, ParseKeeps
<1> QED BY <1>2, <1>3, <1>4, <1>5, LaterSteps DEF KyseNext

\* Of the views made of blocks, of any length: one whose blocks close in order
\* is accepted, and one with a closer left out, or with one written that nobody
\* there waits for, is refused with one error (parse.go's close, enclosing and
\* openUnclosed).
THEOREM OneMistakeIsOneError == KyseSpec => []OneMistakeOneError
<1>1. Structured => OneMistakeOneError
  <2> SUFFICES ASSUME Structured, mode = "parsed", family = "structure"
               PROVE  /\ errs = <<>> <=> Balanced(BodyLines)
                      /\ ~ Balanced(BodyLines) /\ (OneLeftOut(BodyLines) \/ OneMiswritten(BodyLines)) => Len(errs) = 1
    BY DEF OneMistakeOneError
  <2>1. PICK ls \in Seq(Brackets) : ls = BodyLines
    BY DEF Structured
  <2>2. PICK f \in [0 .. Len(ls) -> Parses] : ParsedBy(ls, f)
    BY ReadingSo
  <2>3. Len(errs) = f[Len(ls)].errors + Len(f[Len(ls)].stack) /\ errs \in Seq(Reported)
    BY <2>1, <2>2 DEF Structured, AllFound, Typed
  <2>4. PICK s \in Parses : s = f[Len(ls)]
    BY <2>2
  <2>5. errs = <<>> <=> s.errors = 0 /\ s.stack = <<>>
    <3>1. s.errors \in Nat /\ s.stack \in Seq(Names0)
      BY DEF Parses
    <3>2. errs = <<>> <=> Len(errs) = 0
      BY <2>3
    <3>3. s.stack = <<>> <=> Len(s.stack) = 0
      BY <3>1
    <3> QED BY <2>3, <2>4, <3>1, <3>2, <3>3
  <2>6. errs = <<>> <=> Balanced(ls)
    BY <2>2, <2>4, <2>5, BalancedIs
  <2>7. OneLeftOut(ls) \/ OneMiswritten(ls) => Len(errs) = 1
    BY <2>2, <2>3, LeftOut, Miswritten
  <2> QED BY <2>1, <2>6, <2>7
<1>2. Structured /\ [KyseNext]_vars => Structured'
  BY StructuredStep
<1> QED BY <1>1, <1>2, StructuredInit, PTL DEF KyseSpec
=============================================================================
