--------------------------- MODULE JourneysProofs ---------------------------
(***************************************************************************)
(* Proofs about the view compiler (ViewCompile): what a build that reports *)
(* leaves behind, for every tree of views, every order of them and every   *)
(* number of revisions.  And about the browser of `aru mcp`                *)
(* (BrowserSession), as MCJourneys composes it: for any number of calls    *)
(* and of errors.  About the recorder (Recorder): for every table of       *)
(* routes, every site and every walk over it.  And about `aru test`        *)
(* (TestRun): for every suite, every line and any number of machines.      *)
(*                                                                         *)
(* What makes the browser right: a call that does something holds the      *)
(* lock; the driver and the page differ only while one opens a page; an    *)
(* error waits untold, and whoever tells it failed.  What makes the        *)
(* recorder right: a name and its parameters lead back to the address they *)
(* were read from, and the journey of what was reported is where the       *)
(* person is, at every moment.  What makes the tests right: a line and     *)
(* what is left of it for go test name the same tags and the same -run,    *)
(* argument after argument, and the calls of a machine divide what is its  *)
(* own, which no other machine runs.                                       *)
(***************************************************************************)
EXTENDS MCJourneys, Integers, WellFoundedInduction, SequenceTheorems, FiniteSetTheorems, TLAPS

\* What NothingOutOfDate asks of one source.
Handled(v) ==
    IF v \in problems THEN out[v].kind # "compiled"
    ELSE out[v].kind = "compiled" /\ out[v].rev >= begin[v]

\* What Inherits asks of one source, and what the build knows of a layout.
OwnType(v) ==
    v \notin problems \cup Declares /\ v \notin Layouts =>
        \A l \in ((found \cap Layouts) \cap Declares) \ problems :
            l = Extends[v] => out[v].type = out[l].rev

Published(v) == v \in Declares /\ v \notin problems => inherited[v] = out[v].rev

\* The sources behind the loop, those ahead of it, and the one it writes.
Behind ==
    pc # "idle" => \A v \in found \ todo :
        /\ Handled(v) /\ OwnType(v)
        /\ v \notin Layouts => todo \cap Layouts = {}

Ahead == pc = "read" => todo \cap problems = {}

Known == pc \in {"read", "write"} => \A v \in found \ todo : Published(v)

Writing ==
    pc = "write" =>
        /\ todo \cap problems \subseteq {view}
        /\ IF view \in problems THEN pending.kind # "compiled"
           ELSE /\ pending.kind = "compiled" /\ pending.rev >= begin[view]
                /\ view \in Declares => inherited[view] = pending.rev
        /\ view \notin Layouts => todo \cap Layouts = {}
        /\ view \notin problems \cup Declares /\ view \notin Layouts =>
            \A l \in ((found \cap Layouts) \cap Declares) \ problems :
                l = Extends[view] => pending.type = out[l].rev

\* A source only moves forward, or goes away.
Forward ==
    /\ \A v \in Views : src[v] <= saves
    /\ pc # "idle" => \A v \in found : begin[v] <= saves /\ (src[v] # 0 => begin[v] <= src[v])

Swept ==
    /\ pc \in {"prune", "style"} => todo = {}
    /\ pc = "style" => problems = {}
    /\ pc = "style" /\ project /\ found # {} => \A v \in Views \ found : out[v].kind = "absent"

Left ==
    /\ Reported => \A v \in found : Handled(v) /\ OwnType(v)
    /\ NoOrphans /\ EnsureIsEnough

IInv == TypeOK /\ Behind /\ Ahead /\ Known /\ Writing /\ Forward /\ Swept /\ Left


(***************************************************************************)
(* Facts about the operators.                                              *)
(***************************************************************************)
\* The outputs the build writes are outputs.
LEMMA OutputTypes ==
    /\ Absent \in Outputs /\ Torn \in Outputs /\ StandIn \in Outputs
    /\ \A r, t \in 0 .. MaxSaves : Compiled(r, t) \in Outputs
    /\ Absent.kind = "absent" /\ Torn.kind = "torn" /\ StandIn.kind = "stand-in"
    /\ \A r, t : /\ Compiled(r, t).kind = "compiled"
                 /\ Compiled(r, t).rev = r /\ Compiled(r, t).type = t
BY MaxSavesPos DEF Absent, Torn, StandIn, Compiled, Output, Outputs

\* A page comes up only when no layout is left: layouts sort first.
LEMMA LayoutsFirst ==
    ASSUME NEW v \in Views, First(v), v \notin Layouts
    PROVE  todo \cap Layouts = {}
BY DEF First, Before

LEMMA DataTypeType ==
    ASSUME TypeOK, NEW v \in Views
    PROVE  DataType(v) \in 0 .. MaxSaves
<1>1. src[v] \in 0 .. MaxSaves /\ 0 \in 0 .. MaxSaves
  BY MaxSavesPos DEF TypeOK
<1>2. Extends[v] # NoView => inherited[Extends[v]] \in 0 .. MaxSaves
  <2>1. Extends[v] # NoView => Extends[v] \in Views
    BY ExtendsViews
  <2>2. QED
    BY <2>1 DEF TypeOK
<1>3. QED
  BY <1>1, <1>2 DEF DataType

(***************************************************************************)
(* Type correctness.                                                       *)
(***************************************************************************)
LEMMA TypeStep == TypeOK /\ [Next]_vars => TypeOK'
<1> SUFFICES ASSUME TypeOK, [Next]_vars PROVE TypeOK'
  OBVIOUS
<1> USE MaxSavesPos, OutputTypes DEF TypeOK, tree, seen
<1> HIDE DEF Absent, Torn, StandIn, Compiled, Outputs
<1>1. ASSUME NEW v \in Views, Save(v) PROVE TypeOK'
  BY <1>1 DEF Save, Revisions
<1>2. ASSUME NEW v \in Views, Delete(v) PROVE TypeOK'
  BY <1>2 DEF Delete
<1>3. ASSUME NEW v \in Views, Accept(v) PROVE TypeOK'
  <2> DEFINE fresh == Compiled(src[v], DataType(v))
  <2>1. fresh \in Outputs /\ v \in todo /\ src[v] \in 0 .. MaxSaves
    BY <1>3, DataTypeType DEF Accept, First
  <2>2. inherited' \in [Views -> 0 .. MaxSaves]
    BY <1>3 DEF Accept, Publish
  <2>3. UNCHANGED <<tree, styled, problems, seen, result>>
    BY <1>3 DEF Accept
  <2> HIDE DEF fresh
  <2>4. CASE Advance(v) /\ UNCHANGED out
    BY <2>1, <2>2, <2>3, <2>4 DEF Advance, AfterLast
  <2>5. CASE Truncate(v, fresh)
    BY <2>1, <2>2, <2>3, <2>5 DEF Truncate
  <2>6. QED
    BY <1>3, <2>4, <2>5 DEF Accept, fresh
<1>4. ASSUME NEW v \in Views, Refuse(v) PROVE TypeOK'
  <2>1. v \in todo /\ src[v] \in 0 .. MaxSaves
    BY <1>4 DEF Refuse, First
  <2>2. inherited' \in [Views -> 0 .. MaxSaves]
    BY <1>4 DEF Refuse, Publish
  <2>3. UNCHANGED <<tree, styled, seen, result>> /\ problems' \subseteq found
    BY <1>4, <2>1 DEF Refuse
  <2>4. CASE Advance(v) /\ UNCHANGED out
    BY <2>1, <2>2, <2>3, <2>4 DEF Advance, AfterLast
  <2>5. CASE Truncate(v, StandIn)
    BY <2>1, <2>2, <2>3, <2>5 DEF Truncate
  <2>6. QED
    BY <1>4, <2>4, <2>5 DEF Refuse, Invalidate
<1>5. ASSUME NEW v \in Views, Prune(v) PROVE TypeOK'
  BY <1>5 DEF Prune
<1>6. CASE Clone
  BY <1>6 DEF Clone
<1>7. CASE Find
  BY <1>7 DEF Find, Untyped, Sources
<1>8. CASE EnsureSkips
  BY <1>8 DEF EnsureSkips, Sources
<1>9. CASE Write
  BY <1>9 DEF Write, Advance, AfterLast
<1>10. CASE Report
  BY <1>10 DEF Report, End, Untyped
<1>11. CASE Style
  BY <1>11 DEF Style, End, Untyped
<1>12. CASE Fail
  BY <1>12 DEF Fail, End, Untyped
<1>13. CASE UNCHANGED vars
  BY <1>13 DEF vars
<1>14. QED
  BY <1>1, <1>2, <1>3, <1>4, <1>5, <1>6, <1>7, <1>8, <1>9, <1>10, <1>11, <1>12, <1>13
     DEF Next, ViewBuild, EnsureBuilds

LEMMA TypeInit == Init => TypeOK
<1> SUFFICES ASSUME Init PROVE TypeOK
  OBVIOUS
<1>1. 1 \in Revisions /\ \A r \in {0, 1} : r \in 0 .. MaxSaves
  BY MaxSavesPos DEF Revisions
<1>2. src \in [Views -> 0 .. MaxSaves] /\ inherited \in [Views -> 0 .. MaxSaves] /\ begin \in [Views -> 0 .. MaxSaves]
  BY <1>1 DEF Init, Untyped
<1>3. out \in [Views -> Outputs] /\ pending \in Outputs
  BY OutputTypes DEF Init
<1>4. QED
  BY <1>1, <1>2, <1>3 DEF Init, TypeOK

\* Every value stays within its type, and the loop within its list.
THEOREM TypeCorrect == Spec => []TypeOK
BY TypeInit, TypeStep, PTL DEF Spec

(***************************************************************************)
(* The invariant through one step of the loop over the sources.            *)
(***************************************************************************)
\* A source leaves the loop compiled as it is, refused, or once written.
LEMMA StepDone ==
    ASSUME IInv, TypeOK', NEW v \in todo, pc \in {"read", "write"}, Advance(v),
           UNCHANGED <<tree, styled, seen, result>>,
           problems' \cap (Views \ {v}) = problems \cap (Views \ {v}),
           \A w \in Views \ {v} : out'[w] = out[w] /\ inherited'[w] = inherited[w],
           todo \cap problems \subseteq {v},
           v \notin Layouts => todo \cap Layouts = {},
           Handled(v)', Published(v)',
           v \notin problems' \cup Declares /\ v \notin Layouts =>
               \A l \in ((found \cap Layouts) \cap Declares) \ problems :
                   l = Extends[v] => out'[v].type = out[l].rev
    PROVE  IInv'
<1>1. /\ todo' = todo \ {v} /\ found' = found /\ begin' = begin /\ src' = src /\ saves' = saves
      /\ pc' \in {"read", "prune"} /\ (pc' = "prune" => todo' = {})
      /\ v \in Views /\ v \in found /\ found \subseteq Views /\ todo \subseteq found
  BY DEF Advance, AfterLast, tree, seen, IInv, TypeOK
<1>2. \A w \in found \ todo : Handled(w) /\ OwnType(w) /\ Published(w) /\ (w \notin Layouts => todo \cap Layouts = {})
  BY DEF IInv, Behind, Known
<1>3. \A w \in found \ todo : Handled(w)' /\ Published(w)'
  BY <1>1, <1>2 DEF Handled, Published
<1>4. ASSUME NEW w \in found \ todo PROVE OwnType(w)'
  <2>1. CASE w \in Layouts
    BY <2>1 DEF OwnType
  <2>2. CASE w \notin Layouts
    <3>1. todo \cap Layouts = {}
      BY <1>2, <2>2
    <3>2. \A l \in found \cap Layouts : l # v /\ l \in Views
      BY <1>1, <3>1
    <3>3. w # v /\ w \in Views
      BY <1>1
    <3>4. OwnType(w)
      BY <1>2
    <3>5. QED
      BY <1>1, <3>2, <3>3, <3>4 DEF OwnType
  <2>3. QED
    BY <2>1, <2>2
<1>5. OwnType(v)'
  <2>1. CASE v \in Layouts
    BY <2>1 DEF OwnType
  <2>2. CASE v \notin Layouts
    <3>1. \A l \in found \cap Layouts : l # v /\ l \in Views /\ out'[l] = out[l] /\ (l \in problems <=> l \in problems')
      BY <1>1, <2>2
    <3>2. QED
      BY <1>1, <2>2, <3>1 DEF OwnType
  <2>3. QED
    BY <2>1, <2>2
<1>6. Behind'
  BY <1>1, <1>2, <1>3, <1>4, <1>5 DEF Behind
<1>7. Ahead'
  BY <1>1 DEF Ahead
<1>8. Known'
  BY <1>1, <1>3 DEF Known
<1>9. Forward'
  BY <1>1 DEF Forward, IInv
<1>10. Writing' /\ Swept' /\ Left'
  BY <1>1 DEF Writing, Swept, Left, Reported, NoOrphans, EnsureIsEnough
<1>11. QED
  BY <1>6, <1>7, <1>8, <1>9, <1>10 DEF IInv

\* The output of a source is cut short, and what will be written is known.
LEMMA StepWriting ==
    ASSUME IInv, TypeOK', NEW v \in todo, NEW content, pc = "read", Truncate(v, content),
           UNCHANGED <<tree, styled, seen, result>>,
           problems' \cap (Views \ {v}) = problems \cap (Views \ {v}),
           \A w \in Views \ {v} : inherited'[w] = inherited[w],
           v \notin Layouts => todo \cap Layouts = {},
           IF v \in problems' THEN content.kind # "compiled"
           ELSE /\ content.kind = "compiled" /\ content.rev >= begin[v]
                /\ v \in Declares => inherited'[v] = content.rev,
           v \notin problems' \cup Declares /\ v \notin Layouts =>
               \A l \in ((found \cap Layouts) \cap Declares) \ problems :
                   l = Extends[v] => content.type = out[l].rev
    PROVE  IInv'
<1>1. /\ todo' = todo /\ found' = found /\ begin' = begin /\ src' = src /\ saves' = saves
      /\ pc' = "write" /\ view' = v /\ pending' = content
      /\ \A w \in Views \ {v} : out'[w] = out[w]
      /\ v \in Views /\ v \in found /\ found \subseteq Views /\ todo \subseteq found
  BY DEF Truncate, tree, seen, IInv, TypeOK
<1>2. \A w \in found \ todo : Handled(w) /\ OwnType(w) /\ Published(w) /\ (w \notin Layouts => todo \cap Layouts = {})
  BY DEF IInv, Behind, Known
<1>3. \A w \in found \ todo : Handled(w)' /\ Published(w)'
  BY <1>1, <1>2 DEF Handled, Published
<1>4. ASSUME NEW w \in found \ todo PROVE OwnType(w)'
  <2>1. CASE w \in Layouts
    BY <2>1 DEF OwnType
  <2>2. CASE w \notin Layouts
    <3>1. todo \cap Layouts = {}
      BY <1>2, <2>2
    <3>2. \A l \in found \cap Layouts : l # v /\ l \in Views
      BY <1>1, <3>1
    <3>3. w # v /\ w \in Views
      BY <1>1
    <3>4. OwnType(w)
      BY <1>2
    <3>5. QED
      BY <1>1, <3>2, <3>3, <3>4 DEF OwnType
  <2>3. QED
    BY <2>1, <2>2
<1>5. Behind'
  BY <1>1, <1>2, <1>3, <1>4 DEF Behind
<1>6. Known' /\ Ahead'
  BY <1>1, <1>3 DEF Known, Ahead
<1>7. Writing'
  <2>1. todo' \cap problems' \subseteq {v}
    <3>1. todo \cap problems = {}
      BY DEF IInv, Ahead
    <3>2. QED
      BY <1>1, <3>1
  <2>2. ASSUME v \notin problems' \cup Declares, v \notin Layouts,
               NEW l \in ((found \cap Layouts) \cap Declares) \ problems', l = Extends[v]
        PROVE  content.type = out'[l].rev
    <3>1. l # v /\ l \in Views /\ l \notin problems
      BY <1>1, <2>2
    <3>2. QED
      BY <1>1, <2>2, <3>1
  <2>3. QED
    BY <1>1, <2>1, <2>2 DEF Writing
<1>8. Forward'
  BY <1>1 DEF Forward, IInv
<1>9. Swept' /\ Left'
  BY <1>1 DEF Swept, Left, Reported, NoOrphans, EnsureIsEnough
<1>10. QED
  BY <1>5, <1>6, <1>7, <1>8, <1>9 DEF IInv

(***************************************************************************)
(* The invariant through every step.                                       *)
(***************************************************************************)
LEMMA AcceptStep == ASSUME IInv, TypeOK', NEW v \in Views, Accept(v) PROVE IInv'
<1> DEFINE fresh == Compiled(src[v], DataType(v))
<1>1. /\ pc = "read" /\ v \in todo /\ v \in found /\ src[v] # 0
      /\ UNCHANGED <<tree, styled, problems, seen, result>>
      /\ v \notin problems
  BY DEF Accept, First, IInv, TypeOK, Ahead
<1>2. v \notin Layouts => todo \cap Layouts = {}
  BY LayoutsFirst DEF Accept
<1>3. fresh.kind = "compiled" /\ fresh.rev = src[v] /\ fresh.type = DataType(v)
  BY OutputTypes
<1>4. src[v] >= begin[v]
  BY <1>1 DEF IInv, Forward
<1>5. inherited \in [Views -> 0 .. MaxSaves]
  BY DEF IInv, TypeOK
<1>6. /\ \A w \in Views \ {v} : inherited'[w] = inherited[w]
      /\ v \in Declares => inherited'[v] = src[v]
  BY <1>5 DEF Accept, Publish, Generates
<1>7. ASSUME v \notin Declares, v \notin Layouts,
             NEW l \in ((found \cap Layouts) \cap Declares) \ problems, l = Extends[v]
      PROVE  fresh.type = out[l].rev
  <2>1. l \in found \ todo /\ l # NoView
    BY <1>2, <1>7, ExtendsViews DEF IInv, TypeOK
  <2>2. inherited[l] = out[l].rev
    BY <1>1, <1>7, <2>1 DEF IInv, Known, Published
  <2>3. DataType(v) = inherited[l]
    BY <1>7, <2>1 DEF DataType
  <2>4. QED
    BY <1>3, <2>2, <2>3
<1> HIDE DEF fresh
<1>8. CASE out[v] = fresh /\ Advance(v) /\ UNCHANGED out
  <2>1. Handled(v)' /\ Published(v)'
    BY <1>1, <1>3, <1>4, <1>6, <1>8 DEF Handled, Published, seen
  <2>2. todo \cap problems \subseteq {v}
    BY <1>1 DEF IInv, Ahead
  <2>3. \A w \in Views \ {v} : out'[w] = out[w] /\ inherited'[w] = inherited[w]
    BY <1>6, <1>8
  <2>4. v \notin problems' \cup Declares /\ v \notin Layouts =>
            \A l \in ((found \cap Layouts) \cap Declares) \ problems :
                l = Extends[v] => out'[v].type = out[l].rev
    BY <1>7, <1>8
  <2>5. QED
    BY <1>1, <1>2, <1>8, <2>1, <2>2, <2>3, <2>4, StepDone
<1>9. CASE Truncate(v, fresh)
  <2>1. v \notin problems' \cup Declares /\ v \notin Layouts =>
            \A l \in ((found \cap Layouts) \cap Declares) \ problems :
                l = Extends[v] => fresh.type = out[l].rev
    BY <1>7
  <2>2. QED
    BY <1>1, <1>2, <1>3, <1>4, <1>6, <1>9, <2>1, StepWriting
<1>10. QED
  BY <1>8, <1>9 DEF Accept, fresh

LEMMA RefuseStep == ASSUME IInv, TypeOK', NEW v \in Views, Refuse(v) PROVE IInv'
<1>1. /\ pc = "read" /\ v \in todo /\ v \in found /\ v \in problems'
      /\ problems' = problems \cup {v}
      /\ UNCHANGED <<tree, styled, seen, result>>
      /\ todo \cap problems = {}
  BY DEF Refuse, First, IInv, TypeOK, Ahead
<1>2. v \notin Layouts => todo \cap Layouts = {}
  BY LayoutsFirst DEF Refuse
<1>3. \A w \in Views \ {v} : inherited'[w] = inherited[w]
  BY DEF Refuse, Publish, IInv, TypeOK
<1>4. CASE out[v].kind \in {"absent", "torn"} /\ Advance(v) /\ UNCHANGED out
  <2>1. Handled(v)' /\ Published(v)'
    BY <1>1, <1>4 DEF Handled, Published
  <2>2. \A w \in Views \ {v} : out'[w] = out[w] /\ inherited'[w] = inherited[w]
    BY <1>3, <1>4
  <2>3. QED
    BY <1>1, <1>2, <1>4, <2>1, <2>2, StepDone
<1>5. CASE Truncate(v, StandIn)
  <2>1. StandIn.kind # "compiled"
    BY OutputTypes
  <2>2. problems' \cap (Views \ {v}) = problems \cap (Views \ {v})
    BY <1>1
  <2>3. QED
    BY <1>1, <1>2, <1>3, <1>5, <2>1, <2>2, StepWriting
<1>6. Invalidate(v)
  BY DEF Refuse
<1>7. \/ out[v].kind \in {"absent", "torn"} /\ Advance(v) /\ UNCHANGED out
      \/ Truncate(v, StandIn)
  <2>1. CASE out[v].kind # "absent" /\ Truncate(v, StandIn)
    BY <2>1
  <2>2. CASE (out[v].kind = "absent" \/ out[v].kind = "torn") /\ Advance(v) /\ UNCHANGED out
    BY <2>2
  <2>3. QED
    BY <1>6, <2>1, <2>2 DEF Invalidate
<1>8. QED
  BY <1>4, <1>5, <1>7

LEMMA WriteStep == ASSUME IInv, TypeOK', Write PROVE IInv'
<1>1. PICK v \in Views : v = view /\ v \in todo
  BY DEF Write, IInv, TypeOK
<1>2. /\ pc = "write" /\ v \in found /\ Advance(v)
      /\ out' = [out EXCEPT ![v] = pending]
      /\ UNCHANGED <<tree, styled, inherited, problems, seen, result>>
      /\ out \in [Views -> Outputs]
  BY <1>1 DEF Write, IInv, TypeOK
<1>3. out'[v] = pending /\ \A w \in Views \ {v} : out'[w] = out[w] /\ inherited'[w] = inherited[w]
  BY <1>2
<1>4. /\ todo \cap problems \subseteq {v}
      /\ v \notin Layouts => todo \cap Layouts = {}
      /\ IF v \in problems THEN pending.kind # "compiled"
         ELSE /\ pending.kind = "compiled" /\ pending.rev >= begin[v]
              /\ v \in Declares => inherited[v] = pending.rev
      /\ v \notin problems \cup Declares /\ v \notin Layouts =>
            \A l \in ((found \cap Layouts) \cap Declares) \ problems :
                l = Extends[v] => pending.type = out[l].rev
  BY <1>1, <1>2 DEF IInv, Writing
<1>5. Handled(v)' /\ Published(v)'
  BY <1>2, <1>3, <1>4 DEF Handled, Published, seen
<1>6. QED
  BY <1>1, <1>2, <1>3, <1>4, <1>5, StepDone

\* The developer moves the sources and nothing else.
LEMMA EditStep ==
    ASSUME IInv, TypeOK', NEW v \in Views, Save(v) \/ Delete(v)
    PROVE  IInv'
<1>1. /\ UNCHANGED <<form, project, out, styled, pc, todo, inherited, problems, view, pending, seen, result>>
      /\ saves \in Nat /\ src \in [Views -> Nat] /\ begin \in [Views -> Nat]
  BY MaxSavesPos DEF Save, Delete, IInv, TypeOK, Revisions
<1>2. \/ saves' = saves + 1 /\ src' = [src EXCEPT ![v] = saves + 1]
      \/ saves' = saves /\ src' = [src EXCEPT ![v] = 0]
  BY DEF Save, Delete
<1>3. /\ saves' \in Nat /\ saves' >= saves /\ src'[v] \in {0, saves'}
      /\ \A w \in Views : src'[w] \in Nat /\ (w # v => src'[w] = src[w])
  BY <1>1, <1>2
<1>4. Forward'
  <2>1. Forward /\ found \subseteq Views
    BY DEF IInv, TypeOK
  <2>2. ASSUME NEW w \in Views PROVE src'[w] <= saves'
    <3>1. src[w] <= saves /\ src[w] \in Nat
      BY <1>1, <2>1 DEF Forward
    <3>2. w = v \/ src'[w] = src[w]
      BY <1>3
    <3>3. CASE w = v
      BY <1>3, <3>3
    <3>4. CASE src'[w] = src[w]
      BY <1>1, <1>3, <3>1, <3>4
    <3>5. QED
      BY <3>2, <3>3, <3>4
  <2>3. ASSUME pc # "idle", NEW w \in found
        PROVE  begin[w] <= saves' /\ (src'[w] # 0 => begin[w] <= src'[w])
    <3>1. w \in Views /\ begin[w] \in Nat /\ src[w] \in Nat
      BY <1>1, <2>1
    <3>2. begin[w] <= saves /\ (src[w] # 0 => begin[w] <= src[w])
      BY <2>1, <2>3 DEF Forward
    <3>3. begin[w] <= saves'
      BY <1>1, <1>3, <3>1, <3>2
    <3>4. CASE w = v
      BY <1>3, <3>3, <3>4
    <3>5. CASE w # v
      BY <1>3, <3>1, <3>2, <3>3, <3>5
    <3>6. QED
      BY <3>4, <3>5
  <2>4. QED
    BY <1>1, <2>2, <2>3 DEF Forward, seen
<1>5. Behind' /\ Ahead' /\ Known' /\ Writing' /\ Swept' /\ Left'
  BY <1>1 DEF IInv, Behind, Ahead, Known, Writing, Swept, Left, Handled, OwnType, Published,
     Reported, NoOrphans, EnsureIsEnough, seen
<1>6. QED
  BY <1>4, <1>5 DEF IInv

LEMMA FindStep == ASSUME IInv, TypeOK', Find PROVE IInv'
<1>1. /\ pc = "idle" /\ pc' \in {"read", "style"} /\ (pc' = "style" => found' = {})
      /\ found' = todo' /\ found' \subseteq Views /\ problems' = {} /\ begin' = src
      /\ UNCHANGED <<tree, out, styled, view, pending>>
      /\ src \in [Views -> 0 .. MaxSaves]
  BY DEF Find, Sources, IInv, TypeOK
<1>2. Forward'
  <2>1. \A v \in Views : src[v] <= saves /\ src[v] \in Nat
    BY <1>1, MaxSavesPos DEF IInv, Forward
  <2>2. QED
    BY <1>1, <2>1 DEF Forward, tree
<1>3. Behind' /\ Ahead' /\ Known' /\ Writing' /\ Swept' /\ Left'
  BY <1>1 DEF Behind, Ahead, Known, Writing, Swept, Left, Reported, NoOrphans, EnsureIsEnough
<1>4. QED
  BY <1>2, <1>3 DEF IInv

LEMMA PruneStep == ASSUME IInv, TypeOK', NEW v \in Views, Prune(v) PROVE IInv'
<1>1. /\ pc = "prune" /\ v \notin found /\ found \subseteq Views /\ todo = {}
      /\ UNCHANGED <<tree, styled, pc, todo, inherited, problems, view, pending, seen, result>>
      /\ \A w \in Views \ {v} : out'[w] = out[w]
  BY DEF Prune, Orphan, IInv, TypeOK, Swept
<1>2. \A w \in found : out'[w] = out[w]
  BY <1>1
<1>3. Behind'
  <2>1. \A w \in found : Handled(w) /\ OwnType(w)
    BY <1>1 DEF IInv, Behind
  <2>2. \A w \in found : Handled(w)'
    BY <1>1, <1>2, <2>1 DEF Handled, seen
  <2>3. \A w \in found : OwnType(w)'
    BY <1>1, <1>2, <2>1 DEF OwnType, seen
  <2>4. QED
    BY <1>1, <2>2, <2>3 DEF Behind, seen
<1>4. Ahead' /\ Known' /\ Writing' /\ Forward' /\ Swept' /\ Left'
  BY <1>1 DEF IInv, Ahead, Known, Writing, Forward, Swept, Left, Reported, NoOrphans, EnsureIsEnough, tree, seen
<1>5. QED
  BY <1>3, <1>4 DEF IInv

LEMMA ReportStep == ASSUME IInv, TypeOK', Report PROVE IInv'
<1>1. /\ pc = "prune" /\ todo = {} /\ UNCHANGED <<tree, out, styled, problems, seen>>
      /\ \A v \in found : Handled(v) /\ OwnType(v)
  BY DEF Report, IInv, Behind, Swept
<1>2. todo' = {}
  BY <1>1 DEF Report, End
<1>3. project => \A v \in Views \ found : out[v].kind = "absent"
  BY DEF Report, Orphan
<1>4. \/ pc' = "style" /\ problems = {} /\ UNCHANGED <<inherited, view, pending, result>>
      \/ pc' = "idle" /\ result' = "refused"
  BY DEF Report, End
<1>5. \A v \in found : Handled(v)' /\ OwnType(v)'
  BY <1>1 DEF Handled, OwnType, seen
<1>6. Behind' /\ Ahead' /\ Known' /\ Writing'
  BY <1>1, <1>2, <1>4, <1>5 DEF Behind, Ahead, Known, Writing, seen
<1>7. Forward'
  BY <1>1, <1>4 DEF IInv, Forward, tree, seen
<1>8. Swept' /\ Left'
  BY <1>1, <1>2, <1>3, <1>4, <1>5 DEF Swept, Left, Reported, NoOrphans, EnsureIsEnough, tree, seen
<1>9. QED
  BY <1>6, <1>7, <1>8 DEF IInv

LEMMA StyleStep == ASSUME IInv, TypeOK', Style PROVE IInv'
<1>1. /\ pc = "style" /\ pc' = "idle" /\ result' = "ok" /\ styled' = TRUE
      /\ UNCHANGED <<tree, out, problems, seen>> /\ problems = {} /\ todo = {} /\ todo' = {}
      /\ \A v \in found : Handled(v) /\ OwnType(v)
      /\ project /\ found # {} => \A v \in Views \ found : out[v].kind = "absent"
  BY DEF Style, End, IInv, Behind, Swept
<1>2. \A v \in found : Handled(v)' /\ OwnType(v)' /\ out[v].kind = "compiled"
  BY <1>1 DEF Handled, OwnType, seen
<1>3. Behind' /\ Ahead' /\ Known' /\ Writing' /\ Swept'
  BY <1>1 DEF Behind, Ahead, Known, Writing, Swept
<1>4. Forward'
  BY <1>1 DEF IInv, Forward, tree, seen
<1>5. Left'
  BY <1>1, <1>2 DEF Left, Reported, NoOrphans, EnsureIsEnough, tree, seen
<1>6. QED
  BY <1>3, <1>4, <1>5 DEF IInv

\* The commands that compile nothing, and the end of one that could not go on.
LEMMA OtherSteps == ASSUME IInv, TypeOK', Clone \/ EnsureSkips \/ Fail PROVE IInv'
<1>1. /\ pc' = "idle" /\ UNCHANGED tree
      /\ \A v \in Views : src'[v] <= saves'
  BY DEF Clone, EnsureSkips, Fail, End, IInv, Forward, tree
<1>2. Behind' /\ Ahead' /\ Known' /\ Writing' /\ Swept' /\ Forward'
  BY <1>1 DEF Behind, Ahead, Known, Writing, Swept, Forward
<1>3. result' \in {"none", "failed", "complete"}
  BY DEF Clone, EnsureSkips, Fail, End
<1>4. ASSUME result' = "complete", found' # {}
      PROVE  styled' /\ \A v \in found' : out'[v].kind # "absent"
  <2>1. EnsureSkips
    BY <1>4 DEF Clone, Fail, End
  <2>2. QED
    BY <1>4, <2>1 DEF EnsureSkips, Complete, Sources
<1>5. Left'
  BY <1>1, <1>3, <1>4 DEF Left, Reported, NoOrphans, EnsureIsEnough
<1>6. QED
  BY <1>2, <1>5 DEF IInv

LEMMA Inductive == IInv /\ [Next]_vars => IInv'
<1> SUFFICES ASSUME IInv, [Next]_vars PROVE IInv'
  OBVIOUS
<1>1. TypeOK'
  BY TypeStep DEF IInv
<1>2. CASE UNCHANGED vars
  BY <1>1, <1>2 DEF vars, tree, seen, IInv, Behind, Ahead, Known, Writing, Forward, Swept, Left,
     Handled, OwnType, Published, Reported, NoOrphans, EnsureIsEnough
<1>3. CASE Next
  BY <1>1, <1>3, AcceptStep, RefuseStep, WriteStep, EditStep, FindStep, PruneStep, ReportStep,
     StyleStep, OtherSteps DEF Next, ViewBuild, EnsureBuilds
<1>4. QED
  BY <1>2, <1>3

LEMMA Invariance == Spec => []IInv
<1>1. Init => IInv
  <2> SUFFICES ASSUME Init PROVE IInv
    OBVIOUS
  <2>1. TypeOK
    BY TypeInit
  <2>2. pc = "idle" /\ result = "none" /\ todo = {} /\ saves = 1 /\ \A v \in Views : src[v] <= saves
    BY DEF Init
  <2>3. QED
    BY <2>1, <2>2 DEF IInv, Behind, Ahead, Known, Writing, Forward, Swept, Left,
       Reported, NoOrphans, EnsureIsEnough
<1>2. QED
  BY <1>1, Inductive, PTL DEF Spec

(***************************************************************************)
(* Theorems                                                                *)
(***************************************************************************)
\* compileViews: whatever failed, was killed or was saved meanwhile, a build
\* that reports leaves no compiled Go of a revision older than the tree it
\* started on, and none at all for a view it refused.
THEOREM Freshness == Spec => []NothingOutOfDate
<1>1. IInv => NothingOutOfDate
  BY DEF IInv, Left, NothingOutOfDate, Handled
<1>2. QED
  BY <1>1, Invariance, PTL

\* compileViews: the sort that puts layouts first is enough for a page to be
\* compiled with the type of the layout compiled beside it.
THEOREM TypesAgree == Spec => []Inherits
<1>1. IInv => Inherits
  BY DEF IInv, Left, Inherits, OwnType
<1>2. QED
  BY <1>1, Invariance, PTL

\* pruneCompiled: no output of a deleted view outlives a build of a project
\* that still has one.
THEOREM Pruned == Spec => []NoOrphans
<1>1. IInv => NoOrphans
  BY DEF IInv, Left
<1>2. QED
  BY <1>1, Invariance, PTL

\* ensureViews: a command told to go on finds every output it needs.
THEOREM Ensured == Spec => []EnsureIsEnough
<1>1. IInv => EnsureIsEnough
  BY DEF IInv, Left
<1>2. QED
  BY <1>1, Invariance, PTL

(***************************************************************************)
(* The browser.                                                            *)
(***************************************************************************)
\* The steps of a call while it holds the session.
Working == {"open", "new", "step", "trace", "close"}

HeldByItsCall ==
    /\ DOMAIN cPc = Calls /\ DOMAIN cAnswer = Calls
    /\ \A c \in Calls : cPc[c] \in Working => holder = c
    /\ \A c \in Calls : cPc[c] = "new" => drives = 0
    /\ (\A c \in Calls : cPc[c] # "new") => driver = drives
    /\ serving = "returned" => \A c \in Calls : cPc[c] \in {"none", "done"}

OneBrowser ==
    /\ started \in Nat /\ driver \in 0 .. started /\ alive \subseteq {driver} \ {0}
    /\ serving = "returned" => alive = {}

ErrorsWait ==
    /\ reported \in Nat /\ DOMAIN told = 1 .. MaxErrors /\ told = [e \in DOMAIN told |-> told[e]]
    /\ errs \subseteq 1 .. reported /\ errs \subseteq DOMAIN told
    /\ errs # {} => driver # 0
    /\ \A e \in DOMAIN told : e \in errs \/ e > reported => told[e] = {}
    /\ \A e \in DOMAIN told : told[e] = {} \/ \E c \in Calls : told[e] = {c}
    /\ \A e \in DOMAIN told : \A c \in told[e] : cPc[c] = "done" /\ cAnswer[c] = "failed"

SessionInv == HeldByItsCall /\ OneBrowser /\ ErrorsWait

LEMMA SessionStarts ==
    ASSUME MaxErrors \in Nat, Browser!Init
    PROVE  SessionInv
<1>1. HeldByItsCall
  BY DEF Browser!Init, HeldByItsCall, Working
<1>2. OneBrowser
  BY DEF Browser!Init, OneBrowser
<1>3. ErrorsWait
  BY DEF Browser!Init, ErrorsWait
<1> QED BY <1>1, <1>2, <1>3 DEF SessionInv

LEMMA KeepsTheLock ==
    ASSUME Browser!Nobody \notin Calls, SessionInv, [Browser!Next]_browser
    PROVE  HeldByItsCall'
<1> USE DEF SessionInv, HeldByItsCall, Working
<1>1. ASSUME NEW c \in Calls, (\E t \in Browser!Tools : Browser!Call(c, t)) \/ Browser!Handle(c)
      PROVE  HeldByItsCall'
  <2>1. CASE \E t \in Browser!Tools : Browser!Call(c, t)
    BY <2>1 DEF Browser!Call
  <2>2. CASE Browser!Handle(c) /\ drives = 0 /\ tool[c] # "open"
    BY <2>2 DEF Browser!Handle, Browser!AnswerWith
  <2>3. CASE Browser!Handle(c) /\ ~(drives = 0 /\ tool[c] # "open")
    <3>1. /\ cPc[c] = "waiting" /\ holder = Browser!Nobody /\ holder' = c
          /\ UNCHANGED <<serving, driver, drives, cAnswer>>
          /\ \E to \in {"open", "close", "trace", "step"} : cPc' = [cPc EXCEPT ![c] = to]
      BY <2>3 DEF Browser!Handle
    <3> QED BY <3>1
  <2> QED BY <1>1, <2>1, <2>2, <2>3
<1>2. ASSUME NEW c \in Calls, Browser!openAgain(c) \/ Browser!launchFails(c) \/ Browser!launch(c) \/ Browser!newPage(c) \/ Browser!newPageFails(c)
      PROVE  HeldByItsCall'
  BY <1>2 DEF Browser!openAgain, Browser!launchFails, Browser!launch, Browser!newPage, Browser!newPageFails, Browser!AnswerWith, Browser!closeLocked
<1>3. ASSUME NEW c \in Calls, NEW stopped \in BOOLEAN, Browser!step(c, stopped)
      PROVE  HeldByItsCall'
  <2>1. CASE Browser!Failed(c, stopped)
    BY <1>3, <2>1 DEF Browser!step, Browser!AnswerWith
  <2>2. CASE ~Browser!Failed(c, stopped)
    BY <1>3, <2>2 DEF Browser!step
  <2> QED BY <2>1, <2>2
<1>4. ASSUME NEW c \in Calls, Browser!held(c) \/ Browser!readTrace(c) \/ Browser!closeTool(c)
      PROVE  HeldByItsCall'
  BY <1>4 DEF Browser!held, Browser!readTrace, Browser!closeTool, Browser!AnswerWith, Browser!closeLocked
<1>5. CASE Browser!Report \/ Browser!Dies \/ UNCHANGED browser
  BY <1>5 DEF Browser!Report, Browser!Dies, browser
<1>6. CASE Browser!Return
  BY <1>6 DEF Browser!Return, Browser!closeLocked
<1> QED BY <1>1, <1>2, <1>3, <1>4, <1>5, <1>6 DEF Browser!Next

LEMMA KeepsOneBrowser ==
    ASSUME Browser!Nobody \notin Calls, SessionInv, [Browser!Next]_browser
    PROVE  OneBrowser'
<1> USE DEF SessionInv, OneBrowser
<1>1. ASSUME NEW c \in Calls, Browser!launch(c)
      PROVE  OneBrowser'
  <2>1. cPc[c] = "open" /\ drives = 0 /\ holder = c
    BY <1>1 DEF Browser!launch, HeldByItsCall, Working
  <2>2. \A d \in Calls : cPc[d] # "new"
    BY <2>1 DEF HeldByItsCall, Working
  <2>3. driver = 0 /\ serving # "returned"
    BY <2>1, <2>2 DEF HeldByItsCall
  <2> QED BY <1>1, <2>3 DEF Browser!launch
<1>2. ASSUME NEW c \in Calls,
             \/ (\E t \in Browser!Tools : Browser!Call(c, t)) \/ Browser!Handle(c) \/ Browser!openAgain(c) \/ Browser!launchFails(c) \/ Browser!newPage(c)
             \/ (\E stopped \in BOOLEAN : Browser!step(c, stopped)) \/ Browser!held(c) \/ Browser!readTrace(c)
      PROVE  OneBrowser'
  <2>1. UNCHANGED <<serving, driver, alive, started>>
    BY <1>2 DEF Browser!Call, Browser!Handle, Browser!openAgain, Browser!launchFails, Browser!newPage, Browser!step, Browser!held, Browser!readTrace
  <2> QED BY <2>1
<1>3. ASSUME Browser!closeLocked, started' = started
      PROVE  OneBrowser'
  <2>1. driver' = 0 /\ alive' = {}
    BY <1>3 DEF Browser!closeLocked
  <2>2. 0 \in 0 .. started
    BY SMT
  <2> QED BY <1>3, <2>1, <2>2
<1>4. ASSUME NEW c \in Calls, Browser!newPageFails(c) \/ Browser!closeTool(c)
      PROVE  OneBrowser'
  BY <1>3, <1>4 DEF Browser!newPageFails, Browser!closeTool
<1>5. CASE Browser!Return
  BY <1>3, <1>5 DEF Browser!Return
<1>6. CASE Browser!Dies
  <2>1. UNCHANGED <<serving, driver, started>> /\ alive' \subseteq alive
    BY <1>6 DEF Browser!Dies
  <2> QED BY <2>1
<1>7. CASE Browser!Report \/ UNCHANGED browser
  BY <1>7 DEF Browser!Report, browser
<1> QED BY <1>1, <1>2, <1>4, <1>5, <1>6, <1>7 DEF Browser!Next

\* What a Browser!step does to the errors and to what was told of them.
LEMMA KeepsErrors ==
    ASSUME MaxErrors \in Nat, SessionInv, [Browser!Next]_browser
    PROVE  ErrorsWait'
<1> USE DEF SessionInv, ErrorsWait
\* A call that was answered is answered for good.
<1>a. ASSUME UNCHANGED <<told, reported>>, errs' = errs \/ errs' = {}, errs' # {} => driver' # 0,
             \A c \in Calls : cPc[c] = "done" => cPc'[c] = "done" /\ cAnswer'[c] = cAnswer[c]
      PROVE  ErrorsWait'
  <2>1. \A e \in DOMAIN told : \A c \in told[e] : cPc'[c] = "done" /\ cAnswer'[c] = "failed"
    BY <1>a
  <2> QED BY <1>a, <2>1
<1>1. ASSUME NEW c \in Calls,
             \/ (\E t \in Browser!Tools : Browser!Call(c, t)) \/ Browser!Handle(c) \/ Browser!openAgain(c) \/ Browser!launchFails(c) \/ Browser!newPage(c)
             \/ Browser!held(c) \/ Browser!readTrace(c)
      PROVE  ErrorsWait'
  <2>1. UNCHANGED <<told, reported, errs, driver>> /\ cPc[c] # "done"
    BY <1>1 DEF Browser!Call, Browser!Handle, Browser!openAgain, Browser!launchFails, Browser!newPage, Browser!held, Browser!readTrace
  <2>2. \A d \in Calls \ {c} : cPc'[d] = cPc[d] /\ cAnswer'[d] = cAnswer[d]
    BY <1>1 DEF Browser!Call, Browser!Handle, Browser!openAgain, Browser!launchFails, Browser!newPage, Browser!held, Browser!readTrace, Browser!AnswerWith, HeldByItsCall
  <2> QED BY <1>a, <2>1, <2>2
<1>2. ASSUME NEW c \in Calls, Browser!launch(c) \/ Browser!newPageFails(c) \/ Browser!closeTool(c)
      PROVE  ErrorsWait'
  <2>1. UNCHANGED <<told, reported>> /\ errs' = {} /\ cPc[c] # "done"
    BY <1>2 DEF Browser!launch, Browser!newPageFails, Browser!closeTool, Browser!closeLocked
  <2>2. \A d \in Calls \ {c} : cPc'[d] = cPc[d] /\ cAnswer'[d] = cAnswer[d]
    BY <1>2 DEF Browser!launch, Browser!newPageFails, Browser!closeTool, Browser!AnswerWith, HeldByItsCall
  <2> QED BY <1>a, <2>1, <2>2
<1>3. ASSUME NEW c \in Calls, NEW stopped \in BOOLEAN, Browser!step(c, stopped)
      PROVE  ErrorsWait'
  <2>1. CASE errs = {}
    <3>1. told' = told
      <4>1. told' = [e \in DOMAIN told |-> told[e]]
        BY <1>3, <2>1 DEF Browser!step, Browser!Drained
      <4> QED BY <4>1
    <3>2. UNCHANGED reported /\ errs' = {} /\ cPc[c] # "done"
      BY <1>3 DEF Browser!step, Browser!Drained
    <3>3. \A d \in Calls \ {c} : cPc'[d] = cPc[d] /\ cAnswer'[d] = cAnswer[d]
      BY <1>3 DEF Browser!step, Browser!AnswerWith, HeldByItsCall
    <3> QED BY <1>a, <3>1, <3>2, <3>3
  <2>2. CASE errs # {}
    <3>1. /\ UNCHANGED reported /\ errs' = {} /\ cPc[c] = "step"
          /\ cPc' = [cPc EXCEPT ![c] = "done"] /\ cAnswer' = [cAnswer EXCEPT ![c] = "failed"]
      BY <1>3, <2>2 DEF Browser!step, Browser!Drained, Browser!Failed, Browser!AnswerWith
    <3>2. DOMAIN told' = DOMAIN told /\ \A e \in DOMAIN told : told'[e] = IF e \in errs THEN told[e] \cup {c} ELSE told[e]
      BY <1>3 DEF Browser!step, Browser!Drained
    <3>3. \A e \in DOMAIN told : told'[e] = IF e \in errs THEN {c} ELSE told[e]
      BY <3>2
    <3>6. told' = [e \in DOMAIN told' |-> told'[e]]
      BY <1>3, <3>2 DEF Browser!step, Browser!Drained
    <3>7. /\ \A e \in DOMAIN told' : e \in errs' => told'[e] = {}
          /\ \A e \in DOMAIN told' : told'[e] = {} \/ \E d \in Calls : told'[e] = {d}
      BY <3>1, <3>2, <3>3
    <3>4. \A e \in DOMAIN told' : e > reported' => told'[e] = {}
      <4>1. \A e \in errs : ~(e > reported)
        OBVIOUS
      <4> QED BY <3>1, <3>2, <3>3, <4>1
    <3>5. \A e \in DOMAIN told' : \A d \in told'[e] : cPc'[d] = "done" /\ cAnswer'[d] = "failed"
      BY <3>1, <3>2, <3>3 DEF HeldByItsCall
    <3> QED BY <3>1, <3>2, <3>4, <3>5, <3>6, <3>7
  <2> QED BY <2>1, <2>2
<1>4. CASE Browser!Report
  <2>1. /\ reported < MaxErrors /\ reported' = reported + 1 /\ errs' = errs \cup {reported + 1}
        /\ UNCHANGED <<told, cPc, cAnswer, driver>> /\ driver # 0
    BY <1>4 DEF Browser!Report, OneBrowser
  <2>2. reported + 1 \in DOMAIN told /\ told[reported + 1] = {}
    BY <2>1
  <2> QED BY <2>1, <2>2
<1>5. CASE Browser!Dies \/ UNCHANGED browser
  BY <1>5 DEF Browser!Dies, browser
<1>6. CASE Browser!Return
  <2>1. UNCHANGED <<told, reported, cPc, cAnswer>> /\ errs' = {}
    BY <1>6 DEF Browser!Return, Browser!closeLocked
  <2> QED BY <1>a, <2>1
<1> QED BY <1>1, <1>2, <1>3, <1>4, <1>5, <1>6 DEF Browser!Next

LEMMA SessionSteps ==
    ASSUME Browser!Nobody \notin Calls, MaxErrors \in Nat
    PROVE  SessionInv /\ [Browser!Next]_browser => SessionInv'
BY KeepsTheLock, KeepsOneBrowser, KeepsErrors DEF SessionInv

-----------------------------------------------------------------------------
\* A behaviour that is not of the browser has none.
BrowserInv ==
    IF of = "browser" THEN SessionInv
    ELSE driver = 0 /\ drives = 0 /\ errs = {} /\ alive = {} /\ told = <<>>

\* An error is said in one answer, and that one says failed.
LEMMA SaidOnce == SessionInv => Browser!ToldOnce
BY DEF SessionInv, ErrorsWait, Browser!ToldOnce

\* An error leaves the page that reported it in the answer of a step.
LEMMA SaidByAStep ==
    ASSUME SessionInv, Browser!Next
    PROVE  Browser!ToldWithItsPage
<1> SUFFICES ASSUME errs # {}, driver' = driver, NEW e \in errs \ errs'
             PROVE  told'[e] # {}
  BY DEF Browser!ToldWithItsPage
<1>1. driver # 0 /\ driver \in 0 .. started /\ started \in Nat /\ e \in DOMAIN told
  BY DEF SessionInv, ErrorsWait, OneBrowser
<1>2. ~Browser!closeLocked /\ \A c \in Calls : ~Browser!launch(c)
  BY <1>1 DEF Browser!closeLocked, Browser!launch
<1>3. PICK c \in Calls, stopped \in BOOLEAN : Browser!step(c, stopped)
  BY <1>2 DEF Browser!Next, Browser!Call, Browser!Handle, Browser!openAgain, Browser!launchFails, Browser!newPage,
              Browser!newPageFails, Browser!held, Browser!readTrace, Browser!closeTool, Browser!Report,
              Browser!Dies, Browser!Return
<1> QED BY <1>1, <1>3 DEF Browser!step, Browser!Drained

\* For any number of calls, however their steps and the failures and ends of
\* browsers fall: no browser is left behind (open, closeLocked, serveMCP), and no
\* error of its page is said twice, by a call that held, or by nobody (step,
\* t.drain).
THEOREM BrowserKept ==
    ASSUME Browser!Nobody \notin Calls, MaxErrors \in Nat
    PROVE  MCSpec => BrowserIsKept
<1>1. MCInit => BrowserInv
  BY SessionStarts DEF MCInit, NoBrowser, BrowserInv
<1>2. BrowserInv /\ [MCNext]_all => BrowserInv'
  <2> SUFFICES ASSUME BrowserInv, [MCNext]_all
               PROVE  BrowserInv'
    OBVIOUS
  <2>1. /\ of' = of
        /\ of = "browser" => [Browser!Next]_browser
        /\ of # "browser" => UNCHANGED browser
    BY DEF MCNext, all
  <2>2. CASE of = "browser"
    BY <2>1, <2>2, SessionSteps DEF BrowserInv
  <2>3. CASE of # "browser"
    BY <2>1, <2>3 DEF BrowserInv, browser
  <2> QED BY <2>2, <2>3
<1>3. BrowserInv => Browser!BrowserHasItsSession
  <2>1. CASE of = "browser"
    BY <2>1 DEF BrowserInv, SessionInv, HeldByItsCall, OneBrowser, Browser!BrowserHasItsSession, Working
  <2>2. CASE of # "browser"
    BY <2>2 DEF BrowserInv, Browser!BrowserHasItsSession
  <2> QED BY <2>1, <2>2
<1>4. BrowserInv => Browser!ToldOnce
  BY SaidOnce DEF BrowserInv, Browser!ToldOnce
<1>5. BrowserInv /\ [MCNext]_all => [Browser!ToldWithItsPage]_(Browser!session)
  <2> SUFFICES ASSUME BrowserInv, [MCNext]_all, ~ UNCHANGED browser
               PROVE  Browser!ToldWithItsPage
    BY DEF browser, Browser!session
  <2>1. CASE of = "browser"
    <3>1. SessionInv /\ Browser!Next
      BY <2>1 DEF BrowserInv, MCNext, all, browser
    <3> QED BY <3>1, SaidByAStep
  <2>2. CASE of # "browser"
    BY <2>2 DEF BrowserInv, Browser!ToldWithItsPage
  <2> QED BY <2>1, <2>2
<1> QED BY <1>1, <1>2, <1>3, <1>4, <1>5, PTL DEF MCSpec, BrowserIsKept

(***************************************************************************)
(* What is made step by step: induction as a fact about sets, that there   *)
(* is a value made so, and that there is one.                              *)
(***************************************************************************)
\* A set of numbers that is not empty has a least one.
LEMMA Least ==
    ASSUME NEW T, T \subseteq Nat, T # {}
    PROVE  \E x \in T : \A y \in T : x <= y
<1> DEFINE R == {p \in Nat \X Nat : p[1] < p[2]}
<1>1. IsWellFoundedOn(R, Nat)
  <2>1. IsWellFoundedOn(OpToRel(<, Nat), Nat)
    BY NatLessThanWellFounded
  <2>2. R = OpToRel(<, Nat)
    BY DEF OpToRel
  <2> QED BY <2>1, <2>2
<1>2. PICK x \in T : \A y \in T : ~(<<y, x>> \in R)
  <2> HIDE DEF R
  <2> QED BY <1>1, WFMin
<1>3. ASSUME NEW y \in T, y < x PROVE FALSE
  <2>1. <<y, x>> \in R
    BY <1>3
  <2> QED BY <1>2, <2>1
<1>4. \A y \in T : x <= y
  BY <1>3
<1> QED BY <1>4

\* Induction: of a set that has zero and, with each number, the next.
LEMMA Induction ==
    ASSUME NEW S, 0 \in S, \A n \in Nat : n \in S => n + 1 \in S
    PROVE  Nat \subseteq S
<1> DEFINE T == Nat \ S
<1> SUFFICES ASSUME T # {} PROVE FALSE
  OBVIOUS
<1>1. PICK x \in T : \A y \in T : x <= y
  BY Least
<1>2. x \in Nat /\ x # 0 /\ x - 1 \in Nat /\ (x - 1) + 1 = x /\ ~(x <= x - 1)
  BY <1>1
<1>3. x - 1 \in S
  BY <1>1, <1>2
<1> QED BY <1>1, <1>2, <1>3

\* The same, up to a number.
LEMMA InductionUpTo ==
    ASSUME NEW N \in Nat, NEW S, 0 \in S, \A n \in 0 .. N - 1 : n \in S => n + 1 \in S
    PROVE  0 .. N \subseteq S
<1> DEFINE T == {n \in Nat : n <= N => n \in S}
<1>1. 0 \in T
  OBVIOUS
<1>2. \A n \in Nat : n \in T => n + 1 \in T
  OBVIOUS
<1>3. Nat \subseteq T
  <2> HIDE DEF T
  <2> QED BY <1>1, <1>2, Induction
<1> QED BY <1>3

(***************************************************************************)
(* A value made step by step: there is one, when every step is taken in a  *)
(* set that it stays in.                                                   *)
(***************************************************************************)
Makes(f, N, e, step) == f[0] = e /\ \A k \in 1 .. N : f[k] = step[<<f[k - 1], k>>]

LEMMA Recursion ==
    ASSUME NEW N \in Nat, NEW X, NEW e \in X, NEW step \in [X \X (1 .. N) -> X]
    PROVE  \E f \in [0 .. N -> X] : Makes(f, N, e, step)
<1> DEFINE Made(f, n) == f[0] = e /\ \A k \in 1 .. n : f[k] = step[<<f[k - 1], k>>]
           Possible == {n \in 0 .. N : \E f \in [0 .. n -> X] : Made(f, n)}
<1>1. 0 \in Possible
  <2> DEFINE f == [k \in 0 .. 0 |-> e]
  <2>1. f \in [0 .. 0 -> X] /\ Made(f, 0)
    OBVIOUS
  <2> HIDE DEF Made
  <2> QED BY <2>1
<1>2. ASSUME NEW n \in 0 .. N - 1, n \in Possible PROVE n + 1 \in Possible
  <2>1. PICK f \in [0 .. n -> X] : Made(f, n)
    BY <1>2
  <2>2. n + 1 \in 0 .. N /\ n + 1 \in 1 .. N /\ n \in 0 .. n /\ n \in Nat
    OBVIOUS
  <2> DEFINE g == [k \in 0 .. n + 1 |-> IF k <= n THEN f[k] ELSE step[<<f[n], n + 1>>]]
  <2>3. step[<<f[n], n + 1>>] \in X
    BY <2>2
  <2>4. g \in [0 .. n + 1 -> X]
    BY <2>3
  <2>5. g[0] = e
    BY <2>1, <2>2
  <2>6. ASSUME NEW k \in 1 .. n + 1 PROVE g[k] = step[<<g[k - 1], k>>]
    <3>1. k - 1 \in 0 .. n /\ k - 1 <= n /\ k - 1 \in 0 .. n + 1
      BY <2>2
    <3>2. g[k - 1] = f[k - 1]
      BY <3>1
    <3>3. CASE k <= n
      <4>1. k \in 1 .. n /\ g[k] = f[k]
        BY <3>3
      <4> HIDE DEF g
      <4> QED BY <2>1, <3>2, <4>1
    <3>4. CASE ~(k <= n)
      <4>1. k = n + 1 /\ k - 1 = n
        BY <2>2, <3>4
      <4>2. g[k] = step[<<f[n], n + 1>>]
        BY <3>4
      <4> HIDE DEF g
      <4> QED BY <3>2, <4>1, <4>2
    <3> QED BY <3>3, <3>4
  <2> HIDE DEF g
  <2>7. Made(g, n + 1)
    BY <2>5, <2>6
  <2> HIDE DEF Made
  <2> QED BY <2>2, <2>4, <2>7
<1>3. N \in Possible
  <2> HIDE DEF Possible
  <2>1. 0 .. N \subseteq Possible
    BY <1>1, <1>2, InductionUpTo
  <2> QED BY <2>1
<1> QED BY <1>3 DEF Makes

\* Two functions made by the same steps are the same, as far as they go.
GoTogether(N, f, g) == f[0] = g[0] /\ \A k \in 1 .. N : f[k - 1] = g[k - 1] => f[k] = g[k]
Agree(N, f, g) == \A k \in 0 .. N : f[k] = g[k]

LEMMA SameSteps ==
    ASSUME NEW N \in Nat, NEW f, NEW g, GoTogether(N, f, g)
    PROVE  Agree(N, f, g)
<1> DEFINE T == {k \in 0 .. N : f[k] = g[k]}
<1>1. 0 \in T
  BY DEF GoTogether
<1>2. ASSUME NEW n \in 0 .. N - 1, n \in T PROVE n + 1 \in T
  <2>1. n + 1 \in 1 .. N /\ (n + 1) - 1 = n /\ n + 1 \in 0 .. N
    OBVIOUS
  <2>2. f[n] = g[n]
    BY <1>2
  <2>3. f[n + 1] = g[n + 1]
    BY <2>1, <2>2 DEF GoTogether
  <2> QED BY <2>1, <2>3
<1>3. 0 .. N \subseteq T
  <2> HIDE DEF T
  <2> QED BY <1>1, <1>2, InductionUpTo
<1> QED BY <1>3 DEF Agree

(***************************************************************************)
(* The recorder: the name and the parameters an address is written with    *)
(* lead back to it.                                                        *)
(***************************************************************************)
\* A pattern as a route has it.
Shaped(pattern) == \A k \in DOMAIN pattern : pattern[k] = Recording!TheRest => k = Len(pattern)

\* What takes the rest is the last segment, or there is none.
LEMMA RestIs ==
    ASSUME NEW pattern \in Seq(STRING), Shaped(pattern)
    PROVE  LET n == Len(pattern)
               rest == Recording!RestOf(pattern)
           IN /\ n \in Nat /\ rest \in {n, n + 1} /\ rest \in Nat \ {0}
              /\ rest = n => pattern[n] = Recording!TheRest
              /\ \A j \in 1 .. rest - 1 : j \in 1 .. n /\ pattern[j] # Recording!TheRest
<1>0. PICK n : n = Len(pattern)
  OBVIOUS
<1> DEFINE P(i) == /\ i <= n => pattern[i] = Recording!TheRest
                   /\ \A j \in 1 .. i - 1 : pattern[j] # Recording!TheRest
<1>1. n \in Nat /\ \A k \in 1 .. n : pattern[k] = Recording!TheRest => k = n
  BY <1>0 DEF Shaped
<1>2. \E i \in 1 .. n + 1 : P(i)
  <2>1. CASE n \in 1 .. n /\ pattern[n] = Recording!TheRest
    <3>1. \A j \in 1 .. n - 1 : pattern[j] # Recording!TheRest
      BY ONLY <1>1
    <3> QED BY ONLY <1>1, <2>1, <3>1
  <2>2. CASE ~(n \in 1 .. n /\ pattern[n] = Recording!TheRest)
    <3>1. \A j \in 1 .. n : pattern[j] # Recording!TheRest
      BY ONLY <1>1, <2>2
    <3> QED BY ONLY <1>1, <3>1
  <2> QED BY <2>1, <2>2
<1>3. PICK rest : rest = Recording!RestOf(pattern)
  OBVIOUS
<1>4. rest \in 1 .. n + 1 /\ P(rest)
  <2> DEFINE S == 1 .. n + 1
  <2>1. \E i \in S : P(i)
    BY <1>2
  <2>2. rest = CHOOSE i \in S : P(i)
    BY <1>0, <1>3 DEF Recording!RestOf
  <2>3. rest \in S /\ P(rest)
    <3> HIDE DEF P, S
    <3> QED BY <2>1, <2>2
  <2> QED BY <2>3
<1>5. rest <= n => rest = n
  BY ONLY <1>1, <1>4
<1>6. /\ rest \in {n, n + 1} /\ rest \in Nat \ {0}
      /\ rest = n => pattern[n] = Recording!TheRest
  BY ONLY <1>1, <1>4, <1>5
<1>7. \A j \in 1 .. rest - 1 : j \in 1 .. n /\ pattern[j] # Recording!TheRest
  BY ONLY <1>1, <1>4
<1> QED BY <1>0, <1>1, <1>3, <1>6, <1>7

\* The parameters up to a segment, and the segments up to it that are filled in.
Params(pattern, segs, F) ==
    /\ F[0] = <<>>
    /\ \A i \in 1 .. Recording!RestOf(pattern) - 1 :
          F[i] = IF pattern[i] = Recording!AWord THEN Append(F[i - 1], <<segs[i]>>) ELSE F[i - 1]

LEMMA ParamsOf ==
    ASSUME NEW pattern \in Seq(STRING), Shaped(pattern), NEW segs \in Seq(STRING), Recording!MatchesPattern(pattern, segs)
    PROVE  LET m == Recording!RestOf(pattern) - 1
           IN \E F \in [0 .. m -> Seq(Seq(STRING))] :
                 /\ Params(pattern, segs, F)
                 /\ Recording!matchPattern(pattern, segs)
                       = F[m] \o (IF Recording!RestOf(pattern) <= Len(pattern)
                                  THEN <<SubSeq(segs, Recording!RestOf(pattern), Len(segs))>> ELSE <<>>)
<1> DEFINE m == Recording!RestOf(pattern) - 1
           Next1(f, i) == IF i = 0 THEN <<>>
                          ELSE IF pattern[i] = Recording!AWord THEN Append(f[i - 1], <<segs[i]>>) ELSE f[i - 1]
           MadeSo(f) == f = [i \in 0 .. m |-> Next1(f, i)]
           F == CHOOSE f : MadeSo(f)
           X == Seq(Seq(STRING))
           step == [p \in X \X (1 .. m) |-> IF pattern[p[2]] = Recording!AWord THEN Append(p[1], <<segs[p[2]]>>) ELSE p[1]]
<1>1. m \in Nat /\ \A i \in 1 .. m : i \in 1 .. Len(segs)
  <2>1. Len(segs) \in Nat
    OBVIOUS
  <2>2. PICK r : r = Recording!RestOf(pattern)
    OBVIOUS
  <2>3. PICK n : n = Len(pattern)
    OBVIOUS
  <2>4. n \in Nat /\ r \in {n, n + 1} /\ r \in Nat \ {0}
    BY <2>2, <2>3, RestIs
  <2>5. IF r <= n THEN r <= Len(segs) ELSE Len(segs) = n
    BY <2>2, <2>3 DEF Recording!MatchesPattern
  <2>6. r - 1 \in Nat /\ \A i \in 1 .. r - 1 : i \in 1 .. Len(segs)
    BY <2>1, <2>4, <2>5
  <2> QED BY <2>2, <2>6
<1>2. step \in [X \X (1 .. m) -> X]
  <2>1. \A i \in 1 .. m : <<segs[i]>> \in Seq(STRING)
    BY <1>1
  <2>2. \A x \in X, i \in 1 .. m : Append(x, <<segs[i]>>) \in X
    BY <2>1
  <2> HIDE DEF X, m
  <2> QED BY <2>2
<1>3. PICK H \in [0 .. m -> X] : H[0] = <<>> /\ \A k \in 1 .. m : H[k] = step[<<H[k - 1], k>>]
  <2>1. <<>> \in X
    OBVIOUS
  <2> HIDE DEF m, step, X
  <2>2. PICK e : e = <<>>
    OBVIOUS
  <2>3. \E f \in [0 .. m -> X] : Makes(f, m, e, step)
    BY <1>1, <1>2, <2>1, <2>2, Recursion
  <2> QED BY <2>2, <2>3 DEF Makes
<1>4. \A k \in 1 .. m : k - 1 \in 0 .. m /\ H[k] = Next1(H, k)
  <2> TAKE k \in 1 .. m
  <2>1. k - 1 \in 0 .. m /\ k # 0
    BY <1>1
  <2>2. <<H[k - 1], k>> \in X \X (1 .. m)
    BY <2>1
  <2>3. step[<<H[k - 1], k>>] = IF pattern[k] = Recording!AWord THEN Append(H[k - 1], <<segs[k]>>) ELSE H[k - 1]
    <3> HIDE DEF X, m
    <3> QED BY <2>2
  <2> HIDE DEF step, X, m
  <2> QED BY <1>3, <2>1, <2>3
<1>5. MadeSo(H)
  <2>1. H = [i \in 0 .. m |-> H[i]]
    OBVIOUS
  <2>2. \A i \in 0 .. m : H[i] = Next1(H, i)
    <3> TAKE i \in 0 .. m
    <3>1. i # 0 => i \in 1 .. m
      BY <1>1
    <3> HIDE DEF step, X, m
    <3> QED BY <1>3, <1>4, <3>1
  <2> HIDE DEF Next1, m, X, step
  <2> QED BY <2>1, <2>2
<1>6. MadeSo(F)
  <2> HIDE DEF MadeSo
  <2> QED BY <1>5
<1>7. Recording!matchPattern(pattern, segs)
         = F[m] \o (IF Recording!RestOf(pattern) <= Len(pattern)
                    THEN <<SubSeq(segs, Recording!RestOf(pattern), Len(segs))>> ELSE <<>>)
  BY DEF Recording!matchPattern
<1> HIDE DEF F
<1>8. /\ F[0] = <<>>
      /\ \A i \in 1 .. m : F[i] = IF pattern[i] = Recording!AWord THEN Append(F[i - 1], <<segs[i]>>) ELSE F[i - 1]
  <2> HIDE DEF m, X, step
  <2>1. \A i \in 0 .. m : F[i] = Next1(F, i)
    <3> HIDE DEF Next1
    <3> QED BY <1>6
  <2>2. 0 \in 0 .. m /\ \A i \in 1 .. m : i \in 0 .. m /\ i # 0
    BY <1>1
  <2> QED BY <2>1, <2>2
<1>9. \A k \in 0 .. m : F[k] = H[k]
  <2>1. F[0] = H[0]
    BY <1>3, <1>8
  <2>2. \A k \in 1 .. m : F[k - 1] = H[k - 1] => F[k] = H[k]
    <3> HIDE DEF m, X, step
    <3> TAKE k \in 1 .. m
    <3>1. H[k] = IF pattern[k] = Recording!AWord THEN Append(H[k - 1], <<segs[k]>>) ELSE H[k - 1]
      <4>1. k # 0
        BY <1>1
      <4> HIDE DEF m, X, step
      <4> QED BY <1>4, <4>1
    <3>2. F[k] = IF pattern[k] = Recording!AWord THEN Append(F[k - 1], <<segs[k]>>) ELSE F[k - 1]
      BY <1>8
    <3> QED BY <3>1, <3>2
  <2>3. m \in Nat
    BY <1>1
  <2> HIDE DEF m, X, step
  <2>4. GoTogether(m, F, H)
    BY <2>1, <2>2 DEF GoTogether
  <2>5. Agree(m, F, H)
    BY <2>3, <2>4, SameSteps
  <2> QED BY <2>5 DEF Agree
<1>10. F \in [0 .. m -> X]
  <2>1. F = [i \in 0 .. m |-> F[i]]
    <3> HIDE DEF Next1, m
    <3> QED BY <1>6
  <2> HIDE DEF X, m, step
  <2> QED BY <1>9, <2>1
<1>11. Params(pattern, segs, F)
  BY <1>8 DEF Params
<1> HIDE DEF F
<1> QED BY <1>7, <1>10, <1>11

\* The first of the segments.
Cut(segs, i) == [k \in 1 .. i |-> segs[k]]

LEMMA CutsGrow ==
    ASSUME NEW S, NEW segs \in Seq(S), NEW i \in 1 .. Len(segs)
    PROVE  /\ Cut(segs, i - 1) \in Seq(S)
           /\ Append(Cut(segs, i - 1), segs[i]) = Cut(segs, i)
           /\ Cut(segs, i - 1) \o <<segs[i]>> = Cut(segs, i)
           /\ Cut(segs, i - 1) \o SubSeq(segs, i, Len(segs)) = segs
<1>1. PICK c : c = Cut(segs, i - 1)
  OBVIOUS
<1>2. PICK n : n = Len(segs)
  OBVIOUS
<1>3. n \in Nat /\ i \in 1 .. n /\ i - 1 \in Nat /\ DOMAIN segs = 1 .. n /\ \A k \in 1 .. n : segs[k] \in S
  BY <1>2
<1>4. c \in Seq(S) /\ Len(c) = i - 1 /\ \A k \in 1 .. i - 1 : c[k] = segs[k]
  <2>1. \A k \in 1 .. i - 1 : k \in 1 .. n
    BY <1>3
  <2>2. c \in [1 .. i - 1 -> S]
    BY <1>1, <1>3, <2>1 DEF Cut
  <2> QED BY <1>1, <1>3, <2>2 DEF Cut
<1>5. PICK d : d = Append(c, segs[i])
  OBVIOUS
<1>6. d \in Seq(S) /\ Len(d) = i /\ \A k \in 1 .. i : d[k] = segs[k]
  <2>1. segs[i] \in S
    BY <1>3
  <2>2. /\ d \in Seq(S) /\ Len(d) = (i - 1) + 1 /\ d[(i - 1) + 1] = segs[i]
        /\ \A k \in 1 .. i - 1 : d[k] = c[k]
    BY ONLY <1>4, <1>5, <2>1, AppendProperties
  <2>3. (i - 1) + 1 = i /\ \A k \in 1 .. i : k \in 1 .. i - 1 \/ k = i
    BY <1>3
  <2> QED BY ONLY <1>4, <2>2, <2>3
<1>7. d = Cut(segs, i)
  <2>1. d = [k \in 1 .. i |-> d[k]]
    BY <1>3, <1>6
  <2> QED BY <1>6, <2>1 DEF Cut
<1>8. c \o <<segs[i]>> = d
  <2>1. segs[i] \in S
    BY <1>3
  <2> QED BY <1>4, <1>5, <2>1, AppendIsConcat
<1>9. c \o SubSeq(segs, i, n) = segs
  <2>1. PICK e : e = SubSeq(segs, i, n)
    OBVIOUS
  <2>2. e \in Seq(S) /\ Len(e) = n - (i - 1) /\ \A k \in 1 .. n - (i - 1) : e[k] = segs[i + k - 1]
    <3>1. i \in 1 .. n + 1 /\ n - i + 1 = n - (i - 1)
      BY <1>3
    <3> QED BY <1>2, <1>3, <2>1, <3>1, SubSeqProperties
  <2>3. PICK f : f = c \o e
    OBVIOUS
  <2>4. /\ f \in Seq(S) /\ Len(f) = (i - 1) + (n - (i - 1))
        /\ \A k \in 1 .. (i - 1) + (n - (i - 1)) : f[k] = IF k <= i - 1 THEN c[k] ELSE e[k - (i - 1)]
    BY ONLY <1>4, <2>2, <2>3, ConcatProperties
  <2>5. (i - 1) + (n - (i - 1)) = n
    BY <1>3
  <2>6. ASSUME NEW k \in 1 .. n PROVE f[k] = segs[k]
    <3>1. CASE k <= i - 1
      BY <1>3, <1>4, <2>4, <2>5, <3>1
    <3>2. CASE ~(k <= i - 1)
      <4>1. PICK j : j = k - (i - 1)
        OBVIOUS
      <4>2. j \in 1 .. n - (i - 1) /\ i + j - 1 = k
        BY <1>3, <3>2, <4>1
      <4>3. e[j] = segs[k]
        BY ONLY <2>2, <4>2
      <4> QED BY ONLY <2>4, <2>5, <2>6, <3>2, <4>1, <4>3
    <3> QED BY <3>1, <3>2
  <2>7. f = segs
    BY <1>2, <1>3, <2>4, <2>5, <2>6
  <2> QED BY <2>1, <2>3, <2>7
<1> QED BY <1>1, <1>2, <1>4, <1>5, <1>7, <1>8, <1>9

\* The parameter of a segment is there from then on.
Gathered(m, pattern, segs, F) ==
    \A i \in 1 .. m :
        /\ <<segs[i]>> \in Seq(STRING)
        /\ F[i] = IF pattern[i] = Recording!AWord THEN Append(F[i - 1], <<segs[i]>>) ELSE F[i - 1]

InPlace(m, pattern, segs, F) ==
    \A i \in 1 .. m : pattern[i] = Recording!AWord =>
        /\ Len(F[i - 1]) \in Nat /\ Len(F[i]) = Len(F[i - 1]) + 1
        /\ Len(F[i]) \in 1 .. Len(F[m]) /\ F[m][Len(F[i])] = <<segs[i]>>

LEMMA ParamStays ==
    ASSUME NEW m \in Nat, NEW F \in [0 .. m -> Seq(Seq(STRING))], NEW pattern, NEW segs, Gathered(m, pattern, segs, F)
    PROVE  InPlace(m, pattern, segs, F)
<1> DEFINE There(i, n) == Len(F[i]) \in 1 .. Len(F[n]) /\ F[n][Len(F[i])] = <<segs[i]>>
           T == {n \in 0 .. m : \A i \in 1 .. n : pattern[i] = Recording!AWord => There(i, n)}
<1> USE DEF Gathered
<1>1. \A n \in 0 .. m : F[n] \in Seq(Seq(STRING)) /\ Len(F[n]) \in Nat
  OBVIOUS
<1>2. ASSUME NEW i \in 1 .. m, pattern[i] = Recording!AWord
      PROVE  /\ i - 1 \in 0 .. m /\ i \in 0 .. m /\ Len(F[i]) = Len(F[i - 1]) + 1 /\ F[i][Len(F[i])] = <<segs[i]>>
             /\ \A k \in 1 .. Len(F[i - 1]) : F[i][k] = F[i - 1][k]
  <2>1. i - 1 \in 0 .. m /\ i \in 0 .. m
    OBVIOUS
  <2>2. PICK s : s = F[i - 1]
    OBVIOUS
  <2>3. s \in Seq(Seq(STRING)) /\ <<segs[i]>> \in Seq(STRING) /\ F[i] = Append(s, <<segs[i]>>)
    BY <1>1, <1>2, <2>1, <2>2
  <2>4. /\ Len(F[i]) = Len(s) + 1 /\ F[i][Len(s) + 1] = <<segs[i]>>
        /\ \A k \in 1 .. Len(s) : F[i][k] = s[k]
    BY ONLY <2>3, AppendProperties
  <2> QED BY <2>1, <2>2, <2>4
<1>3. 0 \in T
  OBVIOUS
<1>4. ASSUME NEW n \in 0 .. m - 1, n \in T PROVE n + 1 \in T
  <2>1. PICK l : l = n + 1
    OBVIOUS
  <2>2. l \in 1 .. m /\ l \in 0 .. m /\ l - 1 = n /\ n \in 0 .. m
    BY <2>1
  <2>3. \A i \in 1 .. l : i \in 1 .. n \/ i = l
    BY <2>1
  <2>4. ASSUME NEW i \in 1 .. n, pattern[i] = Recording!AWord PROVE There(i, l)
    <3>1. There(i, n)
      BY <1>4, <2>4
    <3>2. CASE pattern[l] = Recording!AWord
      <4>1. Len(F[l]) = Len(F[n]) + 1 /\ \A k \in 1 .. Len(F[n]) : F[l][k] = F[n][k]
        BY <1>2, <2>2, <3>2
      <4>2. Len(F[n]) \in Nat
        BY <1>1, <2>2
      <4>3. PICK a : a = Len(F[i])
        OBVIOUS
      <4>4. PICK b : b = Len(F[n])
        OBVIOUS
      <4>5. a \in 1 .. b /\ b \in Nat /\ F[n][a] = <<segs[i]>> /\ Len(F[l]) = b + 1
        BY <3>1, <4>1, <4>2, <4>3, <4>4
      <4>6. F[l][a] = F[n][a]
        BY <4>1, <4>4, <4>5
      <4>7. a \in 1 .. b + 1
        BY ONLY <4>5
      <4> QED BY <4>3, <4>5, <4>6, <4>7
    <3>3. CASE pattern[l] # Recording!AWord
      <4>1. F[l] = IF pattern[l] = Recording!AWord THEN Append(F[l - 1], <<segs[l]>>) ELSE F[l - 1]
        BY <2>2
      <4>2. F[l] = F[n]
        BY <2>2, <3>3, <4>1
      <4> QED BY ONLY <3>1, <4>2
    <3> QED BY <3>2, <3>3
  <2>5. ASSUME pattern[l] = Recording!AWord PROVE There(l, l)
    <3>1. Len(F[l]) = Len(F[l - 1]) + 1 /\ F[l][Len(F[l])] = <<segs[l]>> /\ Len(F[l - 1]) \in Nat
      BY <1>1, <1>2, <2>2, <2>5
    <3> QED BY ONLY <3>1
  <2> HIDE DEF There
  <2> QED BY <2>1, <2>2, <2>3, <2>4, <2>5
<1>5. m \in T
  <2> HIDE DEF T
  <2>1. 0 .. m \subseteq T
    BY <1>3, <1>4, InductionUpTo
  <2> QED BY <2>1
<1>6. \A i \in 1 .. m : pattern[i] = Recording!AWord => There(i, m)
  <2> HIDE DEF There
  <2> QED BY <1>5
<1> QED BY <1>1, <1>2, <1>6 DEF InPlace

\* The parameter that a wildcard is filled with is the one that was read there.
LEMMA ParamsInPlace ==
    ASSUME NEW pattern \in Seq(STRING), Shaped(pattern), NEW segs \in Seq(STRING),
           Recording!MatchesPattern(pattern, segs)
    PROVE  LET n == Len(pattern)
               r == Recording!RestOf(pattern)
               params == Recording!matchPattern(pattern, segs)
           IN \E F \in [0 .. r - 1 -> Seq(Seq(STRING))] :
                 /\ F[0] = <<>>
                 /\ \A i \in 1 .. r - 1 :
                       IF pattern[i] = Recording!AWord
                       THEN params[Len(F[i - 1]) + 1] = <<segs[i]>> /\ Len(F[i]) = Len(F[i - 1]) + 1
                       ELSE Len(F[i]) = Len(F[i - 1])
                 /\ r <= n => params[Len(F[r - 1]) + 1] = SubSeq(segs, r, Len(segs))
<1>1. PICK n : n = Len(pattern)
  OBVIOUS
<1>2. PICK r : r = Recording!RestOf(pattern)
  OBVIOUS
<1>3. PICK params : params = Recording!matchPattern(pattern, segs)
  OBVIOUS
<1>4. PICK m : m = r - 1
  OBVIOUS
<1>5. n \in Nat /\ r \in {n, n + 1} /\ r \in Nat \ {0} /\ m \in Nat
  BY <1>1, <1>2, <1>4, RestIs
<1>6. IF r <= n THEN r <= Len(segs) ELSE Len(segs) = n
  BY <1>1, <1>2 DEF Recording!MatchesPattern
<1>7. PICK F \in [0 .. m -> Seq(Seq(STRING))] :
          /\ Params(pattern, segs, F)
          /\ params = F[m] \o (IF r <= n THEN <<SubSeq(segs, r, Len(segs))>> ELSE <<>>)
  BY <1>1, <1>2, <1>3, <1>4, ParamsOf
<1>8. /\ F[0] = <<>>
      /\ \A i \in 1 .. m : F[i] = IF pattern[i] = Recording!AWord THEN Append(F[i - 1], <<segs[i]>>) ELSE F[i - 1]
  BY <1>2, <1>4, <1>7 DEF Params
<1>9. \A i \in 1 .. m : i \in 1 .. Len(segs) /\ <<segs[i]>> \in Seq(STRING)
  <2>1. Len(segs) \in Nat /\ \A i \in 1 .. Len(segs) : <<segs[i]>> \in Seq(STRING)
    OBVIOUS
  <2>2. \A i \in 1 .. m : i \in 1 .. Len(segs)
    BY <1>4, <1>5, <1>6, <2>1
  <2> QED BY <2>1, <2>2
<1>10. \A i \in 1 .. m : pattern[i] = Recording!AWord =>
          /\ Len(F[i - 1]) \in Nat /\ Len(F[i]) = Len(F[i - 1]) + 1
          /\ Len(F[i]) \in 1 .. Len(F[m]) /\ F[m][Len(F[i])] = <<segs[i]>>
  <2>1. Gathered(m, pattern, segs, F)
    BY <1>8, <1>9 DEF Gathered
  <2>2. InPlace(m, pattern, segs, F)
    BY ONLY <1>5, <1>7, <2>1, ParamStays
  <2> QED BY <2>2 DEF InPlace
<1>11. F[m] \in Seq(Seq(STRING)) /\ Len(F[m]) \in Nat
  BY <1>5
<1>12. /\ \A k \in 1 .. Len(F[m]) : params[k] = F[m][k]
       /\ r <= n => params[Len(F[m]) + 1] = SubSeq(segs, r, Len(segs))
  <2>1. PICK s : s = F[m]
    OBVIOUS
  <2>2. PICK e : e = SubSeq(segs, r, Len(segs))
    OBVIOUS
  <2>3. CASE r <= n
    <3>1. e \in Seq(STRING)
      <4>1. r \in 1 .. Len(segs) + 1 /\ Len(segs) \in Nat
        BY <1>5, <1>6, <2>3
      <4>2. \A k \in r .. Len(segs) : segs[k] \in STRING
        BY <1>5, <4>1
      <4> QED BY <1>5, <2>2, <4>1, <4>2, SubSeqProperties
    <3>2. s \in Seq(Seq(STRING)) /\ params = Append(s, e) /\ Len(s) \in Nat
      <4>1. params = s \o <<e>>
        BY <1>7, <2>1, <2>2, <2>3
      <4>2. s \in Seq(Seq(STRING)) /\ e \in Seq(STRING)
        BY <1>11, <2>1, <3>1
      <4>3. Append(s, e) = s \o <<e>>
        BY ONLY <4>2, AppendIsConcat
      <4> QED BY <1>11, <2>1, <4>1, <4>3
    <3>3. params[Len(s) + 1] = e /\ \A k \in 1 .. Len(s) : params[k] = s[k]
      BY ONLY <3>1, <3>2, AppendProperties
    <3> QED BY <2>1, <2>2, <3>3
  <2>4. CASE ~(r <= n)
    <3>1. params = s \o <<>> /\ s \in Seq(Seq(STRING))
      BY <1>7, <1>11, <2>1, <2>4
    <3>2. params = s
      BY ONLY <3>1, ConcatEmptySeq
    <3> QED BY <2>1, <2>4, <3>2
  <2> QED BY <2>3, <2>4
<1>13. ASSUME NEW i \in 1 .. m
       PROVE  IF pattern[i] = Recording!AWord
              THEN params[Len(F[i - 1]) + 1] = <<segs[i]>> /\ Len(F[i]) = Len(F[i - 1]) + 1
              ELSE Len(F[i]) = Len(F[i - 1])
  <2>1. CASE pattern[i] = Recording!AWord
    <3>1. /\ Len(F[i]) = Len(F[i - 1]) + 1
          /\ Len(F[i]) \in 1 .. Len(F[m]) /\ F[m][Len(F[i])] = <<segs[i]>>
      BY <1>10, <2>1
    <3>2. params[Len(F[i])] = <<segs[i]>>
      BY <1>12, <3>1
    <3> QED BY ONLY <2>1, <3>1, <3>2
  <2>2. CASE pattern[i] # Recording!AWord
    <3>1. F[i] = F[i - 1]
      <4>1. F[i] = IF pattern[i] = Recording!AWord THEN Append(F[i - 1], <<segs[i]>>) ELSE F[i - 1]
        BY <1>8
      <4> QED BY ONLY <2>2, <4>1
    <3> QED BY ONLY <2>2, <3>1
  <2> QED BY <2>1, <2>2
<1> QED BY <1>1, <1>2, <1>3, <1>4, <1>7, <1>8, <1>12, <1>13

\* What a pattern is filled with, up to a segment.
Fills(pattern, params, f) ==
    \A i \in 1 .. Len(pattern) :
        f[i] = IF Recording!IsWild(pattern[i])
               THEN [segs |-> f[i - 1].segs \o params[f[i - 1].used + 1], used |-> f[i - 1].used + 1]
               ELSE [segs |-> Append(f[i - 1].segs, pattern[i]), used |-> f[i - 1].used]

\* A function that is filled so ends as the pattern does.
LEMMA FilledSo ==
    ASSUME NEW pattern \in Seq(STRING), NEW params, NEW H,
           H = [i \in 0 .. Len(pattern) |-> H[i]], H[0] = [segs |-> <<>>, used |-> 0], Fills(pattern, params, H)
    PROVE  Recording!fillPattern(pattern, params) = H[Len(pattern)].segs
<1> DEFINE n == Len(pattern)
           Step(f, i) ==
               IF i = 0 THEN [segs |-> <<>>, used |-> 0]
               ELSE IF Recording!IsWild(pattern[i])
                    THEN [segs |-> f[i - 1].segs \o params[f[i - 1].used + 1], used |-> f[i - 1].used + 1]
                    ELSE [segs |-> Append(f[i - 1].segs, pattern[i]), used |-> f[i - 1].used]
           MadeSo(f) == f = [i \in 0 .. n |-> Step(f, i)]
           f == CHOOSE f : MadeSo(f)
<1>1. n \in Nat
  OBVIOUS
<1>2. Recording!fillPattern(pattern, params) = f[n].segs
  BY DEF Recording!fillPattern
<1> HIDE DEF n
<1>3. MadeSo(H)
  <2>1. \A i \in 0 .. n : H[i] = Step(H, i)
    <3> TAKE i \in 0 .. n
    <3>1. i # 0 => i \in 1 .. n
      BY <1>1
    <3>2. i # 0 => H[i] = Step(H, i)
      BY <3>1 DEF Fills, n
    <3> QED BY <3>2
  <2>2. H = [i \in 0 .. n |-> H[i]]
    BY DEF n
  <2> HIDE DEF Step
  <2> QED BY <2>1, <2>2
<1>4. MadeSo(f)
  <2> HIDE DEF MadeSo
  <2> QED BY <1>3
<1> HIDE DEF f
<1>5. \A i \in 0 .. n : f[i] = Step(f, i)
  <2> HIDE DEF Step
  <2> QED BY <1>4
<1>6. \A i \in 0 .. n : H[i] = Step(H, i)
  <2> HIDE DEF Step
  <2> QED BY <1>3
<1>7. GoTogether(n, f, H)
  <2>1. f[0] = H[0]
    <3>1. 0 \in 0 .. n
      BY <1>1
    <3> HIDE DEF MadeSo
    <3>2. f[0] = Step(f, 0) /\ H[0] = Step(H, 0)
      <4> HIDE DEF Step
      <4> QED BY <1>5, <1>6, <3>1
    <3> QED BY <3>2
  <2>2. ASSUME NEW k \in 1 .. n, f[k - 1] = H[k - 1] PROVE f[k] = H[k]
    <3>1. k \in 0 .. n /\ k # 0
      BY <1>1
    <3>2. f[k] = Step(f, k) /\ H[k] = Step(H, k)
      <4> HIDE DEF Step
      <4> QED BY <1>5, <1>6, <3>1
    <3>3. Step(f, k) = Step(H, k)
      BY <2>2, <3>1
    <3> HIDE DEF Step
    <3> QED BY <3>2, <3>3
  <2> QED BY <2>1, <2>2 DEF GoTogether
<1>8. Agree(n, f, H)
  BY <1>1, <1>7, SameSteps
<1>9. f[n] = H[n]
  BY <1>1, <1>8 DEF Agree
<1> QED BY <1>2, <1>9 DEF n

\* The address a name was read from is the address it leads to.
LEMMA FillsBack ==
    ASSUME NEW pattern \in Seq(STRING), Shaped(pattern), NEW segs \in Seq(STRING),
           Recording!MatchesPattern(pattern, segs)
    PROVE  Recording!fillPattern(pattern, Recording!matchPattern(pattern, segs)) = segs
<1>1. PICK n : n = Len(pattern)
  OBVIOUS
<1>2. PICK r : r = Recording!RestOf(pattern)
  OBVIOUS
<1>3. PICK params : params = Recording!matchPattern(pattern, segs)
  OBVIOUS
<1>4. PICK m : m = r - 1
  OBVIOUS
<1>5. n \in Nat /\ r \in {n, n + 1} /\ r \in Nat \ {0} /\ m \in Nat
  BY <1>1, <1>2, <1>4, RestIs
<1>6. /\ r = n => pattern[n] = Recording!TheRest
      /\ \A j \in 1 .. m : j \in 1 .. n /\ pattern[j] # Recording!TheRest
  BY <1>1, <1>2, <1>4, RestIs
<1>7. PICK F \in [0 .. m -> Seq(Seq(STRING))] :
          /\ F[0] = <<>>
          /\ \A i \in 1 .. m :
                IF pattern[i] = Recording!AWord
                THEN params[Len(F[i - 1]) + 1] = <<segs[i]>> /\ Len(F[i]) = Len(F[i - 1]) + 1
                ELSE Len(F[i]) = Len(F[i - 1])
          /\ r <= n => params[Len(F[m]) + 1] = SubSeq(segs, r, Len(segs))
  BY <1>1, <1>2, <1>3, <1>4, ParamsInPlace
<1>8. IF r <= n THEN r <= Len(segs) ELSE Len(segs) = n
  BY <1>1, <1>2 DEF Recording!MatchesPattern
<1>9. \A i \in 1 .. m : pattern[i] # Recording!AWord => pattern[i] = segs[i]
  BY <1>2, <1>4 DEF Recording!MatchesPattern
<1>10. \A i \in 1 .. m : i \in 1 .. Len(segs)
  <2>1. Len(segs) \in Nat
    OBVIOUS
  <2> QED BY <1>4, <1>5, <1>8, <2>1
<1> DEFINE H == [i \in 0 .. n |-> IF i <= m THEN [segs |-> Cut(segs, i), used |-> Len(F[i])]
                                  ELSE [segs |-> segs, used |-> Len(F[m]) + 1]]
<1>11. H = [i \in 0 .. n |-> H[i]]
  OBVIOUS
<1>12. \A i \in 0 .. m : i \in 0 .. n /\ H[i] = [segs |-> Cut(segs, i), used |-> Len(F[i])]
  <2>1. \A i \in 0 .. m : i \in 0 .. n /\ i <= m
    BY <1>4, <1>5
  <2> QED BY <2>1
<1>13. r = n => H[n] = [segs |-> segs, used |-> Len(F[m]) + 1]
  <2>1. r = n => n \in 0 .. n /\ ~(n <= m)
    BY <1>4, <1>5
  <2> QED BY <2>1
<1> HIDE DEF H
<1>14. H[0] = [segs |-> <<>>, used |-> 0]
  <2>1. 0 \in 0 .. m
    BY <1>5
  <2>2. Cut(segs, 0) = <<>>
    BY DEF Cut
  <2>3. Len(<<>>) = 0
    OBVIOUS
  <2> QED BY <1>7, <1>12, <2>1, <2>2, <2>3
<1>15. ASSUME NEW i \in 1 .. n
       PROVE  H[i] = IF Recording!IsWild(pattern[i])
                     THEN [segs |-> H[i - 1].segs \o params[H[i - 1].used + 1], used |-> H[i - 1].used + 1]
                     ELSE [segs |-> Append(H[i - 1].segs, pattern[i]), used |-> H[i - 1].used]
  <2>1. i \in 1 .. m \/ i = r
    BY <1>4, <1>5
  <2>2. i - 1 \in 0 .. m
    BY <1>4, <1>5
  <2>3. H[i - 1] = [segs |-> Cut(segs, i - 1), used |-> Len(F[i - 1])]
    BY <1>12, <2>2
  <2>4. H[i - 1].segs = Cut(segs, i - 1) /\ H[i - 1].used = Len(F[i - 1])
    BY <2>3
  <2>5. CASE i \in 1 .. m
    <3>1. H[i] = [segs |-> Cut(segs, i), used |-> Len(F[i])]
      BY <1>12, <2>5
    <3>2. /\ Append(Cut(segs, i - 1), segs[i]) = Cut(segs, i)
          /\ Cut(segs, i - 1) \o <<segs[i]>> = Cut(segs, i)
      BY <1>10, <2>5, CutsGrow
    <3>3. Recording!IsWild(pattern[i]) <=> pattern[i] = Recording!AWord
      BY <1>6, <2>5 DEF Recording!IsWild
    <3>4. CASE pattern[i] = Recording!AWord
      <4>1. params[Len(F[i - 1]) + 1] = <<segs[i]>> /\ Len(F[i]) = Len(F[i - 1]) + 1
        BY <1>7, <2>5, <3>4
      <4> QED BY <2>4, <3>1, <3>2, <3>3, <3>4, <4>1
    <3>5. CASE pattern[i] # Recording!AWord
      <4>1. Len(F[i]) = Len(F[i - 1]) /\ pattern[i] = segs[i]
        BY <1>7, <1>9, <2>5, <3>5
      <4> QED BY <2>4, <3>1, <3>2, <3>3, <3>5, <4>1
    <3> QED BY <3>4, <3>5
  <2>6. CASE i = r
    <3>1. r = n /\ i - 1 = m /\ r <= n
      BY <1>4, <1>5, <2>6
    <3>2. H[i] = [segs |-> segs, used |-> Len(F[m]) + 1]
      BY <1>13, <2>6, <3>1
    <3>3. Recording!IsWild(pattern[i])
      BY <1>6, <2>6, <3>1 DEF Recording!IsWild
    <3>4. params[Len(F[m]) + 1] = SubSeq(segs, i, Len(segs))
      BY <1>7, <2>6, <3>1
    <3>5. i \in 1 .. Len(segs)
      <4>1. Len(segs) \in Nat
        OBVIOUS
      <4> QED BY <1>5, <1>8, <2>6, <3>1, <4>1
    <3>6. Cut(segs, i - 1) \o SubSeq(segs, i, Len(segs)) = segs
      BY <3>5, CutsGrow
    <3> QED BY <2>4, <3>1, <3>2, <3>3, <3>4, <3>6
  <2> QED BY <2>1, <2>5, <2>6
<1>16. Fills(pattern, params, H)
  BY <1>1, <1>15 DEF Fills
<1>17. Recording!fillPattern(pattern, params) = H[n].segs
  BY <1>1, <1>11, <1>14, <1>16, FilledSo
<1>18. H[n].segs = segs
  <2>1. CASE r = n
    BY <1>13, <2>1
  <2>2. CASE r # n
    <3>1. n \in 0 .. m /\ Len(segs) = n
      BY <1>4, <1>5, <1>8, <2>2
    <3>2. H[n].segs = Cut(segs, n)
      <4>1. H[n] = [segs |-> Cut(segs, n), used |-> Len(F[n])]
        BY <1>12, <3>1
      <4> QED BY <4>1
    <3>3. Cut(segs, n) = segs
      BY <3>1 DEF Cut
    <3> QED BY <3>2, <3>3
  <2> QED BY <2>1, <2>2
<1> QED BY <1>3, <1>17, <1>18

\* Of the routes an address matches one comes before the others.
LEMMA LiteralsAreANumber == ASSUME NEW pattern \in Seq(STRING) PROVE Recording!literalSegments(pattern) \in Nat
<1> DEFINE L == {i \in DOMAIN pattern : ~ Recording!IsWild(pattern[i])}
<1>1. Len(pattern) \in Nat /\ L \subseteq 1 .. Len(pattern)
  OBVIOUS
<1>2. IsFiniteSet(L)
  <2> HIDE DEF L
  <2>1. IsFiniteSet(1 .. Len(pattern))
    BY <1>1, FS_Interval
  <2> QED BY <1>1, <2>1, FS_Subset
<1>3. Cardinality(L) \in Nat
  <2> HIDE DEF L
  <2> QED BY <1>2, FS_CardinalityType
<1> QED BY <1>3 DEF Recording!literalSegments, Recording!Cardinality, Cardinality

LEMMA PatternsAreShaped ==
    ASSUME NEW i \in DOMAIN RouteTable
    PROVE  RouteTable[i].pattern \in Seq(STRING) /\ Shaped(RouteTable[i].pattern)
<1> DEFINE Route == [name : STRING, pattern : Seq(STRING)]
<1>1. RouteTable \in Seq(Route)
  BY RoutesAssumption
<1>2. RouteTable[i] \in Route
  <2> HIDE DEF Route
  <2>1. i \in 1 .. Len(RouteTable)
    BY <1>1
  <2> QED BY <1>1, <2>1, ElementOfSeq
<1>3. Shaped(RouteTable[i].pattern)
  BY RoutesAssumption DEF Shaped
<1> QED BY <1>2, <1>3

LEMMA OneComesFirst ==
    ASSUME NEW S, S \subseteq DOMAIN RouteTable, S # {}
    PROVE  \E i \in S : \A j \in S \ {i} : Recording!Precedes(i, j)
<1> DEFINE lit(i) == Recording!literalSegments(RouteTable[i].pattern)
           OneFirst(R) == \E i \in R : \A j \in R \ {i} : Recording!Precedes(i, j)
           T == {k \in 0 .. Len(RouteTable) : \A R \in SUBSET (1 .. k) : R # {} => OneFirst(R)}
<1>1. Len(RouteTable) \in Nat /\ DOMAIN RouteTable = 1 .. Len(RouteTable)
  BY RoutesAssumption
<1>2. \A i \in 1 .. Len(RouteTable) : lit(i) \in Nat
  <2>1. \A i \in 1 .. Len(RouteTable) : RouteTable[i].pattern \in Seq(STRING)
    BY <1>1, PatternsAreShaped
  <2> QED BY <2>1, LiteralsAreANumber
<1>3. \A i, j : Recording!Precedes(i, j) <=> lit(i) > lit(j) \/ (lit(i) = lit(j) /\ i < j)
  BY DEF Recording!Precedes
<1> HIDE DEF lit
<1>4. 0 \in T
  <2>1. \A R \in SUBSET (1 .. 0) : R = {}
    OBVIOUS
  <2>2. 0 \in 0 .. Len(RouteTable)
    BY <1>1
  <2> HIDE DEF OneFirst
  <2> QED BY <2>1, <2>2
<1>5. ASSUME NEW n \in 0 .. Len(RouteTable) - 1, n \in T PROVE n + 1 \in T
  <2>1. PICK l : l = n + 1
    OBVIOUS
  <2>2. l \in 1 .. Len(RouteTable) /\ l \in 0 .. Len(RouteTable) /\ n \in Nat
    BY <1>1, <2>1
  <2>3. ASSUME NEW R \in SUBSET (1 .. l), R # {} PROVE OneFirst(R)
    <3>1. R \ {l} \in SUBSET (1 .. n)
      BY <2>1, <2>2
    <3>2. \A i \in R : i \in 1 .. Len(RouteTable) /\ lit(i) \in Nat /\ i \in Nat
      BY <1>1, <1>2, <2>2
    <3>3. CASE R \ {l} = {}
      <4>1. R = {l}
        BY <2>3, <3>3
      <4> HIDE DEF T
      <4> QED BY <4>1
    <3>4. CASE R \ {l} # {} /\ l \in R
      <4>1. PICK b \in R \ {l} : \A j \in (R \ {l}) \ {b} : Recording!Precedes(b, j)
        BY <1>5, <3>1, <3>4
      <4>2. CASE Recording!Precedes(b, l)
        <5>1. \A j \in R \ {b} : Recording!Precedes(b, j)
          BY <4>1, <4>2
        <5> QED BY <4>1, <5>1
      <4>3. CASE ~ Recording!Precedes(b, l)
        <5>1. b \in Nat /\ l \in Nat /\ b # l /\ lit(b) \in Nat /\ lit(l) \in Nat
          BY <3>2, <3>4, <4>1
        <5>2. Recording!Precedes(l, b)
          BY <1>3, <4>3, <5>1
        <5>3. ASSUME NEW j \in R \ {l} PROVE Recording!Precedes(l, j)
          <6>1. j = b \/ Recording!Precedes(b, j)
            BY <4>1
          <6>2. j \in Nat /\ lit(j) \in Nat
            BY <3>2
          <6> QED BY <1>3, <5>1, <5>2, <6>1, <6>2
        <5> QED BY <3>4, <5>3
      <4> QED BY <4>2, <4>3
    <3>5. CASE l \notin R
      <4>1. R \ {l} = R
        BY <3>5
      <4> QED BY <1>5, <2>3, <3>1, <4>1
    <3> QED BY <3>3, <3>4, <3>5
  <2> HIDE DEF OneFirst
  <2> QED BY <2>1, <2>2, <2>3
<1>6. Len(RouteTable) \in T
  <2> HIDE DEF T
  <2>1. 0 .. Len(RouteTable) \subseteq T
    BY <1>1, <1>4, <1>5, InductionUpTo
  <2> QED BY <1>1, <2>1
<1>7. OneFirst(S)
  <2> HIDE DEF OneFirst
  <2> QED BY <1>1, <1>6
<1> QED BY <1>7

\* What is written of a page leads to it.
LEMMA LeadsBack == ASSUME NEW a \in Pages PROVE Recording!Resolves(Recording!routeTarget(a)) = a
<1> DEFINE named == Recording!Named(a)
           b == CHOOSE i \in named : \A j \in named \ {i} : Recording!Precedes(i, j)
           what == Recording!routeTarget(a)
<1>1. a \in [segs : Seq(STRING), query : BOOLEAN, other : BOOLEAN]
  BY PagesAssumption
<1>2. CASE a.other \/ a.query \/ named = {}
  <2>1. what.name = Recording!Nothing /\ what.path = a
    BY <1>2 DEF Recording!routeTarget
  <2> HIDE DEF what
  <2>2. Recording!Resolves(what) = what.path
    BY <2>1 DEF Recording!Resolves
  <2> QED BY <2>1, <2>2 DEF what
<1>3. CASE ~(a.other \/ a.query \/ named = {})
  <2>1. what = [name |-> RouteTable[b].name, params |-> Recording!matchPattern(RouteTable[b].pattern, a.segs),
                path |-> Recording!NoPage]
    BY <1>3 DEF Recording!routeTarget
  <2>2. b \in named
    <3>1. named \subseteq DOMAIN RouteTable
      BY DEF Recording!Named
    <3> HIDE DEF named
    <3>2. \E i \in named : \A j \in named \ {i} : Recording!Precedes(i, j)
      BY <1>3, <3>1, OneComesFirst
    <3> QED BY <3>2
  <2>3. b \in DOMAIN RouteTable /\ Recording!MatchesPattern(RouteTable[b].pattern, a.segs)
    <3> HIDE DEF b
    <3> QED BY <2>2 DEF Recording!Named
  <2> HIDE DEF b, what
  <2> DEFINE r == CHOOSE r \in Recording!ToSet(RouteTable) : r.name = what.name
  <2>4. r = RouteTable[b]
    <3>1. RouteTable[b] \in Recording!ToSet(RouteTable) /\ RouteTable[b].name = what.name
      BY <2>1, <2>3 DEF Recording!ToSet
    <3>2. r \in Recording!ToSet(RouteTable) /\ r.name = what.name
      BY <3>1
    <3> HIDE DEF r
    <3>3. PICK j \in DOMAIN RouteTable : r = RouteTable[j]
      BY <3>2 DEF Recording!ToSet
    <3>4. j = b
      BY <2>3, <3>1, <3>2, <3>3, RoutesAssumption
    <3> QED BY <3>3, <3>4
  <2>5. what.name # Recording!Nothing
    BY <2>1, <2>3, RoutesAssumption
  <2>6. Recording!Resolves(what) = [segs |-> Recording!fillPattern(r.pattern, what.params), query |-> FALSE, other |-> FALSE]
    BY <2>5 DEF Recording!Resolves
  <2> HIDE DEF r
  <2>7. RouteTable[b].pattern \in Seq(STRING) /\ Shaped(RouteTable[b].pattern) /\ a.segs \in Seq(STRING)
    <3>1. a.segs \in Seq(STRING)
      BY <1>1
    <3> QED BY <2>3, <3>1, PatternsAreShaped
  <2>8. Recording!fillPattern(RouteTable[b].pattern, Recording!matchPattern(RouteTable[b].pattern, a.segs)) = a.segs
    BY <2>3, <2>7, FillsBack
  <2>9. a = [segs |-> a.segs, query |-> FALSE, other |-> FALSE]
    BY <1>1, <1>3
  <2>10. what.params = Recording!matchPattern(RouteTable[b].pattern, a.segs)
    BY <2>1
  <2>11. Recording!Resolves(what) = [segs |-> a.segs, query |-> FALSE, other |-> FALSE]
    BY <2>4, <2>6, <2>8, <2>10
  <2> QED BY <2>9, <2>11 DEF what
<1> QED BY <1>2, <1>3

(***************************************************************************)
(* The recorder: what a recording follows, and where its journey walks.    *)
(***************************************************************************)
Reports ==
    {e \in [kind : {"load", "click"} \cup {g.kind : g \in Gestures}, what : Pages \cup Gestures] :
        IF e.kind = "load" THEN e.what \in Pages ELSE e.what \in Gestures}
Sayings ==
    {Recording!Visit(p) : p \in Pages} \cup {Recording!ExpectURL(p) : p \in Pages}
    \cup {Recording!Gesture(g) : g \in Gestures}
JourneySoFar == [steps : Seq(Sayings), acted : BOOLEAN, last : SUBSET Pages]
Begun == [steps |-> <<>>, acted |-> FALSE, last |-> {}]

LEMMA RecordedType ==
    ASSUME NEW s \in JourneySoFar, NEW e \in Reports
    PROVE  Recording!Recorded(s, e) \in JourneySoFar
<1>1. /\ s = [steps |-> s.steps, acted |-> s.acted, last |-> s.last]
      /\ s.steps \in Seq(Sayings) /\ s.acted \in BOOLEAN /\ s.last \in SUBSET Pages
  BY DEF JourneySoFar
<1>2. /\ e.kind = "load" => /\ e.what \in Pages /\ Recording!Visit(e.what) \in Sayings
                            /\ Recording!ExpectURL(e.what) \in Sayings
      /\ e.kind # "load" => Recording!Gesture(e.what) \in Sayings
  BY DEF Reports, Sayings
<1>3. \A a \in Sayings : Append(s.steps, a) \in Seq(Sayings)
  BY <1>1
<1>4. CASE e.kind # "load"
  <2>1. Recording!Recorded(s, e) = [steps |-> Append(s.steps, Recording!Gesture(e.what)), acted |-> TRUE, last |-> s.last]
    BY <1>1, <1>4 DEF Recording!Recorded
  <2> QED BY <1>1, <1>2, <1>3, <1>4, <2>1 DEF JourneySoFar
<1>5. CASE e.kind = "load" /\ s.last = {e.what}
  BY <1>5 DEF Recording!Recorded
<1>6. CASE e.kind = "load" /\ s.last # {e.what}
  <2>1. Recording!Recorded(s, e)
          = [steps |-> Append(s.steps, IF s.acted THEN Recording!ExpectURL(e.what) ELSE Recording!Visit(e.what)),
             acted |-> FALSE, last |-> {e.what}]
    BY <1>6 DEF Recording!Recorded
  <2>2. PICK t : t = Append(s.steps, IF s.acted THEN Recording!ExpectURL(e.what) ELSE Recording!Visit(e.what))
    OBVIOUS
  <2>3. t \in Seq(Sayings)
    BY <1>2, <1>3, <1>6, <2>2
  <2> QED BY <1>2, <1>6, <2>1, <2>2, <2>3 DEF JourneySoFar
<1> QED BY <1>4, <1>5, <1>6

\* What has been followed of a recording, report by report.
Follows(seq, f) == f[0] = Begun /\ \A k \in 1 .. Len(seq) : f[k] = Recording!Recorded(f[k - 1], seq[k])

LEMMA FollowedSo ==
    ASSUME NEW seq \in Seq(Reports)
    PROVE  \E f \in [0 .. Len(seq) -> JourneySoFar] : Follows(seq, f) /\ Recording!Followed(seq) = f[Len(seq)]
<1> DEFINE n == Len(seq)
           step == [p \in JourneySoFar \X (1 .. n) |-> Recording!Recorded(p[1], seq[p[2]])]
           Step(f, i) == IF i = 0 THEN [steps |-> <<>>, acted |-> FALSE, last |-> {}]
                         ELSE Recording!Recorded(f[i - 1], seq[i])
           MadeSo(f) == f = [i \in 0 .. n |-> Step(f, i)]
           f == CHOOSE f : MadeSo(f)
<1>1. n \in Nat /\ \A i \in 1 .. n : seq[i] \in Reports
  OBVIOUS
<1>2. Recording!Followed(seq) = f[n]
  BY DEF Recording!Followed
<1> HIDE DEF n
<1>3. step \in [JourneySoFar \X (1 .. n) -> JourneySoFar]
  BY <1>1, RecordedType
<1>4. Begun \in JourneySoFar
  <2>1. <<>> \in Seq(Sayings) /\ {} \in SUBSET Pages
    OBVIOUS
  <2> QED BY <2>1 DEF Begun, JourneySoFar
<1>5. PICK H \in [0 .. n -> JourneySoFar] : Makes(H, n, Begun, step)
  <2> HIDE DEF step
  <2> QED BY <1>1, <1>3, <1>4, Recursion
<1>6. H[0] = Begun /\ \A k \in 1 .. n : H[k] = Recording!Recorded(H[k - 1], seq[k])
  <2>1. ASSUME NEW k \in 1 .. n PROVE H[k] = Recording!Recorded(H[k - 1], seq[k])
    <3>1. <<H[k - 1], k>> \in JourneySoFar \X (1 .. n)
      <4>1. k - 1 \in 0 .. n
        BY <1>1
      <4> QED BY <1>5, <4>1
    <3>2. step[<<H[k - 1], k>>] = Recording!Recorded(H[k - 1], seq[k])
      BY <3>1
    <3> HIDE DEF step
    <3> QED BY <1>5, <3>2 DEF Makes
  <2> QED BY <1>5, <2>1 DEF Makes
<1>7. MadeSo(H)
  <2>1. \A i \in 0 .. n : H[i] = Step(H, i)
    <3> TAKE i \in 0 .. n
    <3>1. i # 0 => i \in 1 .. n
      BY <1>1
    <3> QED BY <1>6, <3>1 DEF Begun
  <2>2. H = [i \in 0 .. n |-> H[i]]
    BY <1>5
  <2> HIDE DEF Step
  <2> QED BY <2>1, <2>2
<1>8. MadeSo(f)
  <2> HIDE DEF MadeSo
  <2> QED BY <1>7
<1> HIDE DEF f, step
<1>9. \A i \in 0 .. n : f[i] = Step(f, i)
  <2> HIDE DEF Step
  <2> QED BY <1>8
<1>10. GoTogether(n, f, H)
  <2>1. f[0] = Begun
    <3>1. 0 \in 0 .. n
      BY <1>1
    <3>2. f[0] = Step(f, 0)
      <4> HIDE DEF Step
      <4> QED BY <1>9, <3>1
    <3> QED BY <3>2 DEF Begun
  <2>2. ASSUME NEW k \in 1 .. n, f[k - 1] = H[k - 1] PROVE f[k] = H[k]
    <3>1. k \in 0 .. n /\ k # 0
      BY <1>1
    <3>2. f[k] = Step(f, k)
      <4> HIDE DEF Step
      <4> QED BY <1>9, <3>1
    <3> QED BY <1>6, <2>2, <3>1, <3>2
  <2> QED BY <1>6, <2>1, <2>2 DEF GoTogether
<1>11. Agree(n, f, H)
  BY <1>1, <1>10, SameSteps
<1>12. f[n] = H[n]
  BY <1>1, <1>11 DEF Agree
<1>13. Follows(seq, H)
  BY <1>6 DEF Follows, n
<1> QED BY <1>2, <1>5, <1>12, <1>13 DEF n

LEMMA FollowedNothing == Recording!Followed(<<>>) = Begun
<1>1. <<>> \in Seq(Reports) /\ Len(<<>>) = 0
  OBVIOUS
<1>2. PICK f : Follows(<<>>, f) /\ Recording!Followed(<<>>) = f[Len(<<>>)]
  BY <1>1, FollowedSo
<1> QED BY <1>1, <1>2 DEF Follows

\* One more report.
LEMMA FollowedOneMore ==
    ASSUME NEW seq \in Seq(Reports), NEW e \in Reports
    PROVE  /\ Recording!Followed(seq) \in JourneySoFar
           /\ Recording!Followed(Append(seq, e)) = Recording!Recorded(Recording!Followed(seq), e)
<1>1. PICK n : n = Len(seq)
  OBVIOUS
<1>2. PICK more : more = Append(seq, e)
  OBVIOUS
<1>3. /\ n \in Nat /\ more \in Seq(Reports) /\ Len(more) = n + 1 /\ more[n + 1] = e
      /\ \A k \in 1 .. n : more[k] = seq[k]
  BY ONLY <1>1, <1>2, AppendProperties
<1>4. PICK f \in [0 .. n -> JourneySoFar] : Follows(seq, f) /\ Recording!Followed(seq) = f[n]
  BY <1>1, FollowedSo
<1>5. PICK g \in [0 .. n + 1 -> JourneySoFar] : Follows(more, g) /\ Recording!Followed(more) = g[n + 1]
  BY <1>3, FollowedSo
<1>6. GoTogether(n, g, f)
  <2>1. ASSUME NEW k \in 1 .. n, g[k - 1] = f[k - 1] PROVE g[k] = f[k]
    <3>1. k \in 1 .. n + 1 /\ more[k] = seq[k]
      BY <1>3
    <3>2. g[k] = Recording!Recorded(g[k - 1], more[k])
      BY <1>3, <1>5, <3>1 DEF Follows
    <3>3. f[k] = Recording!Recorded(f[k - 1], seq[k])
      BY <1>1, <1>4 DEF Follows
    <3> QED BY <2>1, <3>1, <3>2, <3>3
  <2> QED BY <1>4, <1>5, <2>1 DEF GoTogether, Follows
<1>7. g[n] = f[n]
  <2>1. Agree(n, g, f)
    BY <1>3, <1>6, SameSteps
  <2> QED BY <1>3, <2>1 DEF Agree
<1>8. g[n + 1] = Recording!Recorded(g[n], e)
  <2>1. n + 1 \in 1 .. n + 1 /\ (n + 1) - 1 = n
    BY <1>3
  <2> QED BY <1>3, <1>5, <2>1 DEF Follows
<1>9. f[n] \in JourneySoFar
  BY <1>3, <1>4
<1> QED BY <1>2, <1>4, <1>5, <1>7, <1>8, <1>9

\* Where a journey is, statement by statement.
Spots == Pages \cup {Recording!NoPage} \cup {Recording!Resolves(a.what) : a \in Sayings}
Walker == [at : Spots, held : BOOLEAN]
Starting(said) == [at |-> Recording!NoPage, held |-> said # <<>> => said[1].step = "Visit"]

LEMMA PlayedType ==
    ASSUME NEW p \in Walker, NEW a \in Sayings
    PROVE  /\ Recording!Played(p, a) \in Walker
           /\ Recording!Played(p, a).held => p.held
<1>1. p = [at |-> p.at, held |-> p.held] /\ p.at \in Spots /\ p.held \in BOOLEAN
  BY DEF Walker
<1>2. Recording!Resolves(a.what) \in Spots
  BY DEF Spots
<1>3. CASE a.step = "Visit"
  <2>1. Recording!Played(p, a) = [at |-> Recording!Resolves(a.what), held |-> p.held]
    BY <1>1, <1>3 DEF Recording!Played
  <2> QED BY <1>1, <1>2, <2>1 DEF Walker
<1>4. CASE a.step = "ExpectURL"
  <2>1. Recording!Played(p, a) = [at |-> p.at, held |-> p.held /\ p.at = Recording!Resolves(a.what)]
    BY <1>1, <1>4 DEF Recording!Played
  <2> QED BY <1>1, <2>1 DEF Walker
<1>5. CASE a.step \notin {"Visit", "ExpectURL"}
  <2> DEFINE to == IF p.at \in Pages THEN Leads[p.at, a.what] ELSE {}
             there == IF to = {} THEN p.at ELSE CHOOSE x \in to : TRUE
  <2>1. Recording!Played(p, a) = [at |-> there, held |-> p.held]
    BY <1>1, <1>5 DEF Recording!Played
  <2>2. there \in Spots
    <3>1. CASE to = {}
      BY <1>1, <3>1
    <3>2. CASE to # {}
      <4>1. to = Leads[p.at, a.what] /\ p.at \in Pages
        BY <3>2
      <4>2. a.what \in Gestures
        <5>1. PICK g \in Gestures : a = Recording!Gesture(g)
          BY <1>5 DEF Sayings, Recording!Visit, Recording!ExpectURL
        <5> QED BY <5>1 DEF Recording!Gesture
      <4>3. to \subseteq Pages
        BY <4>1, <4>2, PagesAssumption
      <4> HIDE DEF to
      <4>4. there \in to
        BY <3>2
      <4> QED BY <4>3, <4>4 DEF Spots
    <3> QED BY <3>1, <3>2
  <2> HIDE DEF there
  <2> QED BY <1>1, <2>1, <2>2 DEF Walker
<1> QED BY <1>3, <1>4, <1>5

Walk(said, f) == f[0] = Starting(said) /\ \A k \in 1 .. Len(said) : f[k] = Recording!Played(f[k - 1], said[k])

LEMMA WalkedSo ==
    ASSUME NEW said \in Seq(Sayings)
    PROVE  \E f \in [0 .. Len(said) -> Walker] : Walk(said, f) /\ Recording!Walked(said) = f[Len(said)]
<1> DEFINE n == Len(said)
           step == [p \in Walker \X (1 .. n) |-> Recording!Played(p[1], said[p[2]])]
           Step(f, i) == IF i = 0 THEN [at |-> Recording!NoPage, held |-> said # <<>> => said[1].step = "Visit"]
                         ELSE Recording!Played(f[i - 1], said[i])
           MadeSo(f) == f = [i \in 0 .. n |-> Step(f, i)]
           f == CHOOSE f : MadeSo(f)
<1>1. n \in Nat /\ \A i \in 1 .. n : said[i] \in Sayings
  OBVIOUS
<1>2. Recording!Walked(said) = f[n]
  BY DEF Recording!Walked
<1> HIDE DEF n
<1>3. step \in [Walker \X (1 .. n) -> Walker]
  BY <1>1, PlayedType
<1>4. Starting(said) \in Walker
  BY DEF Starting, Walker, Spots
<1>5. PICK H \in [0 .. n -> Walker] : Makes(H, n, Starting(said), step)
  <2> HIDE DEF step
  <2> QED BY <1>1, <1>3, <1>4, Recursion
<1>6. H[0] = Starting(said) /\ \A k \in 1 .. n : H[k] = Recording!Played(H[k - 1], said[k])
  <2>1. ASSUME NEW k \in 1 .. n PROVE H[k] = Recording!Played(H[k - 1], said[k])
    <3>1. <<H[k - 1], k>> \in Walker \X (1 .. n)
      <4>1. k - 1 \in 0 .. n
        BY <1>1
      <4> QED BY <1>5, <4>1
    <3>2. step[<<H[k - 1], k>>] = Recording!Played(H[k - 1], said[k])
      BY <3>1
    <3> HIDE DEF step
    <3> QED BY <1>5, <3>2 DEF Makes
  <2> QED BY <1>5, <2>1 DEF Makes
<1>7. MadeSo(H)
  <2>1. \A i \in 0 .. n : H[i] = Step(H, i)
    <3> TAKE i \in 0 .. n
    <3>1. i # 0 => i \in 1 .. n
      BY <1>1
    <3> QED BY <1>6, <3>1 DEF Starting
  <2>2. H = [i \in 0 .. n |-> H[i]]
    BY <1>5
  <2> HIDE DEF Step
  <2> QED BY <2>1, <2>2
<1>8. MadeSo(f)
  <2> HIDE DEF MadeSo
  <2> QED BY <1>7
<1> HIDE DEF f, step
<1>9. \A i \in 0 .. n : f[i] = Step(f, i)
  <2> HIDE DEF Step
  <2> QED BY <1>8
<1>10. GoTogether(n, f, H)
  <2>1. f[0] = Starting(said)
    <3>1. 0 \in 0 .. n
      BY <1>1
    <3>2. f[0] = Step(f, 0)
      <4> HIDE DEF Step
      <4> QED BY <1>9, <3>1
    <3> QED BY <3>2 DEF Starting
  <2>2. ASSUME NEW k \in 1 .. n, f[k - 1] = H[k - 1] PROVE f[k] = H[k]
    <3>1. k \in 0 .. n /\ k # 0
      BY <1>1
    <3>2. f[k] = Step(f, k)
      <4> HIDE DEF Step
      <4> QED BY <1>9, <3>1
    <3> QED BY <1>6, <2>2, <3>1, <3>2
  <2> QED BY <1>6, <2>1, <2>2 DEF GoTogether
<1>11. Agree(n, f, H)
  BY <1>1, <1>10, SameSteps
<1>12. f[n] = H[n]
  BY <1>1, <1>11 DEF Agree
<1>13. Walk(said, H)
  BY <1>6 DEF Walk, n
<1> QED BY <1>2, <1>5, <1>12, <1>13 DEF n

\* A journey that says nothing fails nowhere.
LEMMA WalkedNothing == Recording!Walked(<<>>).held
<1>1. <<>> \in Seq(Sayings) /\ Len(<<>>) = 0
  OBVIOUS
<1>2. PICK f : Walk(<<>>, f) /\ Recording!Walked(<<>>) = f[Len(<<>>)]
  BY <1>1, WalkedSo
<1>3. f[0] = Starting(<<>>) /\ Recording!Walked(<<>>) = f[0]
  BY <1>1, <1>2 DEF Walk
<1>4. Starting(<<>>) = [at |-> Recording!NoPage, held |-> TRUE]
  BY DEF Starting
<1> QED BY <1>3, <1>4

\* One that opens a page is there.
LEMMA WalkedVisit ==
    ASSUME NEW a \in Sayings, a.step = "Visit"
    PROVE  Recording!Walked(Append(<<>>, a)) = [at |-> Recording!Resolves(a.what), held |-> TRUE]
<1>1. PICK said : said = Append(<<>>, a)
  OBVIOUS
<1>2. said \in Seq(Sayings) /\ Len(said) = 1 /\ said[1] = a /\ said # <<>>
  BY <1>1
<1>3. PICK f : Walk(said, f) /\ Recording!Walked(said) = f[Len(said)]
  BY <1>2, WalkedSo
<1>4. f[0] = [at |-> Recording!NoPage, held |-> TRUE]
  BY <1>2, <1>3 DEF Walk, Starting
<1>5. f[1] = Recording!Played(f[0], a)
  <2>1. 1 \in 1 .. 1 /\ 1 - 1 = 0
    OBVIOUS
  <2> QED BY <1>2, <1>3, <2>1 DEF Walk
<1>6. Recording!Played(f[0], a) = [at |-> Recording!Resolves(a.what), held |-> TRUE]
  <2>1. Recording!Played(f[0], a) = [f[0] EXCEPT !.at = Recording!Resolves(a.what)]
    BY DEF Recording!Played
  <2>2. PICK x : x = Recording!Resolves(a.what)
    OBVIOUS
  <2>3. PICK y : y = Recording!NoPage
    OBVIOUS
  <2>4. PICK p : p = f[0]
    OBVIOUS
  <2>5. p = [at |-> y, held |-> TRUE] /\ Recording!Played(f[0], a) = [p EXCEPT !.at = x]
    BY <1>4, <2>1, <2>2, <2>3, <2>4
  <2>6. [p EXCEPT !.at = x] = [at |-> x, held |-> TRUE]
    BY ONLY <2>5
  <2> QED BY <2>2, <2>5, <2>6
<1> QED BY <1>1, <1>2, <1>3, <1>5, <1>6

\* One more statement.
LEMMA WalkedOneMore ==
    ASSUME NEW said \in Seq(Sayings), said # <<>>, NEW a \in Sayings
    PROVE  /\ Recording!Walked(said) \in Walker
           /\ Recording!Walked(Append(said, a)) = Recording!Played(Recording!Walked(said), a)
<1>1. PICK n : n = Len(said)
  OBVIOUS
<1>2. PICK more : more = Append(said, a)
  OBVIOUS
<1>3. /\ n \in Nat /\ more \in Seq(Sayings) /\ Len(more) = n + 1 /\ more[n + 1] = a
      /\ \A k \in 1 .. n : more[k] = said[k]
  BY ONLY <1>1, <1>2, AppendProperties
<1>4. PICK f \in [0 .. n -> Walker] : Walk(said, f) /\ Recording!Walked(said) = f[n]
  BY <1>1, WalkedSo
<1>5. PICK g \in [0 .. n + 1 -> Walker] : Walk(more, g) /\ Recording!Walked(more) = g[n + 1]
  BY <1>3, WalkedSo
<1>6. GoTogether(n, g, f)
  <2>1. ASSUME NEW k \in 1 .. n, g[k - 1] = f[k - 1] PROVE g[k] = f[k]
    <3>1. k \in 1 .. n + 1 /\ more[k] = said[k]
      BY <1>3
    <3>2. g[k] = Recording!Played(g[k - 1], more[k])
      BY <1>3, <1>5, <3>1 DEF Walk
    <3>3. f[k] = Recording!Played(f[k - 1], said[k])
      BY <1>1, <1>4 DEF Walk
    <3> QED BY <2>1, <3>1, <3>2, <3>3
  <2>2. Starting(more) = Starting(said)
    <3>1. 1 \in 1 .. n
      BY <1>1
    <3>2. more[1] = said[1] /\ more # <<>>
      BY <1>3, <3>1
    <3> QED BY <3>2 DEF Starting
  <2> QED BY <1>4, <1>5, <2>1, <2>2 DEF GoTogether, Walk
<1>7. g[n] = f[n]
  <2>1. Agree(n, g, f)
    BY <1>3, <1>6, SameSteps
  <2> QED BY <1>3, <2>1 DEF Agree
<1>8. g[n + 1] = Recording!Played(g[n], a)
  <2>1. n + 1 \in 1 .. n + 1 /\ (n + 1) - 1 = n
    BY <1>3
  <2> QED BY <1>3, <1>5, <2>1 DEF Walk
<1>9. f[n] \in Walker
  BY <1>3, <1>4
<1> QED BY <1>2, <1>4, <1>5, <1>7, <1>8, <1>9

\* What plays with one report more plays without it.
LEMMA PlaysBefore ==
    ASSUME NEW seq \in Seq(Reports), NEW e \in Reports,
           Recording!Plays(Recording!recordedSteps(Append(seq, e)))
    PROVE  Recording!Plays(Recording!recordedSteps(seq))
<1>1. PICK s : s = Recording!Followed(seq)
  OBVIOUS
<1>2. s \in JourneySoFar /\ Recording!Followed(Append(seq, e)) = Recording!Recorded(s, e)
  BY <1>1, FollowedOneMore
<1>3. PICK said : said = s.steps
  OBVIOUS
<1>4. said \in Seq(Sayings)
  BY <1>2, <1>3 DEF JourneySoFar
<1>5. \/ Recording!Recorded(s, e).steps = said
      \/ \E a \in Sayings : Recording!Recorded(s, e).steps = Append(said, a)
  <2>1. /\ s = [steps |-> s.steps, acted |-> s.acted, last |-> s.last]
        /\ e.kind = "load" => Recording!Visit(e.what) \in Sayings /\ Recording!ExpectURL(e.what) \in Sayings
        /\ e.kind # "load" => Recording!Gesture(e.what) \in Sayings
    BY <1>2 DEF JourneySoFar, Reports, Sayings
  <2>2. CASE e.kind # "load"
    <3>1. Recording!Recorded(s, e) = [s EXCEPT !.steps = Append(@, Recording!Gesture(e.what)), !.acted = TRUE]
      BY <2>2 DEF Recording!Recorded
    <3>2. Recording!Recorded(s, e).steps = Append(said, Recording!Gesture(e.what))
      BY <1>3, <2>1, <3>1
    <3> QED BY <2>1, <2>2, <3>2
  <2>3. CASE e.kind = "load" /\ s.last = {e.what}
    BY <1>3, <2>3 DEF Recording!Recorded
  <2>4. CASE e.kind = "load" /\ s.last # {e.what}
    <3>1. Recording!Recorded(s, e).steps
            = Append(said, IF s.acted THEN Recording!ExpectURL(e.what) ELSE Recording!Visit(e.what))
      BY <1>3, <2>4 DEF Recording!Recorded
    <3> QED BY <2>1, <2>4, <3>1
  <2> QED BY <2>2, <2>3, <2>4
<1>6. Recording!Walked(Recording!Recorded(s, e).steps).held
  BY <1>2 DEF Recording!Plays, Recording!recordedSteps
<1>7. Recording!Walked(said).held
  <2>1. CASE said = <<>>
    BY <2>1, WalkedNothing
  <2>2. CASE said # <<>>
    <3>1. CASE \E a \in Sayings : Recording!Recorded(s, e).steps = Append(said, a)
      <4>1. PICK a \in Sayings : Recording!Recorded(s, e).steps = Append(said, a)
        BY <3>1
      <4>2. /\ Recording!Walked(said) \in Walker
            /\ Recording!Played(Recording!Walked(said), a).held
        BY <1>4, <1>6, <2>2, <4>1, WalkedOneMore
      <4> QED BY <4>2, PlayedType
    <3> QED BY <1>5, <1>6, <3>1
  <2> QED BY <2>1, <2>2
<1> QED BY <1>1, <1>3, <1>7 DEF Recording!Plays, Recording!recordedSteps

LEMMA PlaysFromTheStart ==
    ASSUME NEW seq \in Seq(Reports), Recording!Plays(Recording!recordedSteps(seq)), NEW n \in 0 .. Len(seq)
    PROVE  Recording!Plays(Recording!recordedSteps(Cut(seq, n)))
<1>1. PICK N : N = Len(seq)
  OBVIOUS
<1>2. N \in Nat /\ n \in 0 .. N /\ DOMAIN seq = 1 .. N /\ \A i \in 1 .. N : seq[i] \in Reports
  BY <1>1
<1> DEFINE T == {k \in 0 .. N : Recording!Plays(Recording!recordedSteps(Cut(seq, N - k)))}
<1>3. 0 \in T
  <2>1. Cut(seq, N) = seq
    BY <1>1, <1>2 DEF Cut
  <2>2. N - 0 = N /\ 0 \in 0 .. N
    BY <1>2
  <2> QED BY <2>1, <2>2
<1>4. ASSUME NEW k \in 0 .. N - 1, k \in T PROVE k + 1 \in T
  <2>1. PICK i : i = N - k
    OBVIOUS
  <2>2. i \in 1 .. N /\ N - (k + 1) = i - 1 /\ k + 1 \in 0 .. N
    BY <1>2, <2>1
  <2>3. Cut(seq, i - 1) \in Seq(Reports) /\ Append(Cut(seq, i - 1), seq[i]) = Cut(seq, i)
    BY <1>1, <2>2, CutsGrow
  <2>4. Recording!Plays(Recording!recordedSteps(Append(Cut(seq, i - 1), seq[i])))
    BY <1>4, <2>1, <2>3
  <2>5. Recording!Plays(Recording!recordedSteps(Cut(seq, i - 1)))
    BY <1>2, <2>2, <2>3, <2>4, PlaysBefore
  <2> QED BY <2>2, <2>5
<1>5. N - n \in T
  <2> HIDE DEF T
  <2>1. 0 .. N \subseteq T
    BY <1>2, <1>3, <1>4, InductionUpTo
  <2>2. N - n \in 0 .. N
    BY <1>2
  <2> QED BY <2>1, <2>2
<1>6. N - (N - n) = n
  BY <1>2
<1> QED BY <1>5, <1>6

\* What is reported waits in order.
LEMMA WaitsInOrder ==
    ASSUME NEW S, NEW told1 \in Seq(S), NEW left \in Seq(S)
    PROVE  /\ told1 \o left \in Seq(S)
           /\ Len(told1) \in 0 .. Len(told1 \o left) /\ Cut(told1 \o left, Len(told1)) = told1
           /\ left # <<>> => /\ Head(left) \in S /\ Tail(left) \in Seq(S)
                             /\ Append(told1, Head(left)) \o Tail(left) = told1 \o left
<1>1. PICK a : a = Len(told1)
  OBVIOUS
<1>2. PICK b : b = Len(left)
  OBVIOUS
<1>3. PICK both : both = told1 \o left
  OBVIOUS
<1>4. a \in Nat /\ b \in Nat /\ DOMAIN told1 = 1 .. a
  BY <1>1, <1>2
<1>5. /\ both \in Seq(S) /\ Len(both) = a + b
      /\ \A k \in 1 .. a + b : both[k] = IF k <= a THEN told1[k] ELSE left[k - a]
  BY ONLY <1>1, <1>2, <1>3, ConcatProperties
<1>6. Cut(both, a) = told1
  <2>1. \A k \in 1 .. a : both[k] = told1[k]
    BY <1>4, <1>5
  <2>2. told1 = [k \in 1 .. a |-> told1[k]]
    BY <1>1
  <2> QED BY <2>1, <2>2 DEF Cut
<1>7. a \in 0 .. Len(both)
  BY <1>4, <1>5
<1>8. ASSUME left # <<>>
      PROVE  /\ Head(left) \in S /\ Tail(left) \in Seq(S)
             /\ Append(told1, Head(left)) \o Tail(left) = both
  <2>1. PICK h : h = Head(left)
    OBVIOUS
  <2>2. PICK t : t = Tail(left)
    OBVIOUS
  <2>3. /\ b \in 1 .. b /\ h = left[1] /\ h \in S /\ t \in Seq(S) /\ Len(t) = b - 1 /\ b # 0
        /\ \A k \in 1 .. b - 1 : t[k] = left[k + 1]
    <3>1. b # 0
      BY <1>2, <1>8
    <3>2. 1 \in 1 .. b /\ b \in 1 .. b
      BY <1>4, <3>1
    <3>3. h = left[1] /\ h \in S
      BY <1>2, <2>1, <3>2
    <3>4. t \in Seq(S) /\ Len(t) = b - 1 /\ \A k \in 1 .. b - 1 : t[k] = left[k + 1]
      BY <1>2, <1>8, <2>2
    <3> QED BY <3>1, <3>2, <3>3, <3>4
  <2>4. PICK c : c = Append(told1, h)
    OBVIOUS
  <2>5. c \in Seq(S) /\ Len(c) = a + 1 /\ c[a + 1] = h /\ \A k \in 1 .. a : c[k] = told1[k]
    BY ONLY <1>1, <2>3, <2>4, AppendProperties
  <2>6. PICK d : d = c \o t
    OBVIOUS
  <2>7. /\ d \in Seq(S) /\ Len(d) = (a + 1) + (b - 1)
        /\ \A k \in 1 .. (a + 1) + (b - 1) : d[k] = IF k <= a + 1 THEN c[k] ELSE t[k - (a + 1)]
    <3>1. PICK x : x = a + 1
      OBVIOUS
    <3>2. PICK y : y = b - 1
      OBVIOUS
    <3>3. c \in Seq(S) /\ t \in Seq(S) /\ Len(c) = x /\ Len(t) = y
      BY <2>3, <2>5, <3>1, <3>2
    <3>4. d \in Seq(S) /\ Len(d) = x + y /\ \A k \in 1 .. x + y : d[k] = IF k <= x THEN c[k] ELSE t[k - x]
      BY ONLY <2>6, <3>3, ConcatProperties
    <3> QED BY ONLY <3>1, <3>2, <3>4
  <2>8. (a + 1) + (b - 1) = a + b
    BY <1>4
  <2>9. ASSUME NEW k \in 1 .. a + b PROVE d[k] = both[k]
    <3>1. CASE k <= a
      <4>1. k \in 1 .. a /\ k <= a + 1
        BY <1>4, <3>1
      <4> QED BY ONLY <1>5, <2>5, <2>7, <2>8, <2>9, <3>1, <4>1
    <3>2. CASE k = a + 1
      <4>1. ~(k <= a) /\ k <= a + 1 /\ k - a = 1
        BY <1>4, <3>2
      <4>2. d[k] = h /\ both[k] = left[1]
        BY ONLY <1>5, <2>5, <2>7, <2>8, <2>9, <3>2, <4>1
      <4> QED BY <2>3, <4>2
    <3>3. CASE k > a + 1
      <4>1. PICK j : j = k - (a + 1)
        OBVIOUS
      <4>2. ~(k <= a) /\ ~(k <= a + 1) /\ j \in 1 .. b - 1 /\ k - a = j + 1
        BY <1>4, <2>9, <3>3, <4>1
      <4>3. d[k] = t[j] /\ both[k] = left[j + 1]
        BY ONLY <1>5, <2>7, <2>8, <2>9, <4>1, <4>2
      <4> QED BY <2>3, <4>2, <4>3
    <3> QED BY <1>4, <3>1, <3>2, <3>3
  <2>10. d = both
    <3>1. PICK m : m = a + b
      OBVIOUS
    <3>2. /\ d \in Seq(S) /\ both \in Seq(S) /\ Len(d) = m /\ Len(both) = m
          /\ \A k \in 1 .. m : d[k] = both[k]
      BY <1>5, <2>7, <2>8, <2>9, <3>1
    <3> QED BY ONLY <3>2, SeqEqual
  <2> QED BY <2>1, <2>2, <2>3, <2>4, <2>6, <2>10
<1> QED BY <1>1, <1>3, <1>5, <1>6, <1>7, <1>8

\* The journey of what was reported is where the person is, and what it still
\* waits for is a gesture that led nowhere.
Tracks(seq, p, waiting) ==
    LET s == Recording!Followed(seq) IN
    /\ s.last = {p} /\ s.steps # <<>> /\ (s.acted => waiting)
    /\ Recording!Walked(s.steps) = [at |-> p, held |-> TRUE]

Loaded(p) == [kind |-> "load", what |-> p]

LEMMA StatementsOf ==
    ASSUME NEW p \in Pages
    PROVE  /\ Loaded(p) \in Reports /\ Recording!Visit(p) \in Sayings /\ Recording!ExpectURL(p) \in Sayings
           /\ Recording!Visit(p).step = "Visit" /\ Recording!ExpectURL(p).step = "ExpectURL"
           /\ Recording!Resolves(Recording!Visit(p).what) = p /\ Recording!Resolves(Recording!ExpectURL(p).what) = p
<1>1. Loaded(p) \in Reports
  BY DEF Loaded, Reports
<1>2. Recording!Visit(p) \in Sayings /\ Recording!ExpectURL(p) \in Sayings
  BY DEF Sayings
<1>3. Recording!Resolves(Recording!routeTarget(p)) = p
  BY LeadsBack
<1> QED BY <1>1, <1>2, <1>3 DEF Recording!Visit, Recording!ExpectURL

\* A page that loads, when no gesture is waited for.
LEMMA TracksVisit ==
    ASSUME NEW seq \in Seq(Reports), NEW p \in Pages, NEW q \in Pages, Tracks(seq, p, FALSE)
    PROVE  Tracks(Append(seq, Loaded(q)), q, FALSE)
<1>1. PICK s : s = Recording!Followed(seq)
  OBVIOUS
<1>2. PICK r : r = Recording!Followed(Append(seq, Loaded(q)))
  OBVIOUS
<1>3. s \in JourneySoFar /\ r = Recording!Recorded(s, Loaded(q))
  BY <1>1, <1>2, StatementsOf, FollowedOneMore
<1>4. /\ s.last = {p} /\ s.steps # <<>> /\ ~ s.acted
      /\ Recording!Walked(s.steps) = [at |-> p, held |-> TRUE] /\ s.steps \in Seq(Sayings)
  BY <1>1, <1>3 DEF Tracks, JourneySoFar
<1>5. CASE p = q
  <2>1. r = s
    BY <1>3, <1>4, <1>5 DEF Recording!Recorded, Loaded
  <2> QED BY <1>2, <1>4, <1>5, <2>1 DEF Tracks
<1>6. CASE p # q
  <2>1. r = [steps |-> Append(s.steps, Recording!Visit(q)), acted |-> FALSE, last |-> {q}]
    BY <1>3, <1>4, <1>6 DEF Recording!Recorded, Loaded
  <2>2. Recording!Walked(r.steps) = Recording!Played([at |-> p, held |-> TRUE], Recording!Visit(q))
    <3>1. Recording!Visit(q) \in Sayings
      BY StatementsOf
    <3> QED BY <1>4, <2>1, <3>1, WalkedOneMore
  <2>3. Recording!Played([at |-> p, held |-> TRUE], Recording!Visit(q)) = [at |-> q, held |-> TRUE]
    BY StatementsOf DEF Recording!Played
  <2>4. r.steps # <<>>
    <3>1. PICK said : said = s.steps
      OBVIOUS
    <3>2. Append(said, Recording!Visit(q)) # <<>>
      BY <1>4, <3>1
    <3> QED BY <2>1, <3>1, <3>2
  <2> QED BY <1>2, <2>1, <2>2, <2>3, <2>4 DEF Tracks
<1> QED BY <1>5, <1>6

LEMMA GoesTo ==
    ASSUME NEW w, NEW p, NEW held, NEW q, w = [at |-> p, held |-> held]
    PROVE  [w EXCEPT !.at = q] = [at |-> q, held |-> held]
OBVIOUS

\* A gesture, and the page it leads to.
TracksAfter(seq, p, g, e) ==
    IF Leads[p, g] = {} THEN Tracks(Append(seq, e), p, TRUE)
    ELSE LET q == CHOOSE x \in Leads[p, g] : TRUE
         IN q \in Pages /\ Tracks(Append(Append(seq, e), Loaded(q)), q, q = p)

LEMMA TracksGesture ==
    ASSUME NEW seq \in Seq(Reports), NEW p \in Pages, NEW waiting \in BOOLEAN, Tracks(seq, p, waiting),
           NEW g \in Gestures, NEW e \in Reports, e.kind # "load", e.what = g
    PROVE  TracksAfter(seq, p, g, e)
<1>1. PICK s : s = Recording!Followed(seq)
  OBVIOUS
<1>2. PICK r : r = Recording!Followed(Append(seq, e))
  OBVIOUS
<1>3. s \in JourneySoFar /\ r = Recording!Recorded(s, e) /\ Append(seq, e) \in Seq(Reports)
  BY <1>1, <1>2, FollowedOneMore
<1>4. /\ s.last = {p} /\ s.steps # <<>>
      /\ Recording!Walked(s.steps) = [at |-> p, held |-> TRUE] /\ s.steps \in Seq(Sayings)
  BY <1>1, <1>3 DEF Tracks, JourneySoFar
<1>5. PICK said : said = Append(s.steps, Recording!Gesture(g))
  OBVIOUS
<1>6. Recording!Gesture(g) \in Sayings
  BY DEF Sayings
<1>7. said \in Seq(Sayings) /\ said # <<>>
  <2>1. PICK t : t = s.steps
    OBVIOUS
  <2>2. t \in Seq(Sayings) /\ said = Append(t, Recording!Gesture(g))
    BY <1>4, <1>5, <2>1
  <2> QED BY <1>6, <2>2
<1>8. r = [steps |-> said, acted |-> TRUE, last |-> {p}]
  <2>1. r = [s EXCEPT !.steps = Append(@, Recording!Gesture(e.what)), !.acted = TRUE]
    BY <1>3 DEF Recording!Recorded
  <2>2. s = [steps |-> s.steps, acted |-> s.acted, last |-> s.last]
    BY <1>3 DEF JourneySoFar
  <2> QED BY <1>4, <1>5, <2>1, <2>2
<1>9. Recording!Walked(said) = Recording!Played([at |-> p, held |-> TRUE], Recording!Gesture(g))
  BY <1>4, <1>5, <1>6, WalkedOneMore
<1> DEFINE to == Leads[p, g]
           there == IF to = {} THEN p ELSE CHOOSE x \in to : TRUE
<1>10. Recording!Walked(said) = [at |-> there, held |-> TRUE]
  <2>1. Recording!Gesture(g).step = "gesture" /\ Recording!Gesture(g).what = g
    BY DEF Recording!Gesture
  <2>2. Recording!Played([at |-> p, held |-> TRUE], Recording!Gesture(g)) = [at |-> there, held |-> TRUE]
    <3>1. PICK w : w = [at |-> p, held |-> TRUE]
      OBVIOUS
    <3>2. w.at = p /\ w.at \in Pages
      BY <3>1
    <3>3. (IF w.at \in Pages THEN Leads[w.at, g] ELSE {}) = to
      BY <3>2
    <3>4. Recording!Played(w, Recording!Gesture(g)) = [w EXCEPT !.at = IF to = {} THEN w.at ELSE CHOOSE x \in to : TRUE]
      <4> HIDE DEF to
      <4> QED BY <2>1, <3>3 DEF Recording!Played
    <3>5. [w EXCEPT !.at = IF to = {} THEN w.at ELSE CHOOSE x \in to : TRUE] = [at |-> there, held |-> TRUE]
      <4>1. PICK x : x = there
        OBVIOUS
      <4>2. (IF to = {} THEN w.at ELSE CHOOSE y \in to : TRUE) = x
        <5> HIDE DEF to
        <5> QED BY <3>2, <4>1
      <4>3. [w EXCEPT !.at = x] = [at |-> x, held |-> TRUE]
        <5>1. PICK h : h = TRUE
          OBVIOUS
        <5>2. w = [at |-> p, held |-> h]
          BY <3>1, <5>1, Zenon
        <5> HIDE DEF there, to
        <5>3. [w EXCEPT !.at = x] = [at |-> x, held |-> h]
          BY ONLY <5>2, GoesTo
        <5> QED BY ONLY <5>1, <5>3, Zenon
      <4> HIDE DEF there, to
      <4> QED BY <4>1, <4>2, <4>3
    <3> QED BY <3>1, <3>4, <3>5
  <2> QED BY <1>9, <2>2
<1>11. CASE to = {}
  <2>1. Recording!Walked(said) = [at |-> p, held |-> TRUE]
    BY <1>10, <1>11
  <2>2. r.last = {p} /\ r.steps = said
    BY <1>8
  <2>3. Tracks(Append(seq, e), p, TRUE)
    BY <1>2, <1>7, <2>1, <2>2 DEF Tracks
  <2> QED BY <1>11, <2>3 DEF TracksAfter
<1>12. CASE to # {}
  <2>1. PICK q : q = CHOOSE x \in to : TRUE
    OBVIOUS
  <2>2. q \in Pages
    <3>1. to \subseteq Pages
      BY PagesAssumption
    <3> HIDE DEF to
    <3> QED BY <1>12, <2>1, <3>1
  <2>3. Recording!Walked(said) = [at |-> q, held |-> TRUE]
    BY <1>10, <1>12, <2>1
  <2>4. PICK u : u = Recording!Followed(Append(Append(seq, e), Loaded(q)))
    OBVIOUS
  <2>5. u = Recording!Recorded(r, Loaded(q))
    BY <1>2, <1>3, <2>2, <2>4, StatementsOf, FollowedOneMore
  <2>6. CASE q = p
    <3>1. u = r
      BY <1>8, <2>5, <2>6 DEF Recording!Recorded, Loaded
    <3>2. Tracks(Append(Append(seq, e), Loaded(q)), q, TRUE)
      BY <1>7, <1>8, <2>3, <2>4, <2>6, <3>1 DEF Tracks
    <3> QED BY <1>12, <2>1, <2>2, <2>6, <3>2 DEF TracksAfter
  <2>7. CASE q # p
    <3>1. u = [steps |-> Append(said, Recording!ExpectURL(q)), acted |-> FALSE, last |-> {q}]
      BY <1>8, <2>5, <2>7 DEF Recording!Recorded, Loaded
    <3>2. Recording!Walked(u.steps) = Recording!Played([at |-> q, held |-> TRUE], Recording!ExpectURL(q))
      <4>1. Recording!ExpectURL(q) \in Sayings
        BY <2>2, StatementsOf
      <4> QED BY <1>7, <2>3, <3>1, <4>1, WalkedOneMore
    <3>3. Recording!Played([at |-> q, held |-> TRUE], Recording!ExpectURL(q)) = [at |-> q, held |-> TRUE]
      <4>1. Recording!ExpectURL(q).step = "ExpectURL" /\ Recording!Resolves(Recording!ExpectURL(q).what) = q
        BY <2>2, StatementsOf
      <4> QED BY <4>1 DEF Recording!Played
    <3>4. u.steps # <<>>
      <4>1. Append(said, Recording!ExpectURL(q)) # <<>>
        BY <1>7
      <4> QED BY <3>1, <4>1
    <3>5. Tracks(Append(Append(seq, e), Loaded(q)), q, FALSE)
      BY <2>4, <3>1, <3>2, <3>3, <3>4 DEF Tracks
    <3> QED BY <1>12, <2>1, <2>2, <2>7, <3>5 DEF TracksAfter
  <2> QED BY <2>6, <2>7
<1> QED BY <1>11, <1>12 DEF TracksAfter

\* The page a recording starts on.
LEMMA TracksStart == ASSUME NEW p \in Pages PROVE Tracks(Append(<<>>, Loaded(p)), p, FALSE)
<1>1. PICK r : r = Recording!Followed(Append(<<>>, Loaded(p)))
  OBVIOUS
<1>2. r = Recording!Recorded(Begun, Loaded(p))
  <2>1. <<>> \in Seq(Reports)
    OBVIOUS
  <2> QED BY <1>1, <2>1, StatementsOf, FollowedOneMore, FollowedNothing
<1>3. r = [steps |-> Append(<<>>, Recording!Visit(p)), acted |-> FALSE, last |-> {p}]
  BY <1>2 DEF Recording!Recorded, Loaded, Begun
<1>4. Recording!Walked(r.steps) = [at |-> p, held |-> TRUE]
  BY <1>3, StatementsOf, WalkedVisit
<1>5. r.steps # <<>>
  BY <1>3
<1> QED BY <1>1, <1>3, <1>4, <1>5 DEF Tracks

(***************************************************************************)
(* The recorder: the command.                                              *)
(***************************************************************************)
RecordTypes ==
    /\ rPc \in {"check", "install", "record", "write", "returned"}
    /\ force \in BOOLEAN /\ idle \in BOOLEAN /\ strayed \in BOOLEAN /\ others \in BOOLEAN
    /\ at \in Pages /\ events \in Seq(Reports) /\ wire \in Seq(Reports)

\* What was reported and what still waits follow the person, unless they strayed.
OnTrack ==
    /\ rPc \in {"check", "install"} => events = <<>> /\ wire = <<>>
    /\ rPc \in {"record", "write"} /\ ~ strayed => Tracks(events \o wire, at, idle)

\* The name was free when it was looked at, and nothing is answered yet.
NameIsFree ==
    /\ rPc \in {"install", "record", "write"} /\ ~ others => force \/ file = {}
    /\ rPc # "returned" => rAnswer = "none"

RecordInv == RecordTypes /\ OnTrack /\ NameIsFree /\ Recording!JourneyReplays

LEMMA RecordStarts == Recording!Init => RecordInv
<1> SUFFICES ASSUME Recording!Init PROVE RecordInv
  OBVIOUS
<1>1. <<>> \in Seq(Reports)
  OBVIOUS
<1> QED BY <1>1 DEF Recording!Init, RecordInv, RecordTypes, OnTrack, NameIsFree, Recording!JourneyReplays

\* What a gesture reports is a report of it, or nothing that leads anywhere.
LEMMA ReportedIs ==
    ASSUME NEW g \in Gestures
    PROVE  \/ Recording!Reported(g) = <<>> /\ \A p \in Pages : Leads[p, g] = {}
           \/ \E e \in Reports : Recording!Reported(g) = <<e>> /\ e.kind # "load" /\ e.what = g
<1>1. g.kind # "load" /\ \A p \in Pages : g.kind = Recording!ClickField => Leads[p, g] = {}
  BY PagesAssumption
<1>2. CASE g.kind = Recording!ClickField
  <2>1. Recording!ClickField # Recording!ClickSubmit
    BY Zenon DEF Recording!ClickField, Recording!ClickSubmit
  <2>2. Recording!Reported(g) = <<>>
    BY <1>2, <2>1 DEF Recording!Reported
  <2> QED BY <1>1, <1>2, <2>2
<1>3. CASE g.kind # Recording!ClickField /\ g.kind = Recording!ClickSubmit
  <2> DEFINE e == [kind |-> "click", what |-> g]
  <2>1. Recording!Reported(g) = <<e>>
    BY <1>3 DEF Recording!Reported, Recording!Report
  <2>2. e \in Reports /\ e.kind # "load" /\ e.what = g
    BY DEF Reports
  <2> QED BY <2>1, <2>2
<1>4. CASE g.kind # Recording!ClickField /\ g.kind # Recording!ClickSubmit
  <2> DEFINE e == [kind |-> g.kind, what |-> g]
  <2>1. Recording!Reported(g) = <<e>>
    BY <1>4 DEF Recording!Reported, Recording!Report
  <2>2. e \in Reports /\ e.kind # "load" /\ e.what = g
    BY <1>1 DEF Reports
  <2> QED BY <2>1, <2>2
<1> QED BY <1>2, <1>3, <1>4

LEMMA OneMoreWaits ==
    ASSUME NEW S, NEW said \in Seq(S), NEW left \in Seq(S), NEW e \in S
    PROVE  left \o <<e>> \in Seq(S) /\ said \o (left \o <<e>>) = Append(said \o left, e)
<1>1. PICK both : both = said \o left
  OBVIOUS
<1>2. both \in Seq(S) /\ <<e>> \in Seq(S)
  BY <1>1, ConcatProperties
<1>3. Append(both, e) = both \o <<e>>
  BY <1>2, AppendIsConcat
<1>4. (said \o left) \o <<e>> = said \o (left \o <<e>>)
  BY <1>2, ConcatAssociative
<1>5. left \o <<e>> \in Seq(S)
  BY <1>2, ConcatProperties
<1> QED BY <1>1, <1>3, <1>4, <1>5

\* A gesture of the person.
LEMMA DoesOnTrack ==
    ASSUME RecordInv, NEW g \in Gestures, Recording!Does(g)
    PROVE  RecordInv'
<1>1. /\ rPc = "record" /\ rPc' = rPc /\ UNCHANGED <<force, events, strayed, file, others, rAnswer>>
      /\ LET to == Leads[at, g] IN
         /\ at' = IF to = {} THEN at ELSE CHOOSE x \in to : TRUE
         /\ wire' = wire \o Recording!Reported(g) \o (IF to = {} THEN <<>> ELSE Recording!Report("load", at'))
         /\ idle' = IF to = {} THEN idle \/ Recording!Reported(g) # <<>> ELSE at' = at
  BY DEF Recording!Does, Recording!Walks, Recording!disk
<1>2. at \in Pages /\ events \in Seq(Reports) /\ wire \in Seq(Reports) /\ idle \in BOOLEAN
  BY DEF RecordInv, RecordTypes
<1>3. PICK w : w = wire
  OBVIOUS
<1>4. PICK seq : seq = events \o wire
  OBVIOUS
<1>5. w \in Seq(Reports) /\ w \o <<>> = w /\ seq \in Seq(Reports)
  BY <1>2, <1>3, <1>4, ConcatEmptySeq, ConcatProperties
<1>6. ~ strayed => Tracks(seq, at, idle)
  BY <1>1, <1>4 DEF RecordInv, OnTrack
<1> DEFINE Follow == /\ at' \in Pages /\ idle' \in BOOLEAN /\ wire' \in Seq(Reports)
                     /\ ~ strayed => Tracks(events \o wire', at', idle')
<1>7. ASSUME Recording!Reported(g) = <<>>, Leads[at, g] = {}
      PROVE  Follow
  <2>1. at' = at /\ wire' = (w \o <<>>) \o <<>> /\ idle' = idle
    BY <1>1, <1>2, <1>3, <1>7
  <2>2. wire' = wire
    BY <1>3, <1>5, <2>1
  <2>3. events \o wire' = events \o wire
    BY <2>2
  <2>4. ~ strayed => Tracks(events \o wire', at', idle')
    BY <1>4, <1>6, <2>1, <2>3
  <2> QED BY <1>2, <2>1, <2>2, <2>4
<1>8. ASSUME NEW e \in Reports, Recording!Reported(g) = <<e>>, e.kind # "load", e.what = g, Leads[at, g] = {}
      PROVE  Follow
  <2>1. at' = at /\ wire' = (w \o <<e>>) \o <<>> /\ idle' = TRUE
    <3>1. <<e>> # <<>>
      OBVIOUS
    <3> QED BY <1>1, <1>3, <1>8, <3>1
  <2>2. w \o <<e>> \in Seq(Reports) /\ events \o (w \o <<e>>) = Append(seq, e)
    BY <1>2, <1>3, <1>4, <1>5, OneMoreWaits
  <2>3. wire' = w \o <<e>>
    BY <2>1, <2>2, ConcatEmptySeq
  <2>4. ~ strayed => Tracks(Append(seq, e), at, TRUE)
    <3>1. ASSUME ~ strayed PROVE TracksAfter(seq, at, g, e)
      <4>1. PICK p : p = at
        OBVIOUS
      <4>2. PICK waiting : waiting = idle
        OBVIOUS
      <4>3. p \in Pages /\ waiting \in BOOLEAN /\ Tracks(seq, p, waiting)
        BY <1>2, <1>6, <3>1, <4>1, <4>2
      <4>4. TracksAfter(seq, p, g, e)
        BY <1>5, <1>8, <4>3, TracksGesture
      <4> QED BY <4>1, <4>4
    <3> QED BY <1>8, <3>1 DEF TracksAfter
  <2> QED BY <1>2, <2>1, <2>2, <2>3, <2>4
<1>9. ASSUME NEW e \in Reports, Recording!Reported(g) = <<e>>, e.kind # "load", e.what = g, Leads[at, g] # {}
      PROVE  Follow
  <2>1. PICK q : q = CHOOSE x \in Leads[at, g] : TRUE
    OBVIOUS
  <2>2. at' = q /\ wire' = (w \o <<e>>) \o <<Loaded(q)>> /\ idle' = (q = at)
    BY <1>1, <1>3, <1>9, <2>1 DEF Recording!Report, Loaded
  <2>3. q \in Pages
    <3>1. Leads[at, g] \in SUBSET Pages
      BY <1>2, PagesAssumption
    <3> QED BY <1>9, <2>1, <3>1
  <2>4. PICK v : v = w \o <<e>>
    OBVIOUS
  <2>5. v \in Seq(Reports) /\ events \o v = Append(seq, e)
    BY <1>2, <1>3, <1>4, <1>5, <2>4, OneMoreWaits
  <2>6. v \o <<Loaded(q)>> \in Seq(Reports) /\ events \o (v \o <<Loaded(q)>>) = Append(events \o v, Loaded(q))
    <3>1. Loaded(q) \in Reports
      BY <2>3, StatementsOf
    <3>2. PICK d : d = Loaded(q)
      OBVIOUS
    <3>3. PICK said : said = events
      OBVIOUS
    <3>4. d \in Reports /\ said \in Seq(Reports)
      BY <1>2, <3>1, <3>2, <3>3
    <3>5. v \o <<d>> \in Seq(Reports) /\ said \o (v \o <<d>>) = Append(said \o v, d)
      BY ONLY <2>5, <3>4, OneMoreWaits
    <3> QED BY <3>2, <3>3, <3>5
  <2>7. ~ strayed => Tracks(Append(Append(seq, e), Loaded(q)), q, q = at)
    <3>1. PICK p : p = at
      OBVIOUS
    <3>2. p \in Pages /\ Leads[p, g] # {} /\ q = CHOOSE x \in Leads[p, g] : TRUE
      BY <1>2, <1>9, <2>1, <3>1
    <3>3. ~ strayed => Tracks(seq, p, idle)
      BY <1>6, <3>1
    <3>4. ASSUME ~ strayed PROVE Tracks(Append(Append(seq, e), Loaded(q)), q, q = p)
      <4>1. PICK waiting : waiting = idle
        OBVIOUS
      <4>2. waiting \in BOOLEAN /\ Tracks(seq, p, waiting)
        BY <1>2, <3>3, <3>4, <4>1
      <4>3. TracksAfter(seq, p, g, e)
        BY <1>5, <1>9, <3>2, <4>2, TracksGesture
      <4> QED BY <3>2, <4>3 DEF TracksAfter
    <3> QED BY <3>1, <3>4
  <2>8. (q = at) \in BOOLEAN
    OBVIOUS
  <2> QED BY <2>2, <2>3, <2>4, <2>5, <2>6, <2>7, <2>8
<1>10. Follow
  <2> HIDE DEF Follow
  <2>1. CASE Recording!Reported(g) = <<>> /\ \A p \in Pages : Leads[p, g] = {}
    <3>1. Leads[at, g] = {}
      BY <1>2, <2>1
    <3> QED BY <1>7, <2>1, <3>1
  <2>2. CASE \E e \in Reports : Recording!Reported(g) = <<e>> /\ e.kind # "load" /\ e.what = g
    BY <1>8, <1>9, <2>2
  <2> QED BY <2>1, <2>2, ReportedIs
<1>11. RecordTypes' /\ OnTrack' /\ NameIsFree'
  BY <1>1, <1>10 DEF RecordInv, RecordTypes, OnTrack, NameIsFree
<1>12. Recording!JourneyReplays'
  BY <1>1 DEF RecordInv, NameIsFree, Recording!JourneyReplays
<1> QED BY <1>11, <1>12 DEF RecordInv

\* An address that is typed.
LEMMA TypesOnTrack ==
    ASSUME RecordInv, NEW q \in Pages, Recording!Types(q)
    PROVE  RecordInv'
<1>1. /\ rPc = "record" /\ rPc' = rPc /\ UNCHANGED <<force, events, file, others, rAnswer>>
      /\ at' = q /\ wire' = wire \o <<Loaded(q)>> /\ strayed' = (strayed \/ idle) /\ idle' = FALSE
  BY DEF Recording!Types, Recording!Walks, Recording!disk, Recording!Report, Loaded
<1>2. at \in Pages /\ events \in Seq(Reports) /\ wire \in Seq(Reports) /\ idle \in BOOLEAN /\ strayed \in BOOLEAN
  BY DEF RecordInv, RecordTypes
<1>3. PICK seq : seq = events \o wire
  OBVIOUS
<1>4. seq \in Seq(Reports)
  BY <1>2, <1>3, ConcatProperties
<1>5. wire' \in Seq(Reports) /\ events \o wire' = Append(seq, Loaded(q))
  <2>1. PICK d : d = Loaded(q)
    OBVIOUS
  <2>2. d \in Reports
    BY <2>1, StatementsOf
  <2>3. wire \o <<d>> \in Seq(Reports) /\ events \o (wire \o <<d>>) = Append(events \o wire, d)
    BY ONLY <1>2, <2>2, OneMoreWaits
  <2> QED BY <1>1, <1>3, <2>1, <2>3
<1>6. ASSUME ~ strayed' PROVE Tracks(Append(seq, Loaded(q)), q, FALSE)
  <2>1. ~ strayed /\ ~ idle
    BY <1>1, <1>2, <1>6
  <2>2. PICK p : p = at
    OBVIOUS
  <2>3. p \in Pages /\ Tracks(seq, p, idle)
    BY <1>1, <1>2, <1>3, <2>1, <2>2 DEF RecordInv, OnTrack
  <2>4. Tracks(seq, p, FALSE)
    BY <2>1, <2>3 DEF Tracks
  <2> QED BY <1>4, <2>3, <2>4, TracksVisit
<1>7. ~ strayed' => Tracks(events' \o wire', at', idle')
  <2>1. ASSUME ~ strayed' PROVE Tracks(events \o wire', q, FALSE)
    BY <1>5, <1>6, <2>1
  <2>2. Tracks(events \o wire', q, FALSE) => Tracks(events \o wire', q, idle')
    BY DEF Tracks
  <2> QED BY <1>1, <2>1, <2>2
<1>8. RecordTypes' /\ NameIsFree'
  BY <1>1, <1>2, <1>5 DEF RecordInv, RecordTypes, NameIsFree
<1>9. OnTrack'
  BY <1>1, <1>7 DEF OnTrack
<1>10. Recording!JourneyReplays'
  BY <1>1 DEF RecordInv, NameIsFree, Recording!JourneyReplays
<1> QED BY <1>8, <1>9, <1>10 DEF RecordInv

\* The driver hands over what was reported.
LEMMA EventOnTrack ==
    ASSUME RecordInv, Recording!event
    PROVE  RecordInv'
<1>1. /\ rPc \in {"record", "write"} /\ wire # <<>> /\ UNCHANGED <<rPc, force, at, strayed, idle, file, others, rAnswer>>
      /\ events' = Append(events, Head(wire)) /\ wire' = Tail(wire)
  BY DEF Recording!event, Recording!disk
<1>2. events \in Seq(Reports) /\ wire \in Seq(Reports)
  BY DEF RecordInv, RecordTypes
<1>3. /\ Head(wire) \in Reports /\ Tail(wire) \in Seq(Reports)
      /\ Append(events, Head(wire)) \o Tail(wire) = events \o wire
  BY <1>1, <1>2, WaitsInOrder
<1>4. events' \in Seq(Reports) /\ wire' \in Seq(Reports) /\ events' \o wire' = events \o wire
  <2>1. PICK h : h = Head(wire)
    OBVIOUS
  <2>2. Append(events, h) \in Seq(Reports)
    BY <1>2, <1>3, <2>1
  <2> QED BY <1>1, <1>3, <2>1, <2>2
<1>5. RecordTypes' /\ NameIsFree'
  BY <1>1, <1>4 DEF RecordInv, RecordTypes, NameIsFree
<1>6. OnTrack'
  <2>1. PICK seq : seq = events \o wire
    OBVIOUS
  <2>2. ~ strayed => Tracks(seq, at, idle)
    BY <1>1, <2>1 DEF RecordInv, OnTrack
  <2>3. ~ strayed' => Tracks(events' \o wire', at', idle')
    BY <1>1, <1>4, <2>1, <2>2
  <2> QED BY <1>1, <2>3 DEF OnTrack
<1>7. Recording!JourneyReplays'
  BY <1>1 DEF RecordInv, NameIsFree, Recording!JourneyReplays
<1> QED BY <1>5, <1>6, <1>7 DEF RecordInv

\* The first report.
LEMMA NavigateOnTrack ==
    ASSUME RecordInv, Recording!Navigate
    PROVE  RecordInv'
<1>1. /\ rPc = "install" /\ rPc' = "record" /\ wire' = <<Loaded(at)>>
      /\ UNCHANGED <<force, at, events, strayed, idle, file, others, rAnswer>>
  BY DEF Recording!Navigate, Recording!Goto, Recording!Report, Loaded, Recording!disk
<1>2. at \in Pages /\ events = <<>>
  BY <1>1 DEF RecordInv, RecordTypes, OnTrack
<1>3. Loaded(at) \in Reports
  BY <1>2, StatementsOf
<1>4. wire' \in Seq(Reports) /\ events' \o wire' = Append(<<>>, Loaded(at))
  <2>1. PICK d : d = Loaded(at)
    OBVIOUS
  <2>2. <<d>> \in Seq(Reports) /\ <<>> \o <<d>> = <<d>> /\ Append(<<>>, d) = <<d>>
    BY <1>3, <2>1
  <2> QED BY <1>1, <1>2, <2>1, <2>2
<1>5. Tracks(Append(<<>>, Loaded(at)), at, FALSE)
  BY <1>2, TracksStart
<1>6. Tracks(events' \o wire', at', idle')
  <2>1. Tracks(Append(<<>>, Loaded(at)), at, FALSE) => Tracks(Append(<<>>, Loaded(at)), at, idle')
    BY DEF Tracks
  <2> QED BY <1>1, <1>4, <1>5, <2>1
<1>7. RecordTypes' /\ NameIsFree'
  BY <1>1, <1>4 DEF RecordInv, RecordTypes, NameIsFree
<1>8. OnTrack'
  BY <1>1, <1>6 DEF OnTrack
<1>9. Recording!JourneyReplays'
  BY <1>1 DEF RecordInv, NameIsFree, Recording!JourneyReplays
<1> QED BY <1>7, <1>8, <1>9 DEF RecordInv

\* What is written plays, however much of what was reported it is of.
LEMMA WritesWhatPlays ==
    ASSUME RecordInv, Recording!writeRecording
    PROVE  RecordInv'
<1>1. /\ rPc = "write" /\ rPc' = "returned" /\ UNCHANGED <<force, at, wire, events, strayed, idle, others>>
      /\ IF Recording!recordedSteps(events) = <<>> THEN rAnswer' = "nothing"
         ELSE file' = IF force \/ file = {} THEN {Recording!recordedSteps(events)} ELSE file
  BY DEF Recording!writeRecording, Recording!Answer
<1>2. events \in Seq(Reports) /\ wire \in Seq(Reports)
  BY DEF RecordInv, RecordTypes
<1>3. RecordTypes' /\ OnTrack' /\ NameIsFree'
  BY <1>1 DEF RecordInv, RecordTypes, OnTrack, NameIsFree
<1>4. ASSUME ~ strayed PROVE Recording!Plays(Recording!recordedSteps(events))
  <2>1. PICK seq : seq = events \o wire
    OBVIOUS
  <2>2. PICK n : n = Len(events)
    OBVIOUS
  <2>3. seq \in Seq(Reports) /\ n \in 0 .. Len(seq) /\ Cut(seq, n) = events
    BY <1>2, <2>1, <2>2, WaitsInOrder
  <2>4. Tracks(seq, at, idle)
    BY <1>1, <1>4, <2>1 DEF RecordInv, OnTrack
  <2>5. Recording!Walked(Recording!Followed(seq).steps) = [at |-> at, held |-> TRUE]
    BY <2>4 DEF Tracks
  <2>6. Recording!Walked(Recording!Followed(seq).steps).held
    BY <2>5
  <2>7. Recording!Plays(Recording!recordedSteps(seq))
    BY <2>6 DEF Recording!Plays, Recording!recordedSteps
  <2>8. Recording!Plays(Recording!recordedSteps(Cut(seq, n)))
    BY <2>3, <2>7, PlaysFromTheStart
  <2> QED BY <2>3, <2>8
<1>5. Recording!JourneyReplays'
  <2>1. ASSUME rAnswer' = "created", ~ strayed', ~ others' PROVE file' = {Recording!recordedSteps(events)} /\ ~ strayed
    BY <1>1, <2>1 DEF RecordInv, RecordTypes, NameIsFree
  <2>2. events' = events
    BY <1>1
  <2> QED BY <1>4, <2>1, <2>2 DEF Recording!JourneyReplays
<1> QED BY <1>3, <1>5 DEF RecordInv

\* The rest says nothing, and leaves the journey alone.
LEMMA RestOnTrack ==
    ASSUME RecordInv,
           \/ Recording!RefuseTaken \/ Recording!NothingAnswers \/ Recording!recordLaunch \/ Recording!NavigateFails
           \/ Recording!Stops \/ Recording!WriteFails \/ Recording!PressesEnter \/ Recording!ClosesWindow
           \/ Recording!TakesTheName \/ UNCHANGED recorder
    PROVE  RecordInv'
<1> USE DEF RecordInv, RecordTypes, OnTrack, NameIsFree, Recording!JourneyReplays
<1>1. CASE Recording!RefuseTaken \/ Recording!NothingAnswers \/ Recording!NavigateFails \/ Recording!WriteFails
  <2>1. /\ rPc' = "returned" /\ rAnswer' \in {"refused", "failed"}
        /\ UNCHANGED <<force, at, wire, events, strayed, idle, file, others>>
    BY <1>1 DEF Recording!RefuseTaken, Recording!NothingAnswers, Recording!NavigateFails, Recording!WriteFails,
                Recording!Answer, Recording!site, Recording!disk
  <2> QED BY <2>1
<1>2. CASE Recording!recordLaunch \/ Recording!Stops
  <2>1. /\ rPc' \in {"install", "write"} /\ rPc \in {"check", "record"}
        /\ rPc = "check" => rPc' = "install" /\ (force \/ file = {})
        /\ rPc = "record" => rPc' = "write"
        /\ UNCHANGED <<force, at, wire, events, strayed, idle, file, others, rAnswer>>
    BY <1>2 DEF Recording!recordLaunch, Recording!Stops, Recording!Goto, Recording!site, Recording!disk
  <2> QED BY <2>1
<1>3. CASE Recording!PressesEnter \/ Recording!ClosesWindow \/ UNCHANGED recorder
  <2>1. UNCHANGED <<rPc, force, at, wire, events, strayed, idle, file, others, rAnswer>>
    BY <1>3 DEF Recording!PressesEnter, Recording!ClosesWindow, recorder, Recording!site, Recording!disk
  <2> QED BY <2>1
<1>4. CASE Recording!TakesTheName
  <2>1. /\ UNCHANGED <<rPc, force, at, wire, events, strayed, idle, rAnswer>> /\ others' = TRUE /\ rPc # "returned"
    BY <1>4 DEF Recording!TakesTheName, Recording!site
  <2> QED BY <2>1
<1> QED BY <1>1, <1>2, <1>3, <1>4

LEMMA RecordSteps == RecordInv /\ [Recording!Next]_recorder => RecordInv'
<1> SUFFICES ASSUME RecordInv, [Recording!Next]_recorder PROVE RecordInv'
  OBVIOUS
<1>1. CASE Recording!Next
  BY <1>1, DoesOnTrack, TypesOnTrack, EventOnTrack, NavigateOnTrack, WritesWhatPlays, RestOnTrack DEF Recording!Next
<1>2. CASE UNCHANGED recorder
  BY <1>2, RestOnTrack
<1> QED BY <1>1, <1>2

\* For every table of routes, every site and every walk over it of any length: a
\* journey that was reported as created opens a page before it does anything and,
\* run against the application it was recorded on, is at every address it expects
\* (matchPattern and fillPattern, the events and the writing of e2erecord.go).
THEOREM RecordedJourneyReplays == MCSpec => []JourneyReplays
<1> DEFINE Inv == of = "recording" => RecordInv
<1>1. MCInit => Inv
  BY RecordStarts DEF MCInit
<1>2. Inv /\ [MCNext]_all => Inv'
  <2> SUFFICES ASSUME Inv, [MCNext]_all, of' = "recording" PROVE RecordInv'
    OBVIOUS
  <2>1. of = "recording" /\ [Recording!Next]_recorder
    BY DEF MCNext, all, recorder
  <2> QED BY <2>1, RecordSteps
<1>3. Inv => JourneyReplays
  BY DEF RecordInv, JourneyReplays
<1> QED BY <1>1, <1>2, <1>3, PTL DEF MCSpec

(***************************************************************************)
(* `aru test`: what is said of a sequence is said by adding to its end.    *)
(***************************************************************************)
LEMMA InductionOnSequences ==
    ASSUME NEW A, NEW S, <<>> \in S, \A s \in Seq(A), e \in A : s \in S => Append(s, e) \in S
    PROVE  Seq(A) \subseteq S
<1> DEFINE L == {n \in Nat : \A s \in Seq(A) : Len(s) = n => s \in S}
<1>1. 0 \in L
  <2>1. ASSUME NEW s \in Seq(A), Len(s) = 0 PROVE s = <<>>
    BY <2>1, EmptySeq
  <2> QED BY <2>1
<1>2. ASSUME NEW n \in Nat, n \in L PROVE n + 1 \in L
  <2>1. ASSUME NEW s \in Seq(A), Len(s) = n + 1 PROVE s \in S
    <3>1. s # <<>>
      BY <2>1, EmptySeq
    <3>2. PICK t \in Seq(A), e \in A : s = Append(t, e)
      BY <3>1, SequenceEmptyOrAppend
    <3>3. Len(t) \in Nat /\ Len(s) = Len(t) + 1
      BY <3>2, AppendProperties
    <3>4. Len(t) = n
      BY <2>1, <3>3
    <3> QED BY <1>2, <3>2, <3>4
  <2> QED BY <2>1
<1>3. Nat \subseteq L
  <2> HIDE DEF L
  <2> QED BY <1>1, <1>2, Induction
<1> QED
  <2> SUFFICES ASSUME NEW s \in Seq(A) PROVE s \in S
    OBVIOUS
  <2>1. Len(s) \in Nat
    OBVIOUS
  <2> QED BY <1>3, <2>1

\* The flags of go test that are looked for, and what the scan for one knows.
Looked == {"run", "tags"}
Named(flag) == IF flag = "run" THEN Tests!Pattern ELSE SUBSET STRING
Scans(flag) == [over : BOOLEAN, wants : BOOLEAN, named : Seq(Named(flag)), rest : Seq(Tests!Argument)]

LEMMA ScanType ==
    ASSUME NEW flag \in Looked
    PROVE  /\ Tests!Scan \in Scans(flag)
           /\ \A s \in Scans(flag), a \in Tests!Argument : Tests!TakenFlag(flag, s, a) \in Scans(flag)
<1>1. <<>> \in Seq(Named(flag)) /\ <<>> \in Seq(Tests!Argument)
  OBVIOUS
<1>2. Tests!Scan \in Scans(flag)
  BY <1>1 DEF Tests!Scan, Scans
<1>3. ASSUME NEW s \in Scans(flag), NEW a \in Tests!Argument PROVE Tests!TakenFlag(flag, s, a) \in Scans(flag)
  <2>1. Tests!Means(flag, a) \in Named(flag)
    BY DEF Tests!Means, Named, Tests!Argument, Looked
  <2>2. Append(s.rest, a) \in Seq(Tests!Argument) /\ Append(s.named, Tests!Means(flag, a)) \in Seq(Named(flag))
    BY <2>1 DEF Scans
  <2>3. PICK rest \in Seq(Tests!Argument) : rest = Append(s.rest, a)
    BY <2>2
  <2>4. PICK named \in Seq(Named(flag)) : named = Append(s.named, Tests!Means(flag, a))
    BY <2>2
  <2>5. /\ [s EXCEPT !.rest = rest] \in Scans(flag)
        /\ [s EXCEPT !.wants = FALSE, !.named = named] \in Scans(flag)
        /\ [s EXCEPT !.over = TRUE, !.rest = rest] \in Scans(flag)
        /\ [s EXCEPT !.named = named] \in Scans(flag)
        /\ [s EXCEPT !.wants = TRUE] \in Scans(flag)
    BY DEF Scans
  <2> QED BY <2>3, <2>4, <2>5 DEF Tests!TakenFlag
<1> QED BY <1>2, <1>3
LEMMA ScanDoes ==
    ASSUME NEW flag \in Looked, NEW s \in Scans(flag), NEW a \in Tests!Argument, ~ s.over, a.flag # Tests!End,
           NEW then, then = Tests!TakenFlag(flag, s, a)
    PROVE  /\ ~ then.over
           /\ s.wants => /\ ~ then.wants /\ then.named = Append(s.named, Tests!Means(flag, a))
                         /\ then.rest = s.rest
           /\ ~ s.wants /\ a.flag # flag => /\ ~ then.wants /\ then.named = s.named
                                            /\ then.rest = Append(s.rest, a)
           /\ ~ s.wants /\ a.flag = flag /\ a.joined => /\ ~ then.wants /\ then.rest = s.rest
                                                         /\ then.named = Append(s.named, Tests!Means(flag, a))
           /\ ~ s.wants /\ a.flag = flag /\ ~ a.joined => then.wants /\ then.named = s.named /\ then.rest = s.rest
<1>1. CASE s.wants
  <2>1. PICK next : next = [s EXCEPT !.wants = FALSE, !.named = Append(s.named, Tests!Means(flag, a))]
    OBVIOUS
  <2>2. then = next
    BY <1>1, <2>1, Zenon DEF Tests!TakenFlag
  <2> QED BY <1>1, <2>1, <2>2 DEF Scans
<1>2. CASE ~ s.wants /\ a.flag # flag
  <2>1. PICK next : next = [s EXCEPT !.rest = Append(s.rest, a)]
    OBVIOUS
  <2>2. then = next
    BY <1>2, <2>1 DEF Tests!TakenFlag
  <2> QED BY <1>2, <2>1, <2>2 DEF Scans
<1>3. CASE ~ s.wants /\ a.flag = flag /\ a.joined
  <2>1. PICK next : next = [s EXCEPT !.wants = FALSE, !.named = Append(s.named, Tests!Means(flag, a))]
    OBVIOUS
  <2>2. then = next
    BY <1>3, <2>1 DEF Tests!TakenFlag
  <2> QED BY <1>3, <2>1, <2>2 DEF Scans
<1>4. CASE ~ s.wants /\ a.flag = flag /\ ~ a.joined
  <2>1. then = [s EXCEPT !.wants = TRUE]
    BY <1>4 DEF Tests!TakenFlag
  <2> QED BY <1>4, <2>1 DEF Scans
<1> QED BY <1>1, <1>2, <1>3, <1>4

\* What a scan knows, argument by argument.
Scanning(flag, args, f) == f[0] = Tests!Scan /\ \A k \in 1 .. Len(args) : f[k] = Tests!TakenFlag(flag, f[k - 1], args[k])

LEMMA ScanSo ==
    ASSUME NEW flag \in Looked, NEW args \in Seq(Tests!Argument)
    PROVE  \E f \in [0 .. Len(args) -> Scans(flag)] :
              Scanning(flag, args, f) /\ Tests!takeFlag(flag, args) = f[Len(args)]
<1> DEFINE n == Len(args)
           step == [p \in Scans(flag) \X (1 .. n) |-> Tests!TakenFlag(flag, p[1], args[p[2]])]
           Step(f, i) == IF i = 0 THEN Tests!Scan ELSE Tests!TakenFlag(flag, f[i - 1], args[i])
           MadeSo(f) == f = [i \in 0 .. n |-> Step(f, i)]
           f == CHOOSE f : MadeSo(f)
<1>1. n \in Nat /\ \A i \in 1 .. n : args[i] \in Tests!Argument
  OBVIOUS
<1>2. Tests!takeFlag(flag, args) = f[n]
  BY DEF Tests!takeFlag
<1> HIDE DEF n
<1>3. step \in [Scans(flag) \X (1 .. n) -> Scans(flag)]
  BY <1>1, ScanType
<1>5. PICK H \in [0 .. n -> Scans(flag)] : Makes(H, n, Tests!Scan, step)
  <2> HIDE DEF step
  <2> QED BY <1>1, <1>3, ScanType, Recursion
<1>6. H[0] = Tests!Scan /\ \A k \in 1 .. n : H[k] = Tests!TakenFlag(flag, H[k - 1], args[k])
  <2>1. ASSUME NEW k \in 1 .. n PROVE H[k] = Tests!TakenFlag(flag, H[k - 1], args[k])
    <3>1. <<H[k - 1], k>> \in Scans(flag) \X (1 .. n)
      <4>1. k - 1 \in 0 .. n
        BY <1>1
      <4> QED BY <1>5, <4>1
    <3>2. step[<<H[k - 1], k>>] = Tests!TakenFlag(flag, H[k - 1], args[k])
      BY <3>1
    <3> HIDE DEF step
    <3> QED BY <1>5, <3>2 DEF Makes
  <2> QED BY <1>5, <2>1 DEF Makes
<1>7. MadeSo(H)
  <2>1. \A i \in 0 .. n : H[i] = Step(H, i)
    <3> TAKE i \in 0 .. n
    <3>1. i # 0 => i \in 1 .. n
      BY <1>1
    <3> QED BY <1>6, <3>1
  <2>2. H = [i \in 0 .. n |-> H[i]]
    BY <1>5
  <2> HIDE DEF Step
  <2> QED BY <2>1, <2>2
<1>8. MadeSo(f)
  <2> HIDE DEF MadeSo
  <2> QED BY <1>7
<1> HIDE DEF f, step
<1>9. \A i \in 0 .. n : f[i] = Step(f, i)
  <2> HIDE DEF Step
  <2> QED BY <1>8
<1>10. GoTogether(n, f, H)
  <2>1. f[0] = Tests!Scan
    <3>1. 0 \in 0 .. n
      BY <1>1
    <3>2. f[0] = Step(f, 0)
      <4> HIDE DEF Step
      <4> QED BY <1>9, <3>1
    <3> QED BY <3>2
  <2>2. ASSUME NEW k \in 1 .. n, f[k - 1] = H[k - 1] PROVE f[k] = H[k]
    <3>1. k \in 0 .. n /\ k # 0
      BY <1>1
    <3>2. f[k] = Step(f, k)
      <4> HIDE DEF Step
      <4> QED BY <1>9, <3>1
    <3> QED BY <1>6, <2>2, <3>1, <3>2
  <2> QED BY <1>6, <2>1, <2>2 DEF GoTogether
<1>11. Agree(n, f, H)
  BY <1>1, <1>10, SameSteps
<1>12. f[n] = H[n]
  BY <1>1, <1>11 DEF Agree
<1>13. Scanning(flag, args, H)
  BY <1>6 DEF Scanning, n
<1> QED BY <1>2, <1>5, <1>12, <1>13 DEF n

LEMMA ScanNothing ==
    ASSUME NEW flag \in Looked
    PROVE  Tests!takeFlag(flag, <<>>) = Tests!Scan
<1>1. <<>> \in Seq(Tests!Argument) /\ Len(<<>>) = 0
  OBVIOUS
<1>2. PICK f : Scanning(flag, <<>>, f) /\ Tests!takeFlag(flag, <<>>) = f[Len(<<>>)]
  BY <1>1, ScanSo
<1> QED BY <1>1, <1>2 DEF Scanning

LEMMA ScanIs ==
    ASSUME NEW flag \in Looked, NEW args \in Seq(Tests!Argument)
    PROVE  Tests!takeFlag(flag, args) \in Scans(flag)
<1>1. PICK n \in Nat : n = Len(args)
  OBVIOUS
<1>2. PICK f \in [0 .. n -> Scans(flag)] : Tests!takeFlag(flag, args) = f[n]
  BY <1>1, ScanSo
<1> QED BY <1>2

\* One more argument.
LEMMA ScanOneMore ==
    ASSUME NEW flag \in Looked, NEW args \in Seq(Tests!Argument), NEW a \in Tests!Argument
    PROVE  /\ Tests!takeFlag(flag, args) \in Scans(flag)
           /\ Tests!takeFlag(flag, Append(args, a)) = Tests!TakenFlag(flag, Tests!takeFlag(flag, args), a)
<1>1. PICK n : n = Len(args)
  OBVIOUS
<1>2. PICK more : more = Append(args, a)
  OBVIOUS
<1>3. /\ n \in Nat /\ more \in Seq(Tests!Argument) /\ Len(more) = n + 1 /\ more[n + 1] = a
      /\ \A k \in 1 .. n : more[k] = args[k]
  BY ONLY <1>1, <1>2, AppendProperties
<1>4. PICK f \in [0 .. n -> Scans(flag)] : Scanning(flag, args, f) /\ Tests!takeFlag(flag, args) = f[n]
  BY <1>1, ScanSo
<1>5. PICK g \in [0 .. n + 1 -> Scans(flag)] : Scanning(flag, more, g) /\ Tests!takeFlag(flag, more) = g[n + 1]
  BY <1>3, ScanSo
<1>6. GoTogether(n, g, f)
  <2>1. ASSUME NEW k \in 1 .. n, g[k - 1] = f[k - 1] PROVE g[k] = f[k]
    <3>1. k \in 1 .. n + 1 /\ more[k] = args[k]
      BY <1>3
    <3>2. g[k] = Tests!TakenFlag(flag, g[k - 1], more[k])
      BY <1>3, <1>5, <3>1 DEF Scanning
    <3>3. f[k] = Tests!TakenFlag(flag, f[k - 1], args[k])
      BY <1>1, <1>4 DEF Scanning
    <3> QED BY <2>1, <3>1, <3>2, <3>3
  <2> QED BY <1>4, <1>5, <2>1 DEF GoTogether, Scanning
<1>7. g[n] = f[n]
  <2>1. Agree(n, g, f)
    BY <1>3, <1>6, SameSteps
  <2> QED BY <1>3, <2>1 DEF Agree
<1>8. g[n + 1] = Tests!TakenFlag(flag, g[n], a)
  <2>1. n + 1 \in 1 .. n + 1 /\ (n + 1) - 1 = n
    BY <1>3
  <2> QED BY <1>3, <1>5, <2>1 DEF Scanning
<1>9. f[n] \in Scans(flag)
  BY <1>3, <1>4
<1> QED BY <1>2, <1>4, <1>5, <1>7, <1>8, <1>9

(***************************************************************************)
(* The same of parseTestArgs.                                              *)
(***************************************************************************)
Words == {"shard", "driver", "browser", "list", "json", "e2e", "smoke", "run", "tags", "packages", "args"}

LEMMA Texts ==
    /\ Tests!Number # Tests!OtherText /\ Tests!Empty # Tests!End
    /\ Tests!Empty \notin Words /\ Tests!End \notin Words
<1>1. Tests!Number # Tests!OtherText
  BY Zenon DEF Tests!Number, Tests!OtherText
<1>2. Tests!Empty # Tests!End
  BY Zenon DEF Tests!Empty, Tests!End
<1>3. Tests!Empty \notin Words
  BY Zenon DEF Tests!Empty, Words
<1>4. Tests!End \notin Words
  BY Zenon DEF Tests!End, Words
<1> QED BY <1>1, <1>2, <1>3, <1>4

Wants == {"shard", "driver", "browser", Tests!Empty}
RunStates ==
    [e2e : BOOLEAN, smoke : BOOLEAN, sharded : BOOLEAN, driver : BOOLEAN, engine : BOOLEAN, deprecated : BOOLEAN,
     list : BOOLEAN, rest : Seq(Tests!Argument), wants : Wants, over : BOOLEAN, wrong : BOOLEAN]

LEMMA ReadType ==
    ASSUME NEW s \in RunStates, NEW a \in Tests!Argument
    PROVE  Tests!Read(s, a) \in RunStates
<1>1. Append(s.rest, a) \in Seq(Tests!Argument)
  BY DEF RunStates
<1>2. PICK rest \in Seq(Tests!Argument) : rest = Append(s.rest, a)
  BY <1>1
<1>3. PICK kept : kept = [s EXCEPT !.rest = rest]
  OBVIOUS
<1>4. kept \in RunStates /\ kept = Tests!Rest(s, a)
  BY <1>2, <1>3 DEF RunStates, Tests!Rest
<1>5. [kept EXCEPT !.over = TRUE] \in RunStates /\ [s EXCEPT !.list = TRUE] \in RunStates
      /\ [s EXCEPT !.e2e = TRUE] \in RunStates /\ [s EXCEPT !.e2e = TRUE, !.smoke = TRUE] \in RunStates
  BY <1>4 DEF RunStates
<1>6. ASSUME NEW v PROVE Tests!Valued(s, a.flag, v) \in RunStates
  BY DEF RunStates, Tests!Valued
<1>7. a.flag \in {"shard", "driver", "browser"} => [s EXCEPT !.wants = a.flag] \in RunStates
  BY DEF RunStates, Wants
<1> QED BY <1>4, <1>5, <1>6, <1>7 DEF Tests!Read

LEMMA TakenType ==
    /\ Tests!Nothing \in RunStates
    /\ \A s \in RunStates, a \in Tests!Argument : Tests!Taken(s, a) \in RunStates
<1>1. Tests!Nothing \in RunStates
  <2>1. <<>> \in Seq(Tests!Argument)
    OBVIOUS
  <2> QED BY <2>1 DEF Tests!Nothing, RunStates, Wants
<1>2. ASSUME NEW s \in RunStates, NEW a \in Tests!Argument PROVE Tests!Taken(s, a) \in RunStates
  <2>1. PICK now : now = [s EXCEPT !.wants = Tests!Empty]
    OBVIOUS
  <2>2. now \in RunStates
    BY <2>1 DEF RunStates, Wants
  <2>3. Tests!Bare(now) \in RunStates
    BY <2>2 DEF RunStates, Tests!Bare
  <2>4. ASSUME NEW f, NEW v PROVE Tests!Valued(now, f, v) \in RunStates
    BY <2>2 DEF RunStates, Tests!Valued
  <2>5. Tests!Read(s, a) \in RunStates /\ Tests!Read(Tests!Bare(now), a) \in RunStates
    BY <2>3, ReadType
  <2> QED BY <2>1, <2>4, <2>5 DEF Tests!Taken
<1> QED BY <1>1, <1>2

\* An argument is kept for go test, or is aru's own.
Kept(s, a, then) == then.rest = Append(s.rest, a) /\ then.wants = Tests!Empty
Dropped(s, a, then) ==
    /\ then.rest = s.rest /\ a.flag \notin {"run", "tags", "packages"}
    /\ Tests!Word(a) => s.wants # Tests!Empty
    /\ then.wants # Tests!Empty => then.wants = a.flag /\ ~ a.joined

LEMMA ReadDoes ==
    ASSUME NEW s \in RunStates, NEW a \in Tests!Argument, ~ s.over, a.flag # Tests!End, s.wants = Tests!Empty,
           NEW then, then = Tests!Read(s, a), ~ then.wrong
    PROVE  ~ s.wrong /\ ~ then.over /\ (Kept(s, a, then) \/ (Dropped(s, a, then) /\ ~ Tests!Word(a)))
<1>1. PICK kept : kept = Tests!Rest(s, a)
  OBVIOUS
<1>2. PICK text \in STRING : text = a.value
  BY DEF Tests!Argument
<1>3. kept = [s EXCEPT !.rest = Append(s.rest, a)]
  BY <1>1 DEF Tests!Rest
<1>4. Kept(s, a, kept) /\ kept.over = s.over /\ kept.wrong = s.wrong
  BY <1>3 DEF RunStates, Kept
<1>5. CASE then = kept
  BY <1>4, <1>5
<1>6. CASE ~ Tests!Word(a) /\ a.flag \in {"list", "e2e", "smoke"} /\ then # kept
  <2>1. PICK other : \/ other = [s EXCEPT !.list = TRUE] /\ then = other
                     \/ other = [s EXCEPT !.e2e = TRUE] /\ then = other
                     \/ other = [s EXCEPT !.e2e = TRUE, !.smoke = TRUE] /\ then = other
    BY <1>1, <1>6 DEF Tests!Read
  <2> QED BY <1>6, <2>1 DEF RunStates, Dropped
<1>7. CASE ~ Tests!Word(a) /\ a.flag \in {"shard", "driver", "browser"} /\ a.joined
  <2>1. then = Tests!Valued(s, a.flag, a.value)
    BY <1>7 DEF Tests!Read
  <2>2. PICK wrong, sharded, driven, engine :
           /\ wrong = [s EXCEPT !.wrong = TRUE] /\ sharded = [s EXCEPT !.sharded = TRUE]
           /\ driven = [s EXCEPT !.driver = TRUE, !.e2e = TRUE] /\ engine = [s EXCEPT !.engine = TRUE, !.e2e = TRUE]
    OBVIOUS
  <2>3. then \in {wrong, sharded, driven, engine}
    BY <1>7, <2>1, <2>2 DEF Tests!Valued
  <2> QED BY <1>7, <2>2, <2>3 DEF RunStates, Dropped
<1>8. CASE ~ Tests!Word(a) /\ a.flag \in {"shard", "driver", "browser"} /\ ~ a.joined
  <2>1. then = [s EXCEPT !.wants = a.flag]
    BY <1>8 DEF Tests!Read
  <2> QED BY <1>8, <2>1 DEF RunStates, Dropped, Wants
<1>9. then = kept \/ (~ Tests!Word(a) /\ a.flag \in {"list", "e2e", "smoke", "shard", "driver", "browser"})
  BY <1>1 DEF Tests!Read
<1> QED BY <1>5, <1>6, <1>7, <1>8, <1>9

LEMMA TakenDoes ==
    ASSUME NEW s \in RunStates, NEW a \in Tests!Argument, ~ s.over, a.flag # Tests!End,
           s.wants = "driver" => Tests!Word(a), NEW then, then = Tests!Taken(s, a), ~ then.wrong
    PROVE  ~ s.wrong /\ ~ then.over /\ (Kept(s, a, then) \/ Dropped(s, a, then))
<1>1. PICK now : now = [s EXCEPT !.wants = Tests!Empty]
  OBVIOUS
<1>2. ~ s.wrong
  BY DEF Tests!Taken
<1>3. now \in RunStates /\ ~ now.over /\ ~ now.wrong /\ now.rest = s.rest /\ now.wants = Tests!Empty
  BY <1>1, <1>2 DEF RunStates, Wants
<1>4. CASE s.wants \in {"shard", "driver"}
  <2>1. then = Tests!Valued(now, s.wants, Tests!Text(a))
    BY <1>1, <1>2, <1>4 DEF Tests!Taken
  <2>2. PICK wrong, sharded, driven :
           /\ wrong = [now EXCEPT !.wrong = TRUE] /\ sharded = [now EXCEPT !.sharded = TRUE]
           /\ driven = [now EXCEPT !.driver = TRUE, !.e2e = TRUE]
    OBVIOUS
  <2>3. \/ then = wrong
        \/ s.wants = "shard" /\ Tests!Text(a) = Tests!Number /\ then = sharded
        \/ s.wants = "driver" /\ then = driven
    BY <1>4, <2>1, <2>2 DEF Tests!Valued
  <2>4. then.rest = s.rest /\ then.wants = Tests!Empty /\ ~ then.over
    BY <1>3, <2>2, <2>3 DEF RunStates
  <2>5. s.wants = "shard" => Tests!Word(a)
    BY <1>3, <2>2, <2>3, Texts DEF RunStates, Tests!Text
  <2>6. Tests!Word(a)
    BY <1>4, <2>5
  <2>7. a.flag \notin {"run", "tags", "packages"} /\ s.wants # Tests!Empty
    BY <1>4, <2>6, Texts DEF Words, Tests!Word
  <2> QED BY <1>2, <2>4, <2>7 DEF Dropped
<1>5. CASE s.wants = "browser" /\ Tests!Word(a) /\ a.value \in Tests!Engines
  <2>1. then = Tests!Valued(now, "browser", a.value)
    BY <1>1, <1>2, <1>5 DEF Tests!Taken
  <2>2. then = [now EXCEPT !.engine = TRUE, !.e2e = TRUE]
    BY <1>5, <2>1 DEF Tests!Valued
  <2>3. then.rest = s.rest /\ then.wants = Tests!Empty /\ ~ then.over
    BY <1>3, <2>2 DEF RunStates
  <2>4. a.flag \notin {"run", "tags", "packages"} /\ s.wants # Tests!Empty
    BY <1>5, Texts DEF Words, Tests!Word
  <2> QED BY <1>2, <2>3, <2>4 DEF Dropped
<1>6. CASE s.wants = "browser" /\ ~ (Tests!Word(a) /\ a.value \in Tests!Engines)
  <2>1. then = Tests!Read(Tests!Bare(now), a)
    BY <1>1, <1>2, <1>6 DEF Tests!Taken
  <2>2. PICK bare : bare = Tests!Bare(now)
    OBVIOUS
  <2>3. bare \in RunStates /\ ~ bare.over /\ bare.wants = Tests!Empty /\ bare.rest = s.rest
    BY <1>3, <2>2 DEF RunStates, Tests!Bare
  <2>4. ~ then.over /\ (Kept(bare, a, then) \/ (Dropped(bare, a, then) /\ ~ Tests!Word(a)))
    BY <2>1, <2>2, <2>3, ReadDoes
  <2> QED BY <1>2, <2>3, <2>4 DEF Kept, Dropped
<1>7. CASE s.wants = Tests!Empty
  <2>1. then = Tests!Read(s, a)
    BY <1>2, <1>7, Texts DEF Tests!Taken, Words
  <2> QED BY <1>7, <2>1, ReadDoes
<1> QED BY <1>4, <1>5, <1>6, <1>7 DEF RunStates, Wants

\* What has been read of a line, argument by argument.
Reading(args, f) == f[0] = Tests!Nothing /\ \A k \in 1 .. Len(args) : f[k] = Tests!Taken(f[k - 1], args[k])

LEMMA ReadingSo ==
    ASSUME NEW args \in Seq(Tests!Argument)
    PROVE  \E f \in [0 .. Len(args) -> RunStates] :
              Reading(args, f) /\ Tests!Scanned(args) = f[Len(args)]
<1> DEFINE n == Len(args)
           step == [p \in RunStates \X (1 .. n) |-> Tests!Taken(p[1], args[p[2]])]
           Step(f, i) == IF i = 0 THEN Tests!Nothing ELSE Tests!Taken(f[i - 1], args[i])
           MadeSo(f) == f = [i \in 0 .. n |-> Step(f, i)]
           f == CHOOSE f : MadeSo(f)
<1>1. n \in Nat /\ \A i \in 1 .. n : args[i] \in Tests!Argument
  OBVIOUS
<1>2. Tests!Scanned(args) = f[n]
  BY DEF Tests!Scanned
<1> HIDE DEF n
<1>3. step \in [RunStates \X (1 .. n) -> RunStates]
  BY <1>1, TakenType
<1>5. PICK H \in [0 .. n -> RunStates] : Makes(H, n, Tests!Nothing, step)
  <2> HIDE DEF step
  <2> QED BY <1>1, <1>3, TakenType, Recursion
<1>6. H[0] = Tests!Nothing /\ \A k \in 1 .. n : H[k] = Tests!Taken(H[k - 1], args[k])
  <2>1. ASSUME NEW k \in 1 .. n PROVE H[k] = Tests!Taken(H[k - 1], args[k])
    <3>1. <<H[k - 1], k>> \in RunStates \X (1 .. n)
      <4>1. k - 1 \in 0 .. n
        BY <1>1
      <4> QED BY <1>5, <4>1
    <3>2. step[<<H[k - 1], k>>] = Tests!Taken(H[k - 1], args[k])
      BY <3>1
    <3> HIDE DEF step
    <3> QED BY <1>5, <3>2 DEF Makes
  <2> QED BY <1>5, <2>1 DEF Makes
<1>7. MadeSo(H)
  <2>1. \A i \in 0 .. n : H[i] = Step(H, i)
    <3> TAKE i \in 0 .. n
    <3>1. i # 0 => i \in 1 .. n
      BY <1>1
    <3> QED BY <1>6, <3>1
  <2>2. H = [i \in 0 .. n |-> H[i]]
    BY <1>5
  <2> HIDE DEF Step
  <2> QED BY <2>1, <2>2
<1>8. MadeSo(f)
  <2> HIDE DEF MadeSo
  <2> QED BY <1>7
<1> HIDE DEF f, step
<1>9. \A i \in 0 .. n : f[i] = Step(f, i)
  <2> HIDE DEF Step
  <2> QED BY <1>8
<1>10. GoTogether(n, f, H)
  <2>1. f[0] = Tests!Nothing
    <3>1. 0 \in 0 .. n
      BY <1>1
    <3>2. f[0] = Step(f, 0)
      <4> HIDE DEF Step
      <4> QED BY <1>9, <3>1
    <3> QED BY <3>2
  <2>2. ASSUME NEW k \in 1 .. n, f[k - 1] = H[k - 1] PROVE f[k] = H[k]
    <3>1. k \in 0 .. n /\ k # 0
      BY <1>1
    <3>2. f[k] = Step(f, k)
      <4> HIDE DEF Step
      <4> QED BY <1>9, <3>1
    <3> QED BY <1>6, <2>2, <3>1, <3>2
  <2> QED BY <1>6, <2>1, <2>2 DEF GoTogether
<1>11. Agree(n, f, H)
  BY <1>1, <1>10, SameSteps
<1>12. f[n] = H[n]
  BY <1>1, <1>11 DEF Agree
<1>13. Reading(args, H)
  BY <1>6 DEF Reading, n
<1> QED BY <1>2, <1>5, <1>12, <1>13 DEF n

LEMMA ReadingNothing ==
    Tests!Scanned(<<>>) = Tests!Nothing
<1>1. <<>> \in Seq(Tests!Argument) /\ Len(<<>>) = 0
  OBVIOUS
<1>2. PICK f : Reading(<<>>, f) /\ Tests!Scanned(<<>>) = f[Len(<<>>)]
  BY <1>1, ReadingSo
<1> QED BY <1>1, <1>2 DEF Reading

LEMMA ReadingIs ==
    ASSUME NEW args \in Seq(Tests!Argument)
    PROVE  Tests!Scanned(args) \in RunStates
<1>1. PICK n \in Nat : n = Len(args)
  OBVIOUS
<1>2. PICK f \in [0 .. n -> RunStates] : Tests!Scanned(args) = f[n]
  BY <1>1, ReadingSo
<1> QED BY <1>2

\* One more argument.
LEMMA ReadingOneMore ==
    ASSUME NEW args \in Seq(Tests!Argument), NEW a \in Tests!Argument
    PROVE  /\ Tests!Scanned(args) \in RunStates
           /\ Tests!Scanned(Append(args, a)) = Tests!Taken(Tests!Scanned(args), a)
<1>1. PICK n : n = Len(args)
  OBVIOUS
<1>2. PICK more : more = Append(args, a)
  OBVIOUS
<1>3. /\ n \in Nat /\ more \in Seq(Tests!Argument) /\ Len(more) = n + 1 /\ more[n + 1] = a
      /\ \A k \in 1 .. n : more[k] = args[k]
  BY ONLY <1>1, <1>2, AppendProperties
<1>4. PICK f \in [0 .. n -> RunStates] : Reading(args, f) /\ Tests!Scanned(args) = f[n]
  BY <1>1, ReadingSo
<1>5. PICK g \in [0 .. n + 1 -> RunStates] : Reading(more, g) /\ Tests!Scanned(more) = g[n + 1]
  BY <1>3, ReadingSo
<1>6. GoTogether(n, g, f)
  <2>1. ASSUME NEW k \in 1 .. n, g[k - 1] = f[k - 1] PROVE g[k] = f[k]
    <3>1. k \in 1 .. n + 1 /\ more[k] = args[k]
      BY <1>3
    <3>2. g[k] = Tests!Taken(g[k - 1], more[k])
      BY <1>3, <1>5, <3>1 DEF Reading
    <3>3. f[k] = Tests!Taken(f[k - 1], args[k])
      BY <1>1, <1>4 DEF Reading
    <3> QED BY <2>1, <3>1, <3>2, <3>3
  <2> QED BY <1>4, <1>5, <2>1 DEF GoTogether, Reading
<1>7. g[n] = f[n]
  <2>1. Agree(n, g, f)
    BY <1>3, <1>6, SameSteps
  <2> QED BY <1>3, <2>1 DEF Agree
<1>8. g[n + 1] = Tests!Taken(g[n], a)
  <2>1. n + 1 \in 1 .. n + 1 /\ (n + 1) - 1 = n
    BY <1>3
  <2> QED BY <1>3, <1>5, <2>1 DEF Reading
<1>9. f[n] \in RunStates
  BY <1>3, <1>4
<1> QED BY <1>2, <1>4, <1>5, <1>7, <1>8, <1>9

\* No argument of a line is one of these flags.
Without(flags, args) == \A i \in DOMAIN args : args[i].flag \notin flags

LEMMA WithoutMore ==
    ASSUME NEW flags, NEW args \in Seq(Tests!Argument), NEW a \in Tests!Argument
    PROVE  Without(flags, Append(args, a)) <=> Without(flags, args) /\ a.flag \notin flags
<1>1. PICK n \in Nat : n = Len(args)
  OBVIOUS
<1>2. PICK more : more = Append(args, a)
  OBVIOUS
<1>3. /\ DOMAIN args = 1 .. n /\ DOMAIN more = 1 .. n + 1 /\ more[n + 1] = a
      /\ \A k \in 1 .. n : more[k] = args[k]
  <2>1. /\ more \in Seq(Tests!Argument) /\ Len(more) = n + 1 /\ more[n + 1] = a
        /\ \A k \in 1 .. n : more[k] = args[k]
    BY ONLY <1>1, <1>2, AppendProperties
  <2> QED BY <1>1, <2>1
<1>4. \A k \in 1 .. n + 1 : k \in 1 .. n \/ k = n + 1
  OBVIOUS
<1>5. n + 1 \in 1 .. n + 1 /\ 1 .. n \subseteq 1 .. n + 1
  OBVIOUS
<1> QED BY <1>2, <1>3, <1>4, <1>5 DEF Without

(***************************************************************************)
(* What a line names and what is left of it after aru's own flags are taken *)
(* out name the same tags and the same -run.  asks: the line ends in a flag *)
(* whose value is to come.                                                 *)
(***************************************************************************)
Asking(a) == a.flag \in {"run", "tags", "driver"} /\ ~ a.joined

Joint(asks, s, v, w, t, r) ==
    /\ ~ s.over /\ ~ v.over /\ ~ w.over /\ ~ t.over /\ ~ r.over
    /\ t.wants = v.wants /\ t.named = v.named /\ r.wants = w.wants /\ r.named = w.named
    /\ ~ (v.wants /\ w.wants)
    /\ s.wants # Tests!Empty => ~ v.wants /\ ~ w.wants
    /\ v.wants \/ w.wants \/ s.wants = "driver" => asks
    /\ Without({Tests!End, "args", "packages"}, s.rest) /\ Without({Tests!End, "args", "packages", "tags"}, t.rest)
    /\ Without({Tests!End, "args", "packages", "tags", "run"}, r.rest)
    /\ Without({"run"}, t.rest) => r.named = <<>> /\ ~ r.wants

LEMMA JointDropped ==
    ASSUME NEW asks, NEW s \in RunStates, NEW v \in Scans("tags"), NEW w \in Scans("run"), NEW t, NEW r,
           Joint(asks, s, v, w, t, r), NEW a \in Tests!Argument, a.flag \notin {Tests!End, "args", "packages"},
           asks => Tests!Word(a), NEW then \in RunStates, ~ then.over, Dropped(s, a, then)
    PROVE  Joint(Asking(a), then, Tests!TakenFlag("tags", v, a), Tests!TakenFlag("run", w, a), t, r)
<1>1. ~ v.wants /\ ~ w.wants
  BY Texts DEF Joint, Dropped
<1>2. PICK v1, w1 : v1 = Tests!TakenFlag("tags", v, a) /\ w1 = Tests!TakenFlag("run", w, a)
  OBVIOUS
<1>3. ~ v.over /\ ~ w.over /\ a.flag # Tests!End /\ a.flag # "tags" /\ a.flag # "run"
  BY DEF Joint, Dropped
<1>4. ~ v1.over /\ ~ v1.wants /\ v1.named = v.named
  BY <1>1, <1>2, <1>3, ScanDoes DEF Looked
<1>5. ~ w1.over /\ ~ w1.wants /\ w1.named = w.named
  BY <1>1, <1>2, <1>3, ScanDoes DEF Looked
<1>6. then.rest = s.rest
  BY DEF Dropped
<1>7. then.wants = "driver" => Asking(a)
  BY Texts DEF Dropped, Asking, Words
<1>8. then.wants # Tests!Empty => ~ v1.wants /\ ~ w1.wants
  BY <1>4, <1>5
<1>9. /\ ~ then.over /\ ~ v1.over /\ ~ w1.over /\ ~ t.over /\ ~ r.over
      /\ t.wants = v1.wants /\ t.named = v1.named /\ r.wants = w1.wants /\ r.named = w1.named
  <2>1. /\ t.wants = v.wants /\ t.named = v.named /\ r.wants = w.wants /\ r.named = w.named
        /\ ~ t.over /\ ~ r.over
    BY DEF Joint
  <2>2. v1 \in Scans("tags") /\ w1 \in Scans("run")
    BY <1>2, ScanType DEF Looked
  <2> QED BY <1>1, <1>4, <1>5, <2>1, <2>2 DEF Scans
<1>10. /\ Without({Tests!End, "args", "packages"}, then.rest) /\ Without({Tests!End, "args", "packages", "tags"}, t.rest)
       /\ Without({Tests!End, "args", "packages", "tags", "run"}, r.rest)
       /\ Without({"run"}, t.rest) => r.named = <<>> /\ ~ r.wants
  BY <1>6 DEF Joint
<1>11. Joint(Asking(a), then, v1, w1, t, r)
  BY <1>4, <1>5, <1>7, <1>8, <1>9, <1>10 DEF Joint
<1> QED BY <1>2, <1>11

LEMMA JointNamed ==
    ASSUME NEW asks, NEW s \in RunStates, NEW v \in Scans("tags"), NEW w \in Scans("run"), NEW t \in Scans("tags"),
           NEW r \in Scans("run"), Joint(asks, s, v, w, t, r),
           NEW a \in Tests!Argument, a.flag \notin {Tests!End, "args", "packages"},
           asks => Tests!Word(a), NEW then \in RunStates, ~ then.over, Kept(s, a, then),
           v.wants \/ a.flag = "tags"
    PROVE  /\ Tests!TakenFlag("tags", t, a).rest = t.rest
           /\ Joint(Asking(a), then, Tests!TakenFlag("tags", v, a), Tests!TakenFlag("run", w, a),
                    Tests!TakenFlag("tags", t, a), r)
<1>1. PICK v1, w1, t1 : /\ v1 = Tests!TakenFlag("tags", v, a) /\ w1 = Tests!TakenFlag("run", w, a)
                        /\ t1 = Tests!TakenFlag("tags", t, a)
  OBVIOUS
<1>2. ~ v.over /\ ~ w.over /\ ~ t.over /\ a.flag # Tests!End /\ t.wants = v.wants /\ t.named = v.named
  BY DEF Joint
<1>3. ~ w.wants /\ a.flag # "run"
  BY Texts DEF Joint, Tests!Word, Words
<1>4. ~ w1.over /\ ~ w1.wants /\ w1.named = w.named
  BY <1>1, <1>2, <1>3, ScanDoes DEF Looked
<1>5. PICK means : means = Tests!Means("tags", a)
  OBVIOUS
<1>6. /\ ~ v1.over
      /\ v.wants => ~ v1.wants /\ v1.named = Append(v.named, means)
      /\ ~ v.wants /\ a.joined => ~ v1.wants /\ v1.named = Append(v.named, means)
      /\ ~ v.wants /\ ~ a.joined => v1.wants /\ v1.named = v.named
  BY <1>1, <1>2, <1>5, ScanDoes DEF Looked
<1>7. /\ ~ t1.over /\ t1.rest = t.rest
      /\ t.wants => ~ t1.wants /\ t1.named = Append(t.named, means)
      /\ ~ t.wants /\ a.joined => ~ t1.wants /\ t1.named = Append(t.named, means)
      /\ ~ t.wants /\ ~ a.joined => t1.wants /\ t1.named = t.named
  BY <1>1, <1>2, <1>5, ScanDoes DEF Looked
<1>8. t1.wants = v1.wants /\ t1.named = v1.named /\ (v1.wants => Asking(a))
  <2>1. v1 \in Scans("tags") /\ t1 \in Scans("tags")
    BY <1>1, ScanType DEF Looked
  <2> QED BY <1>2, <1>6, <1>7, <2>1 DEF Asking, Scans
<1>9. then.wants = Tests!Empty /\ Without({Tests!End, "args", "packages"}, then.rest)
  <2>1. s.rest \in Seq(Tests!Argument)
    BY DEF RunStates
  <2>2. PICK flags : flags = {Tests!End, "args", "packages"}
    OBVIOUS
  <2>3. Without(flags, Append(s.rest, a)) <=> Without(flags, s.rest) /\ a.flag \notin flags
    BY <2>1, WithoutMore
  <2> QED BY <2>2, <2>3 DEF Kept, Joint
<1>10. then.wants # "driver"
  BY <1>9, Texts DEF Words
<1>11. ~ v1.over /\ ~ t1.over
  BY <1>6, <1>7
<1>12. t1.rest = t.rest
  BY <1>7
<1>13. Joint(Asking(a), then, v1, w1, t1, r)
  <2>1. /\ ~ r.over /\ r.wants = w1.wants /\ r.named = w1.named
        /\ Without({Tests!End, "args", "packages", "tags"}, t1.rest)
        /\ Without({Tests!End, "args", "packages", "tags", "run"}, r.rest)
        /\ Without({"run"}, t1.rest) => r.named = <<>> /\ ~ r.wants
    <3>1. w1 \in Scans("run")
      BY <1>1, ScanType DEF Looked
    <3>2. r.wants = w.wants /\ r.named = w.named
      BY DEF Joint
    <3>3. r.wants = w1.wants /\ r.named = w1.named
      BY <1>3, <1>4, <3>1, <3>2 DEF Scans
    <3> QED BY <1>12, <3>3 DEF Joint
  <2> QED BY <1>4, <1>8, <1>9, <1>10, <1>11, <2>1 DEF Joint
<1> QED BY <1>1, <1>12, <1>13

LEMMA JointKept ==
    ASSUME NEW asks, NEW s \in RunStates, NEW v \in Scans("tags"), NEW w \in Scans("run"), NEW t \in Scans("tags"),
           NEW r \in Scans("run"), Joint(asks, s, v, w, t, r),
           NEW a \in Tests!Argument, a.flag \notin {Tests!End, "args", "packages"},
           asks => Tests!Word(a), NEW then \in RunStates, ~ then.over, Kept(s, a, then),
           ~ v.wants, a.flag # "tags"
    PROVE  /\ Tests!TakenFlag("tags", t, a).rest = Append(t.rest, a)
           /\ Joint(Asking(a), then, Tests!TakenFlag("tags", v, a), Tests!TakenFlag("run", w, a),
                    Tests!TakenFlag("tags", t, a), Tests!TakenFlag("run", r, a))
<1>1. PICK v1, w1, t1, r1 : /\ v1 = Tests!TakenFlag("tags", v, a) /\ w1 = Tests!TakenFlag("run", w, a)
                            /\ t1 = Tests!TakenFlag("tags", t, a) /\ r1 = Tests!TakenFlag("run", r, a)
  OBVIOUS
<1>2. /\ ~ v.over /\ ~ w.over /\ ~ t.over /\ ~ r.over /\ a.flag # Tests!End /\ t.wants = v.wants /\ t.named = v.named
      /\ r.wants = w.wants /\ r.named = w.named /\ ~ t.wants
  BY DEF Joint
<1>3. ~ v1.over /\ ~ v1.wants /\ v1.named = v.named
  BY <1>1, <1>2, ScanDoes DEF Looked
<1>4. ~ t1.over /\ ~ t1.wants /\ t1.named = t.named /\ t1.rest = Append(t.rest, a)
  BY <1>1, <1>2, ScanDoes DEF Looked
<1>5. PICK means : means = Tests!Means("run", a)
  OBVIOUS
<1>6. /\ ~ w1.over
      /\ w.wants => ~ w1.wants /\ w1.named = Append(w.named, means)
      /\ ~ w.wants /\ a.flag # "run" => ~ w1.wants /\ w1.named = w.named
      /\ ~ w.wants /\ a.flag = "run" /\ a.joined => ~ w1.wants /\ w1.named = Append(w.named, means)
      /\ ~ w.wants /\ a.flag = "run" /\ ~ a.joined => w1.wants /\ w1.named = w.named
  BY <1>1, <1>2, <1>5, ScanDoes DEF Looked
<1>7. /\ ~ r1.over
      /\ r.wants => ~ r1.wants /\ r1.named = Append(r.named, means) /\ r1.rest = r.rest
      /\ ~ r.wants /\ a.flag # "run" => ~ r1.wants /\ r1.named = r.named /\ r1.rest = Append(r.rest, a)
      /\ ~ r.wants /\ a.flag = "run" /\ a.joined => ~ r1.wants /\ r1.named = Append(r.named, means) /\ r1.rest = r.rest
      /\ ~ r.wants /\ a.flag = "run" /\ ~ a.joined => r1.wants /\ r1.named = r.named /\ r1.rest = r.rest
  BY <1>1, <1>2, <1>5, ScanDoes DEF Looked
<1>8. r1.wants = w1.wants /\ r1.named = w1.named /\ (w1.wants => Asking(a))
  <2>1. w1 \in Scans("run") /\ r1 \in Scans("run")
    BY <1>1, ScanType DEF Looked
  <2> QED BY <1>2, <1>6, <1>7, <2>1 DEF Asking, Scans
<1>9. s.rest \in Seq(Tests!Argument) /\ t.rest \in Seq(Tests!Argument) /\ r.rest \in Seq(Tests!Argument)
  BY DEF RunStates, Scans
<1>10. then.wants = Tests!Empty /\ Without({Tests!End, "args", "packages"}, then.rest)
  BY <1>9, WithoutMore DEF Kept, Joint
<1>11. Without({Tests!End, "args", "packages", "tags"}, t1.rest)
  BY <1>4, <1>9, WithoutMore DEF Joint
<1>12. Without({Tests!End, "args", "packages", "tags", "run"}, r1.rest)
  <2>1. PICK flags, more : flags = {Tests!End, "args", "packages", "tags", "run"} /\ more = Append(r.rest, a)
    OBVIOUS
  <2>2. r1.rest = r.rest \/ (a.flag # "run" /\ r1.rest = more)
    BY <1>7, <2>1
  <2>3. a.flag # "run" => a.flag \notin flags
    BY <2>1
  <2>4. Without(flags, r.rest)
    BY <2>1 DEF Joint
  <2>5. Without(flags, more) <=> Without(flags, r.rest) /\ a.flag \notin flags
    BY <1>9, <2>1, WithoutMore
  <2>6. Without(flags, r1.rest)
    BY <2>2, <2>3, <2>4, <2>5
  <2> QED BY <2>1, <2>6
<1>13. Without({"run"}, t1.rest) => r1.named = <<>> /\ ~ r1.wants
  <2>1. Without({"run"}, t1.rest) <=> Without({"run"}, t.rest) /\ a.flag # "run"
    <3>1. PICK flags : flags = {"run"}
      OBVIOUS
    <3>2. Without(flags, Append(t.rest, a)) <=> Without(flags, t.rest) /\ a.flag \notin flags
      BY <1>9, WithoutMore
    <3> QED BY <1>4, <3>1, <3>2
  <2>2. Without({"run"}, t.rest) => r.named = <<>> /\ ~ r.wants
    BY DEF Joint
  <2> QED BY <1>7, <2>1, <2>2
<1>14. then.wants # "driver"
  BY <1>10, Texts DEF Words
<1>15. ~ w1.over /\ ~ r1.over
  BY <1>6, <1>7
<1>16. Joint(Asking(a), then, v1, w1, t1, r1)
  <2>1. t1.wants = v1.wants /\ t1.named = v1.named
    <3>1. v1 \in Scans("tags") /\ t1 \in Scans("tags")
      BY <1>1, ScanType DEF Looked
    <3> QED BY <1>2, <1>3, <1>4, <3>1 DEF Scans
  <2> QED BY <1>3, <1>4, <1>8, <1>10, <1>11, <1>12, <1>13, <1>14, <1>15, <2>1 DEF Joint
<1> QED BY <1>1, <1>4, <1>16

\* A line whose flags have values that are words, as far as it goes.
Asks(p) == p # <<>> /\ Asking(p[Len(p)])
Plain(p) ==
    /\ Without({Tests!End, "args", "packages"}, p)
    /\ \A i \in DOMAIN p : Asking(p[i]) /\ i < Len(p) => Tests!Word(p[i + 1])

LEMMA PlainMore ==
    ASSUME NEW p \in Seq(Tests!Argument), NEW a \in Tests!Argument, Plain(Append(p, a))
    PROVE  /\ Plain(p) /\ a.flag \notin {Tests!End, "args", "packages"} /\ (Asks(p) => Tests!Word(a))
           /\ Asks(Append(p, a)) = Asking(a)
<1>1. PICK n \in Nat : n = Len(p)
  OBVIOUS
<1>2. PICK more : more = Append(p, a)
  OBVIOUS
<1>3. /\ DOMAIN p = 1 .. n /\ DOMAIN more = 1 .. n + 1 /\ more[n + 1] = a /\ Len(more) = n + 1 /\ more # <<>>
      /\ \A k \in 1 .. n : more[k] = p[k]
  <2>1. /\ more \in Seq(Tests!Argument) /\ Len(more) = n + 1 /\ more[n + 1] = a /\ more # <<>>
        /\ \A k \in 1 .. n : more[k] = p[k]
    BY ONLY <1>1, <1>2, AppendProperties
  <2> QED BY <1>1, <2>1
<1>4. Without({Tests!End, "args", "packages"}, p) /\ a.flag \notin {Tests!End, "args", "packages"}
  <2>1. PICK flags : flags = {Tests!End, "args", "packages"}
    OBVIOUS
  <2>2. Without(flags, Append(p, a)) <=> Without(flags, p) /\ a.flag \notin flags
    BY WithoutMore
  <2> QED BY <2>1, <2>2 DEF Plain
<1>5. ASSUME NEW i \in 1 .. n + 1, Asking(more[i]), i < n + 1 PROVE Tests!Word(more[i + 1])
  BY <1>2, <1>3, <1>5 DEF Plain
<1>6. ASSUME NEW i \in 1 .. n, Asking(p[i]), i < n PROVE Tests!Word(p[i + 1])
  <2>1. i \in 1 .. n + 1 /\ i < n + 1 /\ i + 1 \in 1 .. n /\ more[i] = p[i] /\ more[i + 1] = p[i + 1]
    BY <1>3, <1>6
  <2> QED BY <1>5, <1>6, <2>1
<1>7. Plain(p)
  BY <1>1, <1>3, <1>4, <1>6 DEF Plain
<1>8. Asks(p) => Tests!Word(a)
  <2> SUFFICES ASSUME Asks(p) PROVE Tests!Word(a)
    OBVIOUS
  <2>1. n # 0
    BY <1>1, EmptySeq DEF Asks
  <2>2. n \in 1 .. n + 1 /\ n < n + 1 /\ n \in 1 .. n /\ more[n] = p[n]
    BY <1>1, <1>3, <2>1
  <2> QED BY <1>1, <1>3, <1>5, <2>2 DEF Asks
<1>9. Asks(more) = Asking(a)
  BY <1>3 DEF Asks, Asking
<1> QED BY <1>2, <1>4, <1>7, <1>8, <1>9

JointOf(p) ==
    Joint(Asks(p), Tests!Scanned(p), Tests!takeFlag("tags", p), Tests!takeFlag("run", p),
          Tests!takeFlag("tags", Tests!Scanned(p).rest),
          Tests!takeFlag("run", Tests!takeFlag("tags", Tests!Scanned(p).rest).rest))

LEMMA JointNothing == JointOf(<<>>)
<1>1. Tests!Scanned(<<>>) = Tests!Nothing
  BY ReadingNothing
<1>2. Tests!takeFlag("tags", <<>>) = Tests!Scan /\ Tests!takeFlag("run", <<>>) = Tests!Scan
  BY ScanNothing DEF Looked
<1>3. Tests!Nothing.rest = <<>> /\ ~ Tests!Nothing.over /\ Tests!Nothing.wants = Tests!Empty
  BY DEF Tests!Nothing
<1>4. Tests!Scan.rest = <<>> /\ ~ Tests!Scan.over /\ ~ Tests!Scan.wants /\ Tests!Scan.named = <<>>
  BY DEF Tests!Scan
<1>5. ASSUME NEW flags PROVE Without(flags, <<>>)
  BY DEF Without
<1>6. Tests!Empty # "driver"
  BY Texts DEF Words
<1>7. Joint(Asks(<<>>), Tests!Nothing, Tests!Scan, Tests!Scan, Tests!Scan, Tests!Scan)
  BY <1>3, <1>4, <1>5, <1>6 DEF Joint
<1> QED BY <1>1, <1>2, <1>3, <1>4, <1>7 DEF JointOf

LEMMA JointMore ==
    ASSUME NEW p \in Seq(Tests!Argument), NEW a \in Tests!Argument, Plain(Append(p, a)),
           ~ Tests!Scanned(p).wrong => JointOf(p), ~ Tests!Scanned(Append(p, a)).wrong
    PROVE  JointOf(Append(p, a))
<1>1. PICK s, v, w, more :
         /\ s = Tests!Scanned(p) /\ v = Tests!takeFlag("tags", p) /\ w = Tests!takeFlag("run", p) /\ more = Append(p, a)
  OBVIOUS
<1>2. s \in RunStates /\ v \in Scans("tags") /\ w \in Scans("run")
  BY <1>1, ScanOneMore, ReadingOneMore DEF Looked
<1>3. s.rest \in Seq(Tests!Argument)
  BY <1>2 DEF RunStates
<1>4. PICK t : t = Tests!takeFlag("tags", s.rest)
  OBVIOUS
<1>5. t \in Scans("tags") /\ t.rest \in Seq(Tests!Argument)
  <2>1. t \in Scans("tags")
    BY <1>3, <1>4, ScanOneMore DEF Looked
  <2> QED BY <2>1 DEF Scans
<1>6. PICK r : r = Tests!takeFlag("run", t.rest)
  OBVIOUS
<1>7. r \in Scans("run")
  BY <1>5, <1>6, ScanOneMore DEF Looked
<1>8. PICK asks : asks = Asks(p)
  OBVIOUS
<1>9. a.flag \notin {Tests!End, "args", "packages"} /\ (asks => Tests!Word(a)) /\ Asks(more) = Asking(a)
  BY <1>1, <1>8, PlainMore
<1>10. PICK then : then = Tests!Taken(s, a)
  OBVIOUS
<1>11. then = Tests!Scanned(more) /\ ~ then.wrong /\ then \in RunStates
  BY <1>1, <1>2, <1>10, ReadingOneMore, TakenType
<1>12. ~ s.wrong
  BY <1>10, <1>11 DEF Tests!Taken
<1>13. Joint(asks, s, v, w, t, r)
  BY <1>1, <1>4, <1>6, <1>8, <1>12 DEF JointOf
<1>14. ~ s.over /\ (s.wants = "driver" => Tests!Word(a))
  BY <1>9, <1>13 DEF Joint
<1>15. ~ then.over /\ (Kept(s, a, then) \/ Dropped(s, a, then))
  BY <1>2, <1>9, <1>10, <1>11, <1>14, TakenDoes
<1>16. Tests!takeFlag("tags", more) = Tests!TakenFlag("tags", v, a) /\ Tests!takeFlag("run", more) = Tests!TakenFlag("run", w, a)
  BY <1>1, ScanOneMore DEF Looked
<1>17. CASE Dropped(s, a, then)
  <2>1. Joint(Asking(a), then, Tests!TakenFlag("tags", v, a), Tests!TakenFlag("run", w, a), t, r)
    BY <1>2, <1>9, <1>11, <1>13, <1>15, <1>17, JointDropped
  <2>2. Tests!takeFlag("tags", then.rest) = t
    BY <1>4, <1>17 DEF Dropped
  <2>3. JointOf(more)
    BY <1>6, <1>9, <1>11, <1>16, <2>1, <2>2 DEF JointOf
  <2> QED BY <1>1, <2>3
<1>18. CASE Kept(s, a, then)
  <2>1. Tests!takeFlag("tags", then.rest) = Tests!TakenFlag("tags", t, a)
    BY <1>3, <1>4, <1>18, ScanOneMore DEF Looked, Kept
  <2>2. PICK t1 : t1 = Tests!TakenFlag("tags", t, a)
    OBVIOUS
  <2>3. CASE v.wants \/ a.flag = "tags"
    <3>1. t1.rest = t.rest /\ Joint(Asking(a), then, Tests!TakenFlag("tags", v, a), Tests!TakenFlag("run", w, a), t1, r)
      BY <1>2, <1>5, <1>7, <1>9, <1>11, <1>13, <1>15, <1>18, <2>2, <2>3, JointNamed
    <3>2. JointOf(more)
      BY <1>6, <1>9, <1>11, <1>16, <2>1, <2>2, <3>1 DEF JointOf
    <3> QED BY <1>1, <3>2
  <2>4. CASE ~ (v.wants \/ a.flag = "tags")
    <3>1. /\ t1.rest = Append(t.rest, a)
          /\ Joint(Asking(a), then, Tests!TakenFlag("tags", v, a), Tests!TakenFlag("run", w, a), t1,
                   Tests!TakenFlag("run", r, a))
      BY <1>2, <1>5, <1>7, <1>9, <1>11, <1>13, <1>15, <1>18, <2>2, <2>4, JointKept
    <3>2. Tests!takeFlag("run", t1.rest) = Tests!TakenFlag("run", r, a)
      BY <1>5, <1>6, <3>1, ScanOneMore DEF Looked
    <3>3. JointOf(more)
      BY <1>9, <1>11, <1>16, <2>1, <2>2, <3>1, <3>2 DEF JointOf
    <3> QED BY <1>1, <3>3
  <2> QED BY <2>3, <2>4
<1> QED BY <1>15, <1>17, <1>18

LEMMA LinesAgree ==
    ASSUME NEW line \in Seq(Tests!Argument), Plain(line), ~ Tests!Scanned(line).wrong
    PROVE  JointOf(line)
<1> DEFINE S == {p \in Seq(Tests!Argument) : Plain(p) /\ ~ Tests!Scanned(p).wrong => JointOf(p)}
<1>1. <<>> \in S
  BY JointNothing
<1>2. ASSUME NEW p \in Seq(Tests!Argument), NEW a \in Tests!Argument, p \in S PROVE Append(p, a) \in S
  <2>1. Append(p, a) \in Seq(Tests!Argument)
    OBVIOUS
  <2>2. ASSUME Plain(Append(p, a)), ~ Tests!Scanned(Append(p, a)).wrong PROVE JointOf(Append(p, a))
    <3>1. Plain(p)
      BY <2>2, PlainMore
    <3>2. ~ Tests!Scanned(p).wrong => JointOf(p)
      BY <1>2, <3>1
    <3> QED BY <2>2, <3>2, JointMore
  <2> QED BY <2>1, <2>2
<1>3. Seq(Tests!Argument) \subseteq S
  <2> HIDE DEF S
  <2> QED BY <1>1, <1>2, InductionOnSequences
<1> QED BY <1>3

(***************************************************************************)
(* Arguments put end to end are scanned one after the other, when the      *)
(* first do not leave a flag without its value.                            *)
(***************************************************************************)
LEMMA AppendToConcat ==
    ASSUME NEW S, NEW s \in Seq(S), NEW t \in Seq(S), NEW e \in S
    PROVE  Append(s, e) \in Seq(S) /\ s \o Append(t, e) = Append(s \o t, e)
<1>1. <<e>> \in Seq(S) /\ s \o t \in Seq(S) /\ Append(s, e) \in Seq(S)
  OBVIOUS
<1>2. Append(t, e) = t \o <<e>>
  BY AppendIsConcat
<1>3. Append(s \o t, e) = (s \o t) \o <<e>>
  BY <1>1, AppendIsConcat
<1>4. (s \o t) \o <<e>> = s \o (t \o <<e>>)
  BY <1>1, ConcatAssociative
<1> QED BY <1>1, <1>2, <1>3, <1>4

Joined(flag, A, B) ==
    LET a == Tests!takeFlag(flag, A)
        b == Tests!takeFlag(flag, B)
        both == Tests!takeFlag(flag, A \o B)
    IN ~ b.over /\ ~ both.over /\ both.wants = b.wants /\ both.named = a.named \o b.named /\ both.rest = a.rest \o b.rest

LEMMA JoinedMore ==
    ASSUME NEW flag \in Looked, NEW A \in Seq(Tests!Argument), NEW B \in Seq(Tests!Argument),
           NEW e \in Tests!Argument, e.flag # Tests!End, Joined(flag, A, B)
    PROVE  Joined(flag, A, Append(B, e))
<1>1. PICK a, b, both : /\ a = Tests!takeFlag(flag, A) /\ b = Tests!takeFlag(flag, B)
                        /\ both = Tests!takeFlag(flag, A \o B)
  OBVIOUS
<1>2. A \o B \in Seq(Tests!Argument) /\ A \o Append(B, e) = Append(A \o B, e)
  BY AppendToConcat
<1>3. a \in Scans(flag) /\ b \in Scans(flag) /\ both \in Scans(flag)
  BY <1>1, <1>2, ScanOneMore
<1>4. PICK b1, both1 : b1 = Tests!TakenFlag(flag, b, e) /\ both1 = Tests!TakenFlag(flag, both, e)
  OBVIOUS
<1>5. Tests!takeFlag(flag, Append(B, e)) = b1 /\ Tests!takeFlag(flag, A \o Append(B, e)) = both1
  BY <1>1, <1>2, <1>4, ScanOneMore
<1>6. ~ b.over /\ ~ both.over /\ both.wants = b.wants /\ both.named = a.named \o b.named /\ both.rest = a.rest \o b.rest
  BY <1>1 DEF Joined
<1>7. PICK means : means = Tests!Means(flag, e)
  OBVIOUS
<1>8. /\ ~ b1.over
      /\ b.wants => ~ b1.wants /\ b1.named = Append(b.named, means) /\ b1.rest = b.rest
      /\ ~ b.wants /\ e.flag # flag => ~ b1.wants /\ b1.named = b.named /\ b1.rest = Append(b.rest, e)
      /\ ~ b.wants /\ e.flag = flag /\ e.joined => ~ b1.wants /\ b1.rest = b.rest /\ b1.named = Append(b.named, means)
      /\ ~ b.wants /\ e.flag = flag /\ ~ e.joined => b1.wants /\ b1.named = b.named /\ b1.rest = b.rest
  BY <1>3, <1>4, <1>6, <1>7, ScanDoes
<1>9. /\ ~ both1.over
      /\ both.wants => ~ both1.wants /\ both1.named = Append(both.named, means) /\ both1.rest = both.rest
      /\ ~ both.wants /\ e.flag # flag => ~ both1.wants /\ both1.named = both.named /\ both1.rest = Append(both.rest, e)
      /\ ~ both.wants /\ e.flag = flag /\ e.joined =>
            ~ both1.wants /\ both1.rest = both.rest /\ both1.named = Append(both.named, means)
      /\ ~ both.wants /\ e.flag = flag /\ ~ e.joined => both1.wants /\ both1.named = both.named /\ both1.rest = both.rest
  <2>1. ~ both.over
    BY <1>6
  <2> QED BY <1>3, <1>4, <1>7, <2>1, ScanDoes
<1>10. Append(both.named, means) = a.named \o Append(b.named, means)
  <2>1. means \in Named(flag)
    BY <1>7 DEF Tests!Means, Named, Tests!Argument, Looked
  <2>2. a.named \in Seq(Named(flag)) /\ b.named \in Seq(Named(flag))
    BY <1>3 DEF Scans
  <2>3. a.named \o Append(b.named, means) = Append(a.named \o b.named, means)
    <3>1. PICK x \in Seq(Named(flag)), y \in Seq(Named(flag)) : x = a.named /\ y = b.named
      BY <2>2
    <3>2. x \o Append(y, means) = Append(x \o y, means)
      BY <2>1, AppendToConcat
    <3> QED BY <3>1, <3>2
  <2> QED BY <1>6, <2>3
<1>11. Append(both.rest, e) = a.rest \o Append(b.rest, e)
  <2>1. a.rest \in Seq(Tests!Argument) /\ b.rest \in Seq(Tests!Argument)
    BY <1>3 DEF Scans
  <2>2. a.rest \o Append(b.rest, e) = Append(a.rest \o b.rest, e)
    <3>1. PICK x \in Seq(Tests!Argument), y \in Seq(Tests!Argument) : x = a.rest /\ y = b.rest
      BY <2>1
    <3>2. x \o Append(y, e) = Append(x \o y, e)
      BY AppendToConcat
    <3> QED BY <3>1, <3>2
  <2> QED BY <1>6, <2>2
<1>12. b1 \in Scans(flag) /\ both1 \in Scans(flag)
  BY <1>3, <1>4, ScanType
<1>13. both1.wants = b1.wants /\ both1.named = a.named \o b1.named /\ both1.rest = a.rest \o b1.rest
  <2>1. PICK named, rest : named = Append(b.named, means) /\ rest = Append(b.rest, e)
    OBVIOUS
  <2>2. CASE b.wants
    <3>1. both1.rest = a.rest \o b1.rest
      BY <1>6, <1>8, <1>9, <2>2
    <3>2. both1.named = a.named \o b1.named
      BY <1>6, <1>8, <1>9, <1>10, <2>2
    <3> QED BY <1>6, <1>8, <1>9, <1>12, <2>2, <3>1, <3>2 DEF Scans
  <2>3. CASE ~ b.wants /\ e.flag # flag
    <3>1. both1.rest = a.rest \o b1.rest
      BY <1>6, <1>8, <1>9, <1>11, <2>3
    <3>2. both1.named = a.named \o b1.named
      BY <1>6, <1>8, <1>9, <2>3
    <3> QED BY <1>6, <1>8, <1>9, <1>12, <2>3, <3>1, <3>2 DEF Scans
  <2>4. CASE ~ b.wants /\ e.flag = flag /\ e.joined
    <3>1. both1.rest = a.rest \o b1.rest
      BY <1>6, <1>8, <1>9, <2>4
    <3>2. both1.named = a.named \o b1.named
      BY <1>6, <1>8, <1>9, <1>10, <2>4
    <3> QED BY <1>6, <1>8, <1>9, <1>12, <2>4, <3>1, <3>2 DEF Scans
  <2>5. CASE ~ b.wants /\ e.flag = flag /\ ~ e.joined
    <3>1. both1.rest = a.rest \o b1.rest
      BY <1>6, <1>8, <1>9, <2>5
    <3>2. both1.named = a.named \o b1.named
      BY <1>6, <1>8, <1>9, <2>5
    <3> QED BY <1>6, <1>8, <1>9, <1>12, <2>5, <3>1, <3>2 DEF Scans
  <2> QED BY <2>2, <2>3, <2>4, <2>5
<1>14. ~ b1.over /\ ~ both1.over
  BY <1>8, <1>9
<1> QED BY <1>1, <1>5, <1>13, <1>14 DEF Joined

LEMMA ScanOfBoth ==
    ASSUME NEW flag \in Looked, NEW A \in Seq(Tests!Argument), NEW B \in Seq(Tests!Argument),
           Without({Tests!End}, B), ~ Tests!takeFlag(flag, A).over, ~ Tests!takeFlag(flag, A).wants
    PROVE  Joined(flag, A, B)
<1> DEFINE S == {p \in Seq(Tests!Argument) : Without({Tests!End}, p) => Joined(flag, A, p)}
<1>1. <<>> \in S
  <2>1. Tests!takeFlag(flag, <<>>) = Tests!Scan
    BY ScanNothing
  <2>2. Tests!Scan.rest = <<>> /\ ~ Tests!Scan.over /\ ~ Tests!Scan.wants /\ Tests!Scan.named = <<>>
    BY DEF Tests!Scan
  <2>3. PICK a : a = Tests!takeFlag(flag, A)
    OBVIOUS
  <2>4. a \in Scans(flag)
    BY <2>3, ScanIs
  <2>5. A \o <<>> = A /\ a.named \o <<>> = a.named /\ a.rest \o <<>> = a.rest
    BY <2>4, ConcatEmptySeq DEF Scans
  <2>6. a.wants = Tests!Scan.wants
    BY <2>2, <2>3, <2>4, ScanType DEF Scans
  <2>7. Joined(flag, A, <<>>)
    BY <2>1, <2>2, <2>3, <2>5, <2>6 DEF Joined
  <2> QED BY <2>7
<1>2. ASSUME NEW p \in Seq(Tests!Argument), NEW e \in Tests!Argument, p \in S PROVE Append(p, e) \in S
  <2>1. Append(p, e) \in Seq(Tests!Argument)
    OBVIOUS
  <2>2. ASSUME Without({Tests!End}, Append(p, e)) PROVE Joined(flag, A, Append(p, e))
    <3>1. PICK flags : flags = {Tests!End}
      OBVIOUS
    <3>2. Without(flags, p) /\ e.flag \notin flags
      BY <2>2, <3>1, WithoutMore
    <3>3. Joined(flag, A, p)
      BY <1>2, <3>1, <3>2
    <3> QED BY <3>1, <3>2, <3>3, JoinedMore
  <2> QED BY <2>1, <2>2
<1>3. Seq(Tests!Argument) \subseteq S
  <2> HIDE DEF S
  <2> QED BY <1>1, <1>2, InductionOnSequences
<1> QED BY <1>3

\* Where the flag does not occur, nothing is taken.
LEMMA ScanOfNone ==
    ASSUME NEW flag \in Looked, NEW B \in Seq(Tests!Argument), Without({Tests!End, flag}, B)
    PROVE  LET b == Tests!takeFlag(flag, B) IN ~ b.over /\ ~ b.wants /\ b.named = <<>> /\ b.rest = B
<1> DEFINE None(p) == LET b == Tests!takeFlag(flag, p) IN ~ b.over /\ ~ b.wants /\ b.named = <<>> /\ b.rest = p
           S == {p \in Seq(Tests!Argument) : Without({Tests!End, flag}, p) => None(p)}
<1>1. <<>> \in S
  <2>1. Tests!takeFlag(flag, <<>>) = Tests!Scan
    BY ScanNothing
  <2>2. Tests!Scan.rest = <<>> /\ ~ Tests!Scan.over /\ ~ Tests!Scan.wants /\ Tests!Scan.named = <<>>
    BY DEF Tests!Scan
  <2> QED BY <2>1, <2>2
<1>2. ASSUME NEW p \in Seq(Tests!Argument), NEW e \in Tests!Argument, p \in S PROVE Append(p, e) \in S
  <2>1. Append(p, e) \in Seq(Tests!Argument)
    OBVIOUS
  <2>2. ASSUME Without({Tests!End, flag}, Append(p, e)) PROVE None(Append(p, e))
    <3>1. PICK flags : flags = {Tests!End, flag}
      OBVIOUS
    <3>2. Without(flags, p) /\ e.flag \notin flags
      BY <2>2, <3>1, WithoutMore
    <3>3. None(p)
      BY <1>2, <3>1, <3>2
    <3>4. PICK b, b1 : b = Tests!takeFlag(flag, p) /\ b1 = Tests!TakenFlag(flag, b, e)
      OBVIOUS
    <3>5. b \in Scans(flag) /\ Tests!takeFlag(flag, Append(p, e)) = b1
      BY <3>4, ScanOneMore
    <3>6. ~ b.over /\ ~ b.wants /\ b.named = <<>> /\ b.rest = p /\ e.flag # Tests!End /\ e.flag # flag
      BY <3>1, <3>2, <3>3, <3>4
    <3>7. ~ b1.over /\ ~ b1.wants /\ b1.named = b.named /\ b1.rest = Append(b.rest, e)
      BY <3>4, <3>5, <3>6, ScanDoes
    <3> QED BY <3>5, <3>6, <3>7
  <2> HIDE DEF None
  <2> QED BY <2>1, <2>2
<1>3. Seq(Tests!Argument) \subseteq S
  <2> HIDE DEF S
  <2> QED BY <1>1, <1>2, InductionOnSequences
<1> QED BY <1>3

LEMMA WithoutBoth ==
    ASSUME NEW flags, NEW A \in Seq(Tests!Argument), NEW B \in Seq(Tests!Argument)
    PROVE  Without(flags, A \o B) <=> Without(flags, A) /\ Without(flags, B)
<1>1. PICK m \in Nat, n \in Nat : m = Len(A) /\ n = Len(B)
  OBVIOUS
<1>2. PICK C : C = A \o B
  OBVIOUS
<1>3. /\ DOMAIN A = 1 .. m /\ DOMAIN B = 1 .. n /\ DOMAIN C = 1 .. m + n
      /\ \A i \in 1 .. m + n : C[i] = IF i <= m THEN A[i] ELSE B[i - m]
  <2>1. /\ C \in Seq(Tests!Argument) /\ Len(C) = m + n
        /\ \A i \in 1 .. m + n : C[i] = IF i <= m THEN A[i] ELSE B[i - m]
    BY ONLY <1>1, <1>2, ConcatProperties
  <2> QED BY <1>1, <2>1
<1>4. ASSUME Without(flags, C) PROVE Without(flags, A) /\ Without(flags, B)
  <2>1. ASSUME NEW i \in 1 .. m PROVE A[i].flag \notin flags
    <3>1. i \in 1 .. m + n /\ C[i] = A[i]
      BY <1>3
    <3> QED BY <1>3, <1>4, <3>1 DEF Without
  <2>2. ASSUME NEW i \in 1 .. n PROVE B[i].flag \notin flags
    <3>1. i + m \in 1 .. m + n /\ ~ (i + m <= m) /\ (i + m) - m = i
      OBVIOUS
    <3>2. C[i + m] = B[i]
      BY <1>3, <3>1
    <3> QED BY <1>3, <1>4, <3>1, <3>2 DEF Without
  <2> QED BY <1>3, <2>1, <2>2 DEF Without
<1>5. ASSUME Without(flags, A), Without(flags, B) PROVE Without(flags, C)
  <2>1. ASSUME NEW i \in 1 .. m + n PROVE C[i].flag \notin flags
    <3>1. CASE i <= m
      <4>1. i \in 1 .. m /\ C[i] = A[i]
        BY <1>3, <3>1
      <4> QED BY <1>3, <1>5, <4>1 DEF Without
    <3>2. CASE ~ (i <= m)
      <4>1. i - m \in 1 .. n /\ C[i] = B[i - m]
        BY <1>3, <3>2
      <4> QED BY <1>3, <1>5, <4>1 DEF Without
    <3> QED BY <3>1, <3>2
  <2> QED BY <1>3, <2>1 DEF Without
<1> QED BY <1>2, <1>4, <1>5

\* What aru puts on the line itself.
LEMMA OneArgument ==
    ASSUME NEW flag \in Looked, NEW x \in Tests!Argument, x.flag # Tests!End
    PROVE  /\ <<x>> \in Seq(Tests!Argument) /\ <<x>> = Append(<<>>, x)
           /\ \A flags : Without(flags, <<x>>) <=> x.flag \notin flags
           /\ x.flag # flag \/ x.joined =>
                 LET s == Tests!takeFlag(flag, <<x>>)
                 IN ~ s.over /\ ~ s.wants /\ s.named = (IF x.flag = flag THEN <<Tests!Means(flag, x)>> ELSE <<>>)
                    /\ s.rest = (IF x.flag = flag THEN <<>> ELSE <<x>>)
<1>1. <<x>> \in Seq(Tests!Argument) /\ <<x>> = Append(<<>>, x) /\ <<>> \in Seq(Tests!Argument)
  OBVIOUS
<1>2. \A flags : Without(flags, <<x>>) <=> x.flag \notin flags
  BY DEF Without
<1>3. Tests!takeFlag(flag, <<x>>) = Tests!TakenFlag(flag, Tests!Scan, x)
  BY <1>1, ScanNothing, ScanOneMore
<1>4. PICK s, z : s = Tests!takeFlag(flag, <<x>>) /\ z = Tests!Scan
  OBVIOUS
<1>5. z \in Scans(flag) /\ ~ z.over /\ ~ z.wants /\ z.named = <<>> /\ z.rest = <<>>
  BY <1>4, ScanType DEF Tests!Scan
<1>6. PICK means : means = Tests!Means(flag, x)
  OBVIOUS
<1>7. /\ ~ s.over
      /\ x.flag # flag => ~ s.wants /\ s.named = z.named /\ s.rest = Append(z.rest, x)
      /\ x.flag = flag /\ x.joined => ~ s.wants /\ s.rest = z.rest /\ s.named = Append(z.named, means)
  BY <1>3, <1>4, <1>5, <1>6, ScanDoes
<1>8. <<means>> = Append(<<>>, means)
  OBVIOUS
<1>9. CASE x.flag # flag
  BY <1>1, <1>2, <1>4, <1>5, <1>7, <1>9
<1>10. CASE x.flag = flag
  BY <1>1, <1>2, <1>4, <1>5, <1>6, <1>7, <1>8, <1>10
<1> QED BY <1>9, <1>10

LEMMA PutOnTheLine ==
    /\ \A tags \in SUBSET STRING : \E x \in Tests!Argument :
          Tests!TagsFlag(tags) = <<x>> /\ x.flag = "tags" /\ x.joined /\ x.tags = tags
    /\ \A tests \in SUBSET Suite : \E x \in Tests!Argument :
          Tests!RunFlag(tests) = <<x>> /\ x.flag = "run" /\ x.joined /\ x.run = Tests!Exactly(tests)
    /\ \A pkgs \in SUBSET Nat : \E x \in Tests!Argument :
          Tests!PackagesFlag(pkgs) = <<x>> /\ x.flag = "packages" /\ x.packages = pkgs
<1>1. Tests!NoArgument \in Tests!Argument
  BY StringsAssumption DEF Tests!NoArgument, Tests!Argument, Tests!Exactly, Tests!Pattern
<1>2. ASSUME NEW tags \in SUBSET STRING PROVE \E x \in Tests!Argument :
          Tests!TagsFlag(tags) = <<x>> /\ x.flag = "tags" /\ x.joined /\ x.tags = tags
  <2>1. PICK x : x = [Tests!NoArgument EXCEPT !.flag = "tags", !.joined = TRUE, !.tags = tags]
    OBVIOUS
  <2>2. x \in Tests!Argument /\ x.flag = "tags" /\ x.joined /\ x.tags = tags
    BY <1>1, <2>1, StringsAssumption DEF Tests!Argument
  <2> QED BY <2>1, <2>2 DEF Tests!TagsFlag
<1>3. ASSUME NEW tests \in SUBSET Suite PROVE \E x \in Tests!Argument :
          Tests!RunFlag(tests) = <<x>> /\ x.flag = "run" /\ x.joined /\ x.run = Tests!Exactly(tests)
  <2>1. PICK x : x = [Tests!NoArgument EXCEPT !.flag = "run", !.joined = TRUE, !.run = Tests!Exactly(tests)]
    OBVIOUS
  <2>2. x \in Tests!Argument /\ x.flag = "run" /\ x.joined /\ x.run = Tests!Exactly(tests)
    BY <1>1, <2>1, StringsAssumption DEF Tests!Argument, Tests!Exactly, Tests!Pattern
  <2> QED BY <2>1, <2>2 DEF Tests!RunFlag
<1>4. ASSUME NEW pkgs \in SUBSET Nat PROVE \E x \in Tests!Argument :
          Tests!PackagesFlag(pkgs) = <<x>> /\ x.flag = "packages" /\ x.packages = pkgs
  <2>1. PICK x : x = [Tests!NoArgument EXCEPT !.flag = "packages", !.joined = TRUE, !.packages = pkgs]
    OBVIOUS
  <2>2. x \in Tests!Argument /\ x.flag = "packages" /\ x.packages = pkgs
    BY <1>1, <2>1, StringsAssumption DEF Tests!Argument
  <2> QED BY <2>1, <2>2 DEF Tests!PackagesFlag
<1> QED BY <1>2, <1>3, <1>4

(***************************************************************************)
(* The tests of a call of go test that aru makes: the tags come first, the *)
(* packages last, and of what is between the last -run counts.             *)
(***************************************************************************)
TagsFirst(tags) == IF tags = {} THEN <<>> ELSE Tests!TagsFlag(tags)

LEMMA TagsAreFirst ==
    ASSUME NEW tags \in SUBSET STRING
    PROVE  LET g == TagsFirst(tags)
               t == Tests!takeFlag("tags", g)
               r == Tests!takeFlag("run", g)
           IN /\ g \in Seq(Tests!Argument) /\ Without({Tests!End, "args", "packages", "run"}, g)
              /\ ~ t.over /\ ~ t.wants /\ t.named = (IF tags = {} THEN <<>> ELSE <<tags>>)
              /\ ~ r.over /\ ~ r.wants /\ r.named = <<>>
<1>1. CASE tags = {}
  <2>1. TagsFirst(tags) = <<>>
    BY <1>1 DEF TagsFirst
  <2>2. Tests!takeFlag("tags", <<>>) = Tests!Scan /\ Tests!takeFlag("run", <<>>) = Tests!Scan
    BY ScanNothing DEF Looked
  <2>3. ~ Tests!Scan.over /\ ~ Tests!Scan.wants /\ Tests!Scan.named = <<>>
    BY DEF Tests!Scan
  <2>4. <<>> \in Seq(Tests!Argument) /\ Without({Tests!End, "args", "packages", "run"}, <<>>)
    BY DEF Without
  <2> QED BY <1>1, <2>1, <2>2, <2>3, <2>4
<1>2. CASE tags # {}
  <2>1. PICK x \in Tests!Argument : Tests!TagsFlag(tags) = <<x>> /\ x.flag = "tags" /\ x.joined /\ x.tags = tags
    BY PutOnTheLine
  <2>2. TagsFirst(tags) = <<x>>
    BY <1>2, <2>1 DEF TagsFirst
  <2>3. x.flag # Tests!End /\ x.flag \notin {Tests!End, "args", "packages", "run"}
    BY <2>1, Texts DEF Words
  <2>4. PICK t, r : t = Tests!takeFlag("tags", <<x>>) /\ r = Tests!takeFlag("run", <<x>>)
    OBVIOUS
  <2>5. ~ t.over /\ ~ t.wants /\ t.named = <<Tests!Means("tags", x)>>
    BY <2>1, <2>3, <2>4, OneArgument DEF Looked
  <2>6. ~ r.over /\ ~ r.wants /\ r.named = <<>>
    BY <2>1, <2>3, <2>4, OneArgument DEF Looked
  <2>7. Tests!Means("tags", x) = tags
    BY <2>1 DEF Tests!Means
  <2>8. <<x>> \in Seq(Tests!Argument) /\ Without({Tests!End, "args", "packages", "run"}, <<x>>)
    BY <2>3, OneArgument DEF Looked
  <2> QED BY <1>2, <2>2, <2>4, <2>5, <2>6, <2>7, <2>8
<1> QED BY <1>1, <1>2

\* Without some flags is without any of them.
LEMMA WithoutLess ==
    ASSUME NEW flags, NEW fewer, fewer \subseteq flags, NEW args, Without(flags, args)
    PROVE  Without(fewer, args)
BY DEF Without

Chosen(matches, pkgs, tags) == {t \in matches : t.pkg \in pkgs /\ (t.pkg = E2E => "e2e" \in tags)}

\* What is taken for a -run is a pattern.
LEMMA PatternsOfTests ==
    ASSUME NEW args \in Seq(Tests!Argument)
    PROVE  Tests!takeRun(args).pattern \in Tests!Pattern
<1>1. PICK s : s = Tests!takeFlag("run", args)
  OBVIOUS
<1>2. s.named \in Seq(Tests!Pattern)
  BY <1>1, ScanIs DEF Looked, Scans, Named
<1>3. s.named # <<>> => Tests!Last(s.named) \in Tests!Pattern
  <2> SUFFICES ASSUME s.named # <<>> PROVE Tests!Last(s.named) \in Tests!Pattern
    OBVIOUS
  <2>1. PICK n \in Nat : n = Len(s.named)
    BY <1>2
  <2>2. n # 0
    BY <1>2, <2>1, EmptySeq
  <2>3. n \in 1 .. n
    BY <2>2
  <2>4. s.named[n] \in Tests!Pattern
    BY <1>2, <2>1, <2>3, ElementOfSeq
  <2> QED BY <2>1, <2>4 DEF Tests!Last
<1>4. Tests!Exactly(Suite) \in Tests!Pattern
  BY DEF Tests!Exactly, Tests!Pattern
<1> QED BY <1>1, <1>3, <1>4 DEF Tests!takeRun

LEMMA TestsOf ==
    ASSUME NEW tags \in SUBSET STRING, NEW rest \in Seq(Tests!Argument), NEW pkgs \in SUBSET Nat,
           Without({Tests!End, "args", "packages", "tags"}, rest), ~ Tests!takeFlag("run", rest).wants
    PROVE  /\ Tests!Tests(TagsFirst(tags) \o rest \o Tests!PackagesFlag(pkgs)) =
                 Chosen(Tests!takeRun(rest).pattern.selects, pkgs, tags)
           /\ Tests!Compiled(TagsFirst(tags) \o rest \o Tests!PackagesFlag(pkgs)) = Chosen(Suite, pkgs, tags)
<1>1. PICK g : g = TagsFirst(tags)
  OBVIOUS
<1>2. PICK gt, gr : gt = Tests!takeFlag("tags", g) /\ gr = Tests!takeFlag("run", g)
  OBVIOUS
<1>3. /\ g \in Seq(Tests!Argument) /\ Without({Tests!End, "args", "packages", "run"}, g)
      /\ ~ gt.over /\ ~ gt.wants /\ gt.named = (IF tags = {} THEN <<>> ELSE <<tags>>)
      /\ ~ gr.over /\ ~ gr.wants /\ gr.named = <<>>
  BY <1>1, <1>2, TagsAreFirst
<1>4. PICK x \in Tests!Argument : Tests!PackagesFlag(pkgs) = <<x>> /\ x.flag = "packages" /\ x.packages = pkgs
  BY PutOnTheLine
<1>5. x.flag # Tests!End /\ x.flag # "tags" /\ x.flag # "run"
  BY <1>4, Texts DEF Words
<1>6. PICK xt, xr : xt = Tests!takeFlag("tags", <<x>>) /\ xr = Tests!takeFlag("run", <<x>>)
  OBVIOUS
<1>7. xt.named = <<>> /\ ~ xr.wants /\ xr.named = <<>> /\ <<x>> \in Seq(Tests!Argument) /\ Without({Tests!End}, <<x>>)
  <2>1. xt.named = <<>>
    BY <1>5, <1>6, OneArgument DEF Looked
  <2>2. ~ xr.wants /\ xr.named = <<>>
    BY <1>5, <1>6, OneArgument DEF Looked
  <2>3. <<x>> \in Seq(Tests!Argument) /\ Without({Tests!End}, <<x>>)
    BY <1>5, OneArgument DEF Looked
  <2> QED BY <2>1, <2>2, <2>3
<1>8. Without({Tests!End}, rest) /\ Without({Tests!End, "tags"}, rest) /\ Without({"packages"}, rest)
  BY WithoutLess
<1>9. PICK rt, rr : rt = Tests!takeFlag("tags", rest) /\ rr = Tests!takeFlag("run", rest)
  OBVIOUS
<1>10. ~ rt.over /\ ~ rt.wants /\ rt.named = <<>>
  BY <1>8, <1>9, ScanOfNone DEF Looked
<1>11. PICK both, bt, br : both = g \o rest /\ bt = Tests!takeFlag("tags", both) /\ br = Tests!takeFlag("run", both)
  OBVIOUS
<1>12. both \in Seq(Tests!Argument)
  BY <1>3, <1>11
<1>13. ~ bt.over /\ ~ bt.wants /\ bt.named = gt.named
  <2>1. Joined("tags", g, rest)
    BY <1>2, <1>3, <1>8, ScanOfBoth DEF Looked
  <2>2. ~ bt.over /\ bt.wants = rt.wants /\ bt.named = gt.named \o rt.named
    BY <1>2, <1>9, <1>11, <2>1 DEF Joined
  <2>3. gt.named \in Seq(Named("tags"))
    BY <1>2, <1>3, ScanIs DEF Looked, Scans
  <2>4. gt.named \o <<>> = gt.named
    BY <2>3, ConcatEmptySeq
  <2> QED BY <1>10, <2>2, <2>4
<1>14. ~ br.over /\ ~ br.wants /\ br.named = rr.named
  <2>1. Joined("run", g, rest)
    BY <1>2, <1>3, <1>8, ScanOfBoth DEF Looked
  <2>2. ~ br.over /\ br.wants = rr.wants /\ br.named = gr.named \o rr.named
    BY <1>2, <1>9, <1>11, <2>1 DEF Joined
  <2>3. rr.named \in Seq(Named("run"))
    BY <1>9, ScanIs DEF Looked, Scans
  <2>4. <<>> \o rr.named = rr.named
    BY <2>3, ConcatEmptySeq
  <2> QED BY <1>3, <1>9, <2>2, <2>4
<1>15. PICK args, at_, ar : args = both \o <<x>> /\ at_ = Tests!takeFlag("tags", args) /\ ar = Tests!takeFlag("run", args)
  OBVIOUS
<1>16. at_.named = gt.named
  <2>1. Joined("tags", both, <<x>>)
    BY <1>7, <1>11, <1>12, <1>13, ScanOfBoth DEF Looked
  <2>2. at_.named = bt.named \o xt.named
    BY <1>6, <1>11, <1>15, <2>1 DEF Joined
  <2>3. bt.named \in Seq(Named("tags"))
    BY <1>11, <1>12, ScanIs DEF Looked, Scans
  <2>4. bt.named \o <<>> = bt.named
    BY <2>3, ConcatEmptySeq
  <2> QED BY <1>7, <1>13, <2>2, <2>4
<1>17. ~ ar.wants /\ ar.named = rr.named
  <2>1. Joined("run", both, <<x>>)
    BY <1>7, <1>11, <1>12, <1>14, ScanOfBoth DEF Looked
  <2>2. ar.wants = xr.wants /\ ar.named = br.named \o xr.named
    BY <1>6, <1>11, <1>15, <2>1 DEF Joined
  <2>3. br.named \in Seq(Named("run"))
    BY <1>11, <1>12, ScanIs DEF Looked, Scans
  <2>4. br.named \o <<>> = br.named
    BY <2>3, ConcatEmptySeq
  <2> QED BY <1>7, <1>14, <2>2, <2>4
<1>18. Tests!takeRun(args).pattern = Tests!takeRun(rest).pattern
  BY <1>9, <1>15, <1>17 DEF Tests!takeRun
<1>19. /\ Without({Tests!End, "args"}, args) /\ Without({"packages"}, both)
       /\ args = Append(both, x)
  <2>1. Without({Tests!End, "args"}, g) /\ Without({"packages"}, g) /\ Without({Tests!End, "args"}, rest)
    BY <1>3, WithoutLess
  <2>2. Without({Tests!End, "args"}, both) /\ Without({"packages"}, both)
    BY <1>3, <1>8, <1>11, <2>1, WithoutBoth
  <2>3. Without({Tests!End, "args"}, <<x>>)
    BY <1>4, <1>5, Texts, OneArgument DEF Looked, Words
  <2>4. Without({Tests!End, "args"}, args)
    BY <1>7, <1>12, <1>15, <2>2, <2>3, WithoutBoth
  <2>5. args = Append(both, x)
    BY <1>12, <1>15, AppendIsConcat
  <2> QED BY <2>2, <2>4, <2>5
<1>20. ~ Tests!Terminated(args) /\ Tests!Heard(args) = args
  BY <1>19 DEF Without, Tests!Terminated, Tests!Heard
<1>21. {a \in Tests!ToSet(args) : a.flag = "packages"} = {x}
  <2>1. PICK n \in Nat : n = Len(both)
    BY <1>12
  <2>2. /\ DOMAIN both = 1 .. n /\ DOMAIN args = 1 .. n + 1 /\ args[n + 1] = x
        /\ \A k \in 1 .. n : args[k] = both[k]
    <3>1. /\ args \in Seq(Tests!Argument) /\ Len(args) = n + 1 /\ args[n + 1] = x
          /\ \A k \in 1 .. n : args[k] = both[k]
      BY <1>12, <1>19, <2>1, AppendProperties
    <3> QED BY <1>12, <2>1, <3>1
  <2>3. \A k \in 1 .. n : args[k].flag # "packages"
    BY <1>19, <2>2 DEF Without
  <2>4. \A k \in 1 .. n + 1 : k \in 1 .. n \/ k = n + 1
    OBVIOUS
  <2>5. n + 1 \in 1 .. n + 1
    OBVIOUS
  <2>6. Tests!ToSet(args) = {args[i] : i \in 1 .. n + 1}
    BY <2>2 DEF Tests!ToSet
  <2> QED BY <1>4, <2>2, <2>3, <2>4, <2>5, <2>6
<1>22. UNION {a.packages : a \in {x}} = pkgs
  BY <1>4
<1>23. Tests!Compiled(args) = {t \in Suite : t.pkg \in pkgs /\ (t.pkg = E2E => gt.named # <<>> /\ "e2e" \in Tests!Last(gt.named))}
  BY <1>15, <1>16, <1>20, <1>21, <1>22 DEF Tests!Compiled
<1>24. (gt.named # <<>> /\ "e2e" \in Tests!Last(gt.named)) <=> "e2e" \in tags
  BY <1>3 DEF Tests!Last
<1>25. Tests!Compiled(args) = Chosen(Suite, pkgs, tags)
  BY <1>23, <1>24 DEF Chosen
<1>26. PICK selects : selects = Tests!takeRun(rest).pattern.selects
  OBVIOUS
<1>27. selects \subseteq Suite
  BY <1>26, PatternsOfTests DEF Tests!Pattern
<1>28. Tests!Tests(args) = Chosen(selects, pkgs, tags)
  <2>1. Tests!Tests(args) = Chosen(Suite, pkgs, tags) \cap selects
    BY <1>18, <1>20, <1>25, <1>26 DEF Tests!Tests
  <2> QED BY <1>27, <2>1 DEF Chosen
<1> QED BY <1>1, <1>4, <1>11, <1>15, <1>25, <1>26, <1>28

\* -run put at the end decides, and the rest is what was left without one.
LEMMA RunIsLast ==
    ASSUME NEW rest \in Seq(Tests!Argument), NEW tests \in SUBSET Suite,
           ~ Tests!takeFlag("run", rest).over, ~ Tests!takeFlag("run", rest).wants
    PROVE  LET given == rest \o Tests!RunFlag(tests)
           IN /\ given \in Seq(Tests!Argument)
              /\ ~ Tests!takeFlag("run", given).over /\ ~ Tests!takeFlag("run", given).wants
              /\ Tests!takeRun(given).pattern = Tests!Exactly(tests) /\ Tests!takeRun(given).rest = Tests!takeRun(rest).rest
              /\ Without({Tests!End, "args", "packages", "tags"}, rest) => Without({Tests!End, "args", "packages", "tags"}, given)
<1>0. PICK exact \in Tests!Pattern : exact = Tests!Exactly(tests)
  BY DEF Tests!Exactly, Tests!Pattern
<1>1. PICK x \in Tests!Argument : Tests!RunFlag(tests) = <<x>> /\ x.flag = "run" /\ x.joined /\ x.run = exact
  BY <1>0, PutOnTheLine
<1>2. x.flag # Tests!End /\ x.flag \notin {Tests!End, "args", "packages", "tags"} /\ x.flag \notin {Tests!End}
  BY <1>1, Texts DEF Words
<1>3. PICK given, s, r, b : /\ given = rest \o <<x>> /\ s = Tests!takeFlag("run", <<x>>)
                          /\ r = Tests!takeFlag("run", rest) /\ b = Tests!takeFlag("run", given)
  OBVIOUS
<1>4. <<x>> \in Seq(Tests!Argument) /\ Without({Tests!End}, <<x>>) /\ Without({Tests!End, "args", "packages", "tags"}, <<x>>)
  BY <1>2, OneArgument DEF Looked
<1>5. ~ s.over /\ ~ s.wants /\ s.named = <<Tests!Means("run", x)>> /\ s.rest = <<>>
  BY <1>1, <1>2, <1>3, OneArgument DEF Looked
<1>6. Tests!Means("run", x) = exact
  BY <1>1 DEF Tests!Means
<1>7. given \in Seq(Tests!Argument)
  BY <1>3, <1>4
<1>8. Joined("run", rest, <<x>>)
  BY <1>4, ScanOfBoth DEF Looked
<1>9. ~ b.over /\ b.wants = s.wants /\ b.named = r.named \o <<exact>> /\ b.rest = r.rest \o <<>>
  BY <1>3, <1>5, <1>6, <1>8 DEF Joined
<1>10. r \in Scans("run") /\ r.named \in Seq(Named("run")) /\ r.rest \in Seq(Tests!Argument)
  BY <1>3, ScanIs DEF Looked, Scans
<1>11. b.rest = r.rest
  BY <1>9, <1>10, ConcatEmptySeq
<1>12. b.named # <<>> /\ Tests!Last(b.named) = exact
  <2>1. PICK named \in Seq(Named("run")) : named = r.named
    BY <1>10
  <2>2. exact \in Named("run")
    BY DEF Named
  <2>3. named \o <<exact>> = Append(named, exact)
    BY <2>2, AppendIsConcat
  <2>4. PICK more, n : more = Append(named, exact) /\ n = Len(named)
    OBVIOUS
  <2>5. n \in Nat /\ more # <<>> /\ Len(more) = n + 1 /\ more[n + 1] = exact
    BY ONLY <2>1, <2>2, <2>4, AppendProperties
  <2> QED BY <1>9, <2>1, <2>3, <2>4, <2>5 DEF Tests!Last
<1>13. Tests!takeRun(given).pattern = exact /\ Tests!takeRun(given).rest = Tests!takeRun(rest).rest
  BY <1>3, <1>5, <1>9, <1>11, <1>12 DEF Tests!takeRun
<1>14. Without({Tests!End, "args", "packages", "tags"}, rest) => Without({Tests!End, "args", "packages", "tags"}, given)
  BY <1>3, <1>4, WithoutBoth
<1> QED BY <1>0, <1>1, <1>3, <1>5, <1>7, <1>9, <1>13, <1>14

(***************************************************************************)
(* A line that is carried out.                                             *)
(***************************************************************************)
Meant ==
    /\ typed \in Lines /\ ~ Tests!Terminated(typed) /\ Tests!Complete(typed) /\ ~ Tests!Refused /\ ~ Tests!Run.list
    /\ Tests!Run.sharded => ~ Tests!NamesSubtests(typed)

LEMMA MeantIsPlain ==
    ASSUME Meant
    PROVE  /\ typed \in Seq(Tests!Argument) /\ Plain(typed) /\ ~ Asks(typed)
           /\ ~ Tests!Scanned(typed).wrong /\ Tests!Scanned(typed) \in RunStates
           /\ Tests!Run.rest = Tests!Scanned(typed).rest
<1>1. typed \in Seq(Tests!Argument) /\ \A i \in DOMAIN typed : typed[i].flag # "packages"
  BY LinesAssumption DEF Meant
<1>2. Without({Tests!End, "args", "packages"}, typed)
  BY <1>1 DEF Meant, Tests!Terminated, Without
<1>3. \A i \in DOMAIN typed : Asking(typed[i]) => i < Len(typed) /\ Tests!Word(typed[i + 1])
  BY DEF Meant, Tests!Complete, Asking
<1>4. Plain(typed)
  BY <1>2, <1>3 DEF Plain
<1>5. ~ Asks(typed)
  <2> SUFFICES ASSUME Asks(typed) PROVE FALSE
    OBVIOUS
  <2>1. PICK n \in Nat : n = Len(typed)
    BY <1>1
  <2>2. n # 0 /\ DOMAIN typed = 1 .. n
    BY <1>1, <2>1, EmptySeq DEF Asks
  <2>3. n \in DOMAIN typed /\ Asking(typed[n]) /\ ~ (n < n)
    BY <2>1, <2>2 DEF Asks
  <2> QED BY <1>3, <2>1, <2>3
<1>6. PICK s : s = Tests!Scanned(typed)
  OBVIOUS
<1>7. s \in RunStates
  BY <1>1, <1>6, ReadingIs
<1>8. PICK run : run = Tests!Finished(s)
  OBVIOUS
<1>9. Tests!Run = run /\ ~ run.wrong
  <2>1. Tests!Run = IF run.list THEN Tests!WithoutJSON(run) ELSE run
    BY <1>6, <1>8 DEF Tests!Run, Tests!parseTestArgs
  <2>2. ~ run.list
    BY <2>1 DEF Meant, Tests!WithoutJSON
  <2> QED BY <2>1, <2>2 DEF Meant, Tests!Refused
<1>10. ~ s.wrong /\ run.rest = s.rest
  BY <1>7, <1>8, <1>9 DEF Tests!Finished, Tests!Bare, RunStates
<1> QED BY <1>1, <1>4, <1>5, <1>6, <1>7, <1>9, <1>10

\* Of what is left for go test, the tags are those of the line, and so is the -run.
LEMMA WhatIsLeft ==
    ASSUME Meant, NEW rest, rest = Tests!Tagged.rest
    PROVE  /\ rest \in Seq(Tests!Argument) /\ Without({Tests!End, "args", "packages", "tags"}, rest)
           /\ ~ Tests!takeFlag("run", rest).over /\ ~ Tests!takeFlag("run", rest).wants
           /\ Without({Tests!End, "args", "packages", "tags", "run"}, Tests!takeRun(rest).rest)
           /\ Tests!takeRun(rest).pattern = Tests!takeRun(typed).pattern
           /\ Tests!Tagged.tags = Tests!takeTags(typed).tags
           /\ Without({"run"}, rest) => Tests!takeRun(typed).pattern = Tests!Exactly(Suite)
<1>1. PICK s, v, w : s = Tests!Scanned(typed) /\ v = Tests!takeFlag("tags", typed) /\ w = Tests!takeFlag("run", typed)
  OBVIOUS
<1>2. PICK t : t = Tests!takeFlag("tags", s.rest)
  OBVIOUS
<1>3. /\ typed \in Seq(Tests!Argument) /\ Plain(typed) /\ ~ Asks(typed) /\ ~ s.wrong /\ s \in RunStates
      /\ Tests!Run.rest = s.rest
  BY <1>1, MeantIsPlain
<1>4. JointOf(typed)
  BY <1>1, <1>3, LinesAgree
<1>5. s.rest \in Seq(Tests!Argument)
  BY <1>3 DEF RunStates
<1>6. t \in Scans("tags") /\ t.rest \in Seq(Tests!Argument)
  <2>1. t \in Scans("tags")
    BY <1>2, <1>5, ScanIs DEF Looked
  <2> QED BY <2>1 DEF Scans
<1>7. rest = t.rest /\ Tests!Tagged.tags = UNION Tests!ToSet(t.named)
  BY <1>2, <1>3 DEF Tests!Tagged, Tests!takeTags
<1>8. PICK r : r = Tests!takeFlag("run", rest)
  OBVIOUS
<1>9. Joint(Asks(typed), s, v, w, t, r)
  BY <1>1, <1>2, <1>4, <1>7, <1>8 DEF JointOf
<1>10. /\ ~ v.wants /\ ~ w.wants /\ ~ r.over /\ r.wants = w.wants /\ r.named = w.named /\ t.named = v.named
       /\ Without({Tests!End, "args", "packages", "tags"}, t.rest) /\ Without({Tests!End, "args", "packages", "tags", "run"}, r.rest)
       /\ Without({"run"}, t.rest) => r.named = <<>> /\ ~ r.wants
  BY <1>3, <1>9 DEF Joint
<1>11. Tests!takeRun(rest).pattern = Tests!takeRun(typed).pattern /\ Tests!takeRun(rest).rest = r.rest
  BY <1>1, <1>8, <1>10 DEF Tests!takeRun
<1>12. Tests!Tagged.tags = Tests!takeTags(typed).tags
  BY <1>1, <1>7, <1>10 DEF Tests!takeTags
<1>13. Without({"run"}, rest) => Tests!takeRun(typed).pattern = Tests!Exactly(Suite)
  BY <1>1, <1>7, <1>8, <1>10 DEF Tests!takeRun
<1> QED BY <1>6, <1>7, <1>8, <1>10, <1>11, <1>12, <1>13

Asked == IF Tests!Run.smoke THEN Tests!Smoke ELSE Tests!takeRun(typed).pattern.selects
AllTags == Tests!Tagged.tags \cup (IF Tests!Run.e2e THEN {"e2e"} ELSE {})
AllPackages == IF Tests!Run.e2e THEN {E2E} ELSE {t.pkg : t \in Suite} \cup {Root}

LEMMA WhatIsRun ==
    ASSUME Meant, NEW rest, rest = Tests!RestArgs
    PROVE  /\ rest \in Seq(Tests!Argument) /\ Without({Tests!End, "args", "packages", "tags"}, rest)
           /\ ~ Tests!takeFlag("run", rest).over /\ ~ Tests!takeFlag("run", rest).wants
           /\ Tests!takeRun(rest).pattern.selects = Asked /\ Asked \subseteq Suite
           /\ Tests!Run.sharded => Tests!takeRun(rest).pattern.lists = Asked
           /\ Without({Tests!End, "args", "packages", "tags", "run"}, Tests!takeRun(rest).rest)
           /\ Tests!Run.smoke => Tests!takeRun(typed).pattern = Tests!Exactly(Suite)
<1>1. PICK left : left = Tests!Tagged.rest
  OBVIOUS
<1>2. /\ left \in Seq(Tests!Argument) /\ Without({Tests!End, "args", "packages", "tags"}, left)
      /\ ~ Tests!takeFlag("run", left).over /\ ~ Tests!takeFlag("run", left).wants
      /\ Without({Tests!End, "args", "packages", "tags", "run"}, Tests!takeRun(left).rest)
      /\ Tests!takeRun(left).pattern = Tests!takeRun(typed).pattern
      /\ Without({"run"}, left) => Tests!takeRun(typed).pattern = Tests!Exactly(Suite)
  BY <1>1, WhatIsLeft
<1>3. CASE ~ Tests!Run.smoke
  <2>1. rest = left
    <3>1. left \o <<>> = left
      BY <1>2, ConcatEmptySeq
    <3> QED BY <1>1, <1>3, <3>1 DEF Tests!RestArgs
  <2>2. Asked = Tests!takeRun(typed).pattern.selects
    BY <1>3 DEF Asked
  <2>3. Asked \subseteq Suite
    BY <1>2, <2>2, PatternsOfTests DEF Tests!Pattern
  <2>4. Tests!Run.sharded => Tests!takeRun(typed).pattern.lists = Asked
    BY <2>2 DEF Meant, Tests!NamesSubtests
  <2> QED BY <1>2, <1>3, <2>1, <2>2, <2>3, <2>4
<1>4. CASE Tests!Run.smoke
  <2>1. rest = left \o Tests!RunFlag(Tests!Smoke)
    BY <1>1, <1>4 DEF Tests!RestArgs
  <2>2. Tests!Smoke \in SUBSET Suite /\ Asked = Tests!Smoke
    BY <1>4 DEF Tests!Smoke, Asked
  <2>3. /\ rest \in Seq(Tests!Argument)
        /\ ~ Tests!takeFlag("run", rest).over /\ ~ Tests!takeFlag("run", rest).wants
        /\ Tests!takeRun(rest).pattern = Tests!Exactly(Tests!Smoke) /\ Tests!takeRun(rest).rest = Tests!takeRun(left).rest
        /\ Without({Tests!End, "args", "packages", "tags"}, rest)
    BY <1>2, <2>1, <2>2, RunIsLast
  <2>4. Without({"run"}, left)
    <3>1. ~ Tests!hasFlag(left, "run")
      BY <1>1, <1>4 DEF Meant, Tests!Refused
    <3>2. Without({Tests!End}, left)
      BY <1>2, WithoutLess
    <3>3. ASSUME NEW i \in DOMAIN left PROVE left[i].flag # "run"
      <4>1. PICK n \in Nat : DOMAIN left = 1 .. n
        BY <1>2
      <4>2. \A j \in 1 .. i : j \in DOMAIN left
        BY <4>1
      <4>3. \A j \in 1 .. i : left[j].flag # Tests!End
        BY <3>2, <4>2 DEF Without
      <4> QED BY <3>1, <4>3 DEF Tests!hasFlag
    <3> QED BY <3>3 DEF Without
  <2>5. Tests!Exactly(Tests!Smoke).selects = Tests!Smoke /\ Tests!Exactly(Tests!Smoke).lists = Tests!Smoke
    BY DEF Tests!Exactly
  <2> QED BY <1>2, <2>2, <2>3, <2>4, <2>5
<1> QED BY <1>3, <1>4

LEMMA WhatIsAsked ==
    ASSUME Meant
    PROVE  /\ Tests!Wanted = Chosen(Asked, AllPackages, AllTags)
           /\ AllTags \in SUBSET STRING /\ AllPackages \in SUBSET Nat
           /\ Tests!TagArgs = TagsFirst(AllTags) /\ Tests!Packages = Tests!PackagesFlag(AllPackages)
<1>1. PICK rest, left : rest = Tests!RestArgs /\ left = Tests!Tagged.rest
  OBVIOUS
<1>2. Asked \subseteq Suite /\ (Tests!Run.smoke => Tests!takeRun(typed).pattern.selects = Suite)
  BY <1>1, WhatIsRun DEF Tests!Exactly
<1>3. Tests!Tagged.tags = Tests!takeTags(typed).tags
  BY <1>1, WhatIsLeft
<1>4. PICK matches : matches = Tests!takeRun(typed).pattern.selects
  OBVIOUS
<1>5. typed \in Seq(Tests!Argument)
  BY MeantIsPlain
<1>6. matches \subseteq Suite
  BY <1>4, <1>5, PatternsOfTests DEF Tests!Pattern
<1>7. ASSUME NEW t
      PROVE  t \in Tests!Wanted <=> /\ t \in matches /\ (Tests!Run.e2e => t.pkg = E2E)
                                    /\ t.pkg = E2E => Tests!Run.e2e \/ "e2e" \in Tests!Tagged.tags
                                    /\ Tests!Run.smoke => t.smoke
  BY <1>3, <1>4 DEF Tests!Wanted
<1>8. ASSUME NEW t PROVE t \in Asked <=> t \in matches /\ (Tests!Run.smoke => t.smoke)
  BY <1>2, <1>4, <1>6 DEF Asked, Tests!Smoke
<1>9. ASSUME NEW t \in Suite PROVE t.pkg \in AllPackages <=> (Tests!Run.e2e => t.pkg = E2E)
  BY DEF AllPackages
<1>10. "e2e" \in AllTags <=> Tests!Run.e2e \/ "e2e" \in Tests!Tagged.tags
  BY DEF AllTags
<1>11. Tests!Wanted = Chosen(Asked, AllPackages, AllTags)
  <2>1. ASSUME NEW t PROVE t \in Chosen(Asked, AllPackages, AllTags) <=>
                              t \in Asked /\ t.pkg \in AllPackages /\ (t.pkg = E2E => "e2e" \in AllTags)
    BY DEF Chosen
  <2>2. ASSUME NEW t PROVE t \in Tests!Wanted <=> t \in Chosen(Asked, AllPackages, AllTags)
    <3>1. t \in matches => t \in Suite
      BY <1>6
    <3> QED BY <1>7, <1>8, <1>9, <1>10, <2>1, <3>1
  <2> QED BY <2>2
<1>12. AllTags \in SUBSET STRING
  <2>1. PICK v : v = Tests!takeFlag("tags", typed)
    OBVIOUS
  <2>2. v.named \in Seq(SUBSET STRING)
    BY <1>5, <2>1, ScanIs DEF Looked, Scans, Named
  <2>3. Tests!ToSet(v.named) \subseteq SUBSET STRING
    BY <2>2 DEF Tests!ToSet
  <2>4. Tests!takeTags(typed).tags \subseteq STRING
    BY <2>1, <2>3 DEF Tests!takeTags
  <2> QED BY <1>3, <2>4, StringsAssumption DEF AllTags
<1>13. AllPackages \in SUBSET Nat
  BY SuiteAssumption DEF AllPackages
<1>14. Tests!TagArgs = TagsFirst(AllTags) /\ Tests!Packages = Tests!PackagesFlag(AllPackages)
  BY DEF Tests!TagArgs, TagsFirst, AllTags, Tests!Packages, AllPackages
<1> QED BY <1>11, <1>12, <1>13, <1>14

\* A call of go test for all, what is listed to be divided, and a call for a package.
LEMMA CallIsAll ==
    ASSUME Meant
    PROVE  Tests!Tests(Tests!TagArgs \o Tests!RestArgs \o Tests!Packages) = Tests!Wanted
<1>1. PICK rest, g : rest = Tests!RestArgs /\ g = Tests!TagArgs
  OBVIOUS
<1>2. /\ rest \in Seq(Tests!Argument) /\ Without({Tests!End, "args", "packages", "tags"}, rest)
      /\ ~ Tests!takeFlag("run", rest).wants /\ Tests!takeRun(rest).pattern.selects = Asked
  BY <1>1, WhatIsRun
<1>3. /\ Tests!Wanted = Chosen(Asked, AllPackages, AllTags) /\ AllTags \in SUBSET STRING /\ AllPackages \in SUBSET Nat
      /\ g = TagsFirst(AllTags) /\ Tests!Packages = Tests!PackagesFlag(AllPackages)
  BY <1>1, WhatIsAsked
<1>4. Tests!Tests(TagsFirst(AllTags) \o rest \o Tests!PackagesFlag(AllPackages)) = Chosen(Asked, AllPackages, AllTags)
  BY <1>2, <1>3, TestsOf
<1> QED BY <1>1, <1>3, <1>4

LEMMA ListIsAll ==
    ASSUME Meant, Tests!Run.sharded
    PROVE  Tests!Listed(Tests!takeRun(Tests!RestArgs).pattern, Tests!TagArgs \o Tests!Packages) = Tests!Wanted
<1>1. PICK rest, g : rest = Tests!RestArgs /\ g = TagsFirst(AllTags)
  OBVIOUS
<1>2. Tests!takeRun(rest).pattern.lists = Asked /\ Asked \subseteq Suite
  BY <1>1, WhatIsRun
<1>3. <<>> \in Seq(Tests!Argument) /\ Without({Tests!End, "args", "packages", "tags"}, <<>>)
  BY DEF Without
<1>4. ~ Tests!takeFlag("run", <<>>).wants
  BY ScanNothing DEF Looked, Tests!Scan
<1>5. /\ Tests!Wanted = Chosen(Asked, AllPackages, AllTags) /\ AllTags \in SUBSET STRING /\ AllPackages \in SUBSET Nat
      /\ Tests!TagArgs = g /\ Tests!Packages = Tests!PackagesFlag(AllPackages)
  BY <1>1, WhatIsAsked
<1>6. g \o <<>> = g
  <2>1. g \in Seq(Tests!Argument)
    BY <1>1, <1>5, TagsAreFirst
  <2> QED BY <2>1, ConcatEmptySeq
<1>7. Tests!Compiled(g \o <<>> \o Tests!PackagesFlag(AllPackages)) = Chosen(Suite, AllPackages, AllTags)
  BY <1>1, <1>3, <1>4, <1>5, TestsOf
<1>8. Tests!Compiled(Tests!TagArgs \o Tests!Packages) = Chosen(Suite, AllPackages, AllTags)
  BY <1>5, <1>6, <1>7
<1>9. Chosen(Suite, AllPackages, AllTags) \cap Asked = Chosen(Asked, AllPackages, AllTags)
  BY <1>2 DEF Chosen
<1> QED BY <1>1, <1>2, <1>5, <1>8, <1>9 DEF Tests!Listed

LEMMA CallIsPackage ==
    ASSUME Meant, NEW names \in SUBSET Suite, NEW p \in Nat, NEW r, r = Tests!takeRun(Tests!RestArgs).rest
    PROVE  Tests!Tests(Tests!TagArgs \o r \o Tests!RunFlag(names) \o Tests!PackagesFlag({p})) =
              {t \in names : t.pkg = p /\ (p = E2E => "e2e" \in AllTags)}
<1>1. PICK rest, s : rest = Tests!RestArgs /\ s = Tests!takeFlag("run", rest)
  OBVIOUS
<1>2. rest \in Seq(Tests!Argument) /\ Without({Tests!End, "args", "packages", "tags", "run"}, r)
  BY <1>1, WhatIsRun
<1>3. s \in Scans("run") /\ r = s.rest
  BY <1>1, <1>2, ScanIs DEF Looked, Tests!takeRun
<1>4. r \in Seq(Tests!Argument)
  BY <1>3 DEF Scans
<1>5. Without({Tests!End, "run"}, r) /\ Without({Tests!End, "args", "packages", "tags"}, r)
  BY <1>2, WithoutLess
<1>6. ~ Tests!takeFlag("run", r).over /\ ~ Tests!takeFlag("run", r).wants
  BY <1>4, <1>5, ScanOfNone DEF Looked
<1>7. PICK given : given = r \o Tests!RunFlag(names)
  OBVIOUS
<1>8. /\ given \in Seq(Tests!Argument) /\ ~ Tests!takeFlag("run", given).wants /\ Tests!takeRun(given).pattern = Tests!Exactly(names)
      /\ Without({Tests!End, "args", "packages", "tags"}, given)
  BY <1>4, <1>5, <1>6, <1>7, RunIsLast
<1>9. PICK g : g = TagsFirst(AllTags)
  OBVIOUS
<1>10. g \in Seq(Tests!Argument) /\ AllTags \in SUBSET STRING /\ Tests!TagArgs = g
  BY <1>9, WhatIsAsked, TagsAreFirst
<1>11. (g \o r) \o Tests!RunFlag(names) = g \o given
  <2>1. PICK x \in Tests!Argument : Tests!RunFlag(names) = <<x>>
    BY PutOnTheLine
  <2>2. <<x>> \in Seq(Tests!Argument)
    BY <2>1
  <2>3. PICK u \in Seq(Tests!Argument), v \in Seq(Tests!Argument), y \in Seq(Tests!Argument) : u = g /\ v = r /\ y = <<x>>
    BY <1>4, <1>10, <2>2
  <2>4. (u \o v) \o y = u \o (v \o y)
    BY ConcatAssociative
  <2> QED BY <1>7, <2>1, <2>3, <2>4
<1>12. PICK pkgs : pkgs = {p}
  OBVIOUS
<1>13. Tests!Tests(g \o given \o Tests!PackagesFlag(pkgs)) = Chosen(names, pkgs, AllTags)
  <2>1. pkgs \in SUBSET Nat
    BY <1>12
  <2>2. Tests!takeRun(given).pattern.selects = names
    BY <1>8 DEF Tests!Exactly
  <2> QED BY <1>8, <1>9, <1>10, <2>1, <2>2, TestsOf
<1>14. Chosen(names, pkgs, AllTags) = {t \in names : t.pkg = p /\ (p = E2E => "e2e" \in AllTags)}
  BY <1>12 DEF Chosen
<1> QED BY <1>10, <1>11, <1>12, <1>13, <1>14

(***************************************************************************)
(* The machines divide what is wanted.                                     *)
(***************************************************************************)
LEMMA SameCardinality == \A S : Tests!Cardinality(S) = Cardinality(S)
BY DEF Tests!Cardinality, Cardinality

LEMMA SortedIsAll ==
    ASSUME NEW S \in SUBSET Nat, IsFiniteSet(S), NEW q, q = Tests!Sorted(S)
    PROVE  \E n \in Nat : /\ q = [i \in 1 .. n |-> q[i]] /\ \A i \in 1 .. n : q[i] \in S
                          /\ \A i, j \in 1 .. n : q[i] = q[j] => i = j
                          /\ \A p \in S : \E i \in 1 .. n : q[i] = p
<1> DEFINE n == Cardinality(S)
           Less(p) == {x \in S : x < p}
           rank == [p \in S |-> Cardinality(Less(p))]
<1>1. n \in Nat
  BY FS_CardinalityType
<1>2. ASSUME NEW p \in S PROVE IsFiniteSet(Less(p)) /\ Cardinality(Less(p)) \in 0 .. n - 1
  <2>1. Less(p) \in SUBSET S /\ Less(p) # S
    OBVIOUS
  <2>2. IsFiniteSet(Less(p)) /\ Cardinality(Less(p)) <= n /\ (n = Cardinality(Less(p)) => S = Less(p))
    <3> HIDE DEF Less
    <3> QED BY <2>1, FS_Subset
  <2>3. Cardinality(Less(p)) \in Nat
    <3> HIDE DEF Less
    <3> QED BY <2>2, FS_CardinalityType
  <2> HIDE DEF Less, n
  <2> QED BY <1>1, <2>1, <2>2, <2>3
<1>3. ASSUME NEW p \in S, NEW r \in S, p < r PROVE rank[p] # rank[r]
  <2>1. Less(p) \in SUBSET Less(r) /\ p \in Less(r) /\ p \notin Less(p)
    <3>1. p \in Nat /\ r \in Nat /\ \A x \in S : x \in Nat
      OBVIOUS
    <3>2. \A x \in S : x < p => x < r
      BY <1>3, <3>1
    <3>3. ~ (p < p)
      BY <3>1
    <3>4. Less(p) \subseteq Less(r)
      BY <3>2
    <3> QED BY <1>3, <3>3, <3>4
  <2>2. Cardinality(Less(r)) # Cardinality(Less(p))
    <3>1. IsFiniteSet(Less(r))
      BY <1>2
    <3> HIDE DEF Less
    <3> QED BY <2>1, <3>1, FS_Subset
  <2> HIDE DEF Less
  <2> QED BY <2>2
<1>4. rank \in [S -> 0 .. n - 1]
  <2> HIDE DEF Less, n
  <2> QED BY <1>2
<1>5. \A p, r \in S : rank[p] = rank[r] => p = r
  <2> HIDE DEF rank
  <2>1. \A p, r \in S : p < r \/ r < p \/ p = r
    OBVIOUS
  <2> QED BY <1>3, <2>1
<1>6. IsFiniteSet(0 .. n - 1) /\ Cardinality(0 .. n - 1) = n
  <2> HIDE DEF n
  <2> QED BY <1>1, FS_Interval
<1>7. rank \in Surjection(S, 0 .. n - 1)
  <2> HIDE DEF rank
  <2>1. rank \in Injection(S, 0 .. n - 1)
    BY <1>4, <1>5 DEF Injection, IsInjective
  <2> QED BY <1>6, <2>1, FS_Injection
<1>8. \A k \in 0 .. n - 1 : \E p \in S : rank[p] = k
  <2> HIDE DEF rank, n
  <2> QED BY <1>7 DEF Surjection
<1>9. q = [i \in 1 .. n |-> CHOOSE p \in S : Tests!Cardinality(Less(p)) = i - 1]
  <2>1. q = [i \in 1 .. Tests!Cardinality(S) |-> CHOOSE p \in S : Tests!Cardinality(Less(p)) = i - 1]
    BY Zenon DEF Tests!Sorted
  <2> HIDE DEF Less
  <2> QED BY <2>1, SameCardinality
<1>10. ASSUME NEW i \in 1 .. n PROVE q[i] \in S /\ rank[q[i]] = i - 1
  <2>1. i - 1 \in 0 .. n - 1
    <3> HIDE DEF n
    <3> QED BY <1>1
  <2>2. PICK p \in S : rank[p] = i - 1
    <3> HIDE DEF n, rank
    <3> QED BY <1>8, <2>1
  <2>3. Tests!Cardinality(Less(p)) = i - 1
    <3> HIDE DEF Less
    <3> QED BY <2>2, SameCardinality
  <2>4. q[i] = CHOOSE x \in S : Tests!Cardinality(Less(x)) = i - 1
    <3> HIDE DEF Less, n
    <3> QED BY <1>9
  <2>5. q[i] \in S /\ Tests!Cardinality(Less(q[i])) = i - 1
    <3> HIDE DEF Less, n
    <3> QED BY <2>3, <2>4
  <2> HIDE DEF Less, n
  <2> QED BY <2>5, SameCardinality
<1>11. \A i, j \in 1 .. n : q[i] = q[j] => i = j
  <2> HIDE DEF n, rank
  <2> QED BY <1>1, <1>10
<1>12. ASSUME NEW p \in S PROVE \E i \in 1 .. n : q[i] = p
  <2> HIDE DEF n, rank
  <2>1. rank[p] + 1 \in 1 .. n /\ (rank[p] + 1) - 1 = rank[p]
    BY <1>1, <1>4
  <2>2. q[rank[p] + 1] \in S /\ rank[q[rank[p] + 1]] = rank[p]
    BY <1>10, <2>1
  <2> QED BY <1>5, <2>1, <2>2
<1>13. q = [i \in 1 .. n |-> q[i]]
  <2> HIDE DEF n, Less
  <2> QED BY <1>9
<1> HIDE DEF n
<1> QED BY <1>1, <1>10, <1>11, <1>12, <1>13

Owner(t) == IF Tests!Run.sharded THEN (Tests!Place(t, Tests!Wanted) % machines) + 1 ELSE 1
Mine(m) == {t \in Tests!Wanted : Owner(t) = m}

\* The calls of a machine: each test that is its own is in one of them, no other is.
Divides(plan, S) ==
    /\ plan \in Seq(Seq(Tests!Argument))
    /\ \A i \in DOMAIN plan : Tests!Tests(plan[i]) \subseteq S
    /\ \A t \in S : \E i \in DOMAIN plan : t \in Tests!Tests(plan[i])
    /\ \A i, j \in DOMAIN plan : i # j => Tests!Tests(plan[i]) \cap Tests!Tests(plan[j]) = {}

LEMMA WantedAreTests ==
    ASSUME Meant
    PROVE  Tests!Wanted \subseteq Suite /\ IsFiniteSet(Tests!Wanted) /\ \A t \in Tests!Wanted : t.pkg \in Nat
<1>1. typed \in Seq(Tests!Argument)
  BY MeantIsPlain
<1>2. Tests!Wanted \subseteq Suite
  BY <1>1, PatternsOfTests DEF Tests!Wanted, Tests!Pattern
<1>3. IsFiniteSet(Tests!Wanted)
  BY <1>2, FS_Subset, SuiteAssumption
<1> QED BY <1>2, <1>3, SuiteAssumption

LEMMA PlanOfOne ==
    ASSUME Meant, ~ Tests!Run.sharded
    PROVE  Divides(<<Tests!TagArgs \o Tests!RestArgs \o Tests!Packages>>, Mine(1))
<1>1. PICK call : call = Tests!TagArgs \o Tests!RestArgs \o Tests!Packages
  OBVIOUS
<1>2. Tests!Tests(call) = Tests!Wanted /\ Mine(1) = Tests!Wanted
  BY <1>1, CallIsAll DEF Mine, Owner
<1>3. call \in Seq(Tests!Argument)
  <2>1. PICK rest, g, p : rest = Tests!RestArgs /\ g = Tests!TagArgs /\ p = Tests!Packages
    OBVIOUS
  <2>2. rest \in Seq(Tests!Argument)
    BY <2>1, WhatIsRun
  <2>3. g \in Seq(Tests!Argument)
    BY <2>1, WhatIsAsked, TagsAreFirst
  <2>4. p \in Seq(Tests!Argument)
    <3>1. PICK x \in Tests!Argument : p = <<x>>
      BY <2>1, WhatIsAsked, PutOnTheLine
    <3> QED BY <3>1
  <2> QED BY <1>1, <2>1, <2>2, <2>3, <2>4
<1>4. <<call>> \in Seq(Seq(Tests!Argument)) /\ DOMAIN <<call>> = {1} /\ <<call>>[1] = call
  BY <1>3
<1>5. Divides(<<call>>, Mine(1))
  BY <1>2, <1>4 DEF Divides
<1> QED BY <1>1, <1>5

\* Every test that is wanted is of one machine.
LEMMA OwnerIsOne ==
    ASSUME Meant, machines \in Nat \ {0}, NEW t \in Tests!Wanted
    PROVE  Tests!Place(t, Tests!Wanted) % machines \in 0 .. machines - 1
<1>1. PICK wanted : wanted = Tests!Wanted
  OBVIOUS
<1>2. {s \in wanted : Tests!Before(s, t)} \in SUBSET wanted /\ IsFiniteSet(wanted)
  BY <1>1, WantedAreTests
<1>3. PICK S : S = {s \in wanted : Tests!Before(s, t)}
  OBVIOUS
<1>4. Cardinality(S) \in Nat
  BY <1>2, <1>3, FS_Subset, FS_CardinalityType
<1>5. Tests!Place(t, wanted) \in Nat
  BY <1>3, <1>4, SameCardinality DEF Tests!Place
<1> QED BY <1>1, <1>5

LEMMA PlanOfMachine ==
    ASSUME Meant, Tests!Run.sharded, machines \in Nat \ {0}, NEW m \in 1 .. machines
    PROVE  Divides(Tests!shardTests(m), Mine(m))
<1>1. PICK r, mine : r = Tests!takeRun(Tests!RestArgs).rest /\ mine = Mine(m)
  OBVIOUS
<1>2. Tests!slice(m, Tests!Wanted) = mine
  <2>1. ASSUME NEW t \in Tests!Wanted PROVE Tests!Place(t, Tests!Wanted) % machines = m - 1 <=> Owner(t) = m
    <3>1. PICK k : k = Tests!Place(t, Tests!Wanted) % machines
      OBVIOUS
    <3>2. k \in 0 .. machines - 1
      BY <3>1, OwnerIsOne
    <3>3. Owner(t) = k + 1
      BY <3>1 DEF Owner
    <3> QED BY <3>1, <3>2, <3>3
  <2> QED BY <1>1, <2>1 DEF Tests!slice, Mine
<1> DEFINE S == {t.pkg : t \in mine}
           pkgs == Tests!Sorted(S)
           names(p) == {t \in Suite : \E s \in mine : s.pkg = p /\ s.name = t.name}
           call(p) == Tests!TagArgs \o r \o Tests!RunFlag(names(p)) \o Tests!PackagesFlag({p})
<1>3. Tests!shardTests(m) = [i \in DOMAIN pkgs |-> call(pkgs[i])]
  <2>1. Tests!Listed(Tests!takeRun(Tests!RestArgs).pattern, Tests!TagArgs \o Tests!Packages) = Tests!Wanted
    BY ListIsAll
  <2> QED BY <1>1, <1>2, <2>1, Zenon DEF Tests!shardTests
<1>4. mine \subseteq Tests!Wanted /\ mine \subseteq Suite /\ IsFiniteSet(mine) /\ \A t \in mine : t.pkg \in Nat
  <2>1. mine \subseteq Tests!Wanted
    BY <1>1 DEF Mine
  <2> QED BY <2>1, WantedAreTests, FS_Subset
<1>5. S \in SUBSET Nat /\ IsFiniteSet(S)
  <2>1. S \in SUBSET Nat
    BY <1>4
  <2>2. PICK f : f = [t \in mine |-> t.pkg]
    OBVIOUS
  <2>3. f \in Surjection(mine, S)
    BY <2>2 DEF Surjection
  <2> QED BY <1>4, <2>1, <2>3, FS_Surjection
<1>6. PICK n \in Nat : /\ pkgs = [i \in 1 .. n |-> pkgs[i]] /\ \A i \in 1 .. n : pkgs[i] \in S
                       /\ \A i, j \in 1 .. n : pkgs[i] = pkgs[j] => i = j
                       /\ \A p \in S : \E i \in 1 .. n : pkgs[i] = p
  <2> HIDE DEF S
  <2> QED BY <1>5, SortedIsAll
<1>7. ASSUME NEW p \in S
      PROVE  call(p) \in Seq(Tests!Argument) /\ Tests!Tests(call(p)) = {t \in mine : t.pkg = p}
  <2>1. p \in Nat /\ names(p) \in SUBSET Suite
    BY <1>5
  <2>2. PICK ns : ns = names(p)
    OBVIOUS
  <2>3. Tests!Tests(call(p)) = {t \in ns : t.pkg = p /\ (p = E2E => "e2e" \in AllTags)}
    BY <1>1, <2>1, <2>2, CallIsPackage
  <2>4. ASSUME NEW t PROVE t \in ns /\ t.pkg = p /\ (p = E2E => "e2e" \in AllTags) <=> t \in mine /\ t.pkg = p
    <3>1. ASSUME t \in mine, t.pkg = p PROVE t \in ns /\ (p = E2E => "e2e" \in AllTags)
      <4>1. t \in ns
        BY <1>4, <2>2, <3>1
      <4>2. t \in Chosen(Asked, AllPackages, AllTags)
        BY <1>4, <3>1, WhatIsAsked
      <4> QED BY <3>1, <4>1, <4>2 DEF Chosen
    <3>2. ASSUME t \in ns, t.pkg = p PROVE t \in mine
      <4>1. PICK s \in mine : s.pkg = p /\ s.name = t.name
        BY <2>2, <3>2
      <4>2. s \in Suite /\ t \in Suite
        BY <1>4, <2>2, <3>2
      <4>3. s = t
        BY <3>2, <4>1, <4>2, SuiteAssumption
      <4> QED BY <4>1, <4>3
    <3> QED BY <3>1, <3>2
  <2>5. Tests!Tests(call(p)) = {t \in mine : t.pkg = p}
    <3> HIDE DEF call
    <3> QED BY <2>3, <2>4
  <2>6. call(p) \in Seq(Tests!Argument)
    <3>1. PICK rest, s : rest = Tests!RestArgs /\ s = Tests!takeFlag("run", rest)
      OBVIOUS
    <3>2. rest \in Seq(Tests!Argument) /\ r = s.rest
      BY <1>1, <3>1, WhatIsRun DEF Tests!takeRun
    <3>3. r \in Seq(Tests!Argument)
      BY <3>1, <3>2, ScanIs DEF Looked, Scans
    <3>4. Tests!TagArgs \in Seq(Tests!Argument)
      BY WhatIsAsked, TagsAreFirst
    <3>5. PICK g \in Seq(Tests!Argument), v \in Seq(Tests!Argument) : g = Tests!TagArgs /\ v = r
      BY <3>3, <3>4
    <3>6. PICK x \in Tests!Argument : Tests!RunFlag(ns) = <<x>>
      <4>1. ns \in SUBSET Suite
        BY <2>1, <2>2
      <4> HIDE DEF names
      <4> QED BY <4>1, PutOnTheLine
    <3>7. PICK y \in Tests!Argument : Tests!PackagesFlag({p}) = <<y>>
      BY <2>1, PutOnTheLine
    <3>8. g \o v \o <<x>> \o <<y>> \in Seq(Tests!Argument)
      OBVIOUS
    <3> HIDE DEF names
    <3> QED BY <2>2, <3>5, <3>6, <3>7, <3>8
  <2> QED BY <2>5, <2>6
<1>8. PICK plan : plan = Tests!shardTests(m)
  OBVIOUS
<1>9. DOMAIN plan = 1 .. n /\ plan \in Seq(Seq(Tests!Argument))
      /\ \A i \in 1 .. n : Tests!Tests(plan[i]) = {t \in mine : t.pkg = pkgs[i]}
  <2> HIDE DEF pkgs, S, call
  <2>1. DOMAIN pkgs = 1 .. n
    BY <1>6
  <2>2. plan = [i \in 1 .. n |-> call(pkgs[i])]
    BY <1>3, <1>8, <2>1
  <2>3. \A i \in 1 .. n : call(pkgs[i]) \in Seq(Tests!Argument) /\ Tests!Tests(call(pkgs[i])) = {t \in mine : t.pkg = pkgs[i]}
    BY <1>6, <1>7
  <2>4. plan \in [1 .. n -> Seq(Tests!Argument)]
    BY <2>2, <2>3
  <2> QED BY <2>2, <2>3, <2>4
<1>10. Divides(plan, mine)
  <2> HIDE DEF pkgs
  <2>1. \A t \in mine : \E i \in 1 .. n : t \in Tests!Tests(plan[i])
    <3> SUFFICES ASSUME NEW t \in mine PROVE \E i \in 1 .. n : t \in Tests!Tests(plan[i])
      OBVIOUS
    <3>1. PICK i \in 1 .. n : pkgs[i] = t.pkg
      BY <1>6
    <3> QED BY <1>9, <3>1
  <2>2. \A i, j \in 1 .. n : i # j => Tests!Tests(plan[i]) \cap Tests!Tests(plan[j]) = {}
    <3> SUFFICES ASSUME NEW i \in 1 .. n, NEW j \in 1 .. n, i # j PROVE Tests!Tests(plan[i]) \cap Tests!Tests(plan[j]) = {}
      OBVIOUS
    <3>1. pkgs[i] # pkgs[j]
      BY <1>6
    <3> QED BY <1>9, <3>1
  <2>3. \A i \in 1 .. n : Tests!Tests(plan[i]) \subseteq mine
    BY <1>9
  <2> QED BY <1>9, <2>1, <2>2, <2>3 DEF Divides
<1> QED BY <1>1, <1>8, <1>10

(***************************************************************************)
(* The machines at work.                                                   *)
(***************************************************************************)
ToRun(m) == {t \in Suite : \E i \in DOMAIN calls[m] : t \in Tests!Tests(calls[m][i])}

\* What a machine has been through of its own.
Running(m) ==
    /\ Divides(calls[m], ToRun(m)) /\ ToRun(m) \subseteq Mine(m)
    /\ \A t \in ToRun(m) : ran[t] = 0
    /\ ~ red[m] => \A t \in Mine(m) \ ToRun(m) : ran[t] = 1 /\ t \notin broken
Progress(m) ==
    /\ tPc[m] \in {"parse", "views"} => \A t \in Mine(m) : ran[t] = 0
    /\ tPc[m] = "test" => Running(m)
    /\ tAnswer[m] = "ok" => \A t \in Mine(m) : ran[t] = 1 /\ t \notin broken

\* A machine that has got so far was asked for something.
Going(m) == tPc[m] \in {"views", "test"} \/ tAnswer[m] = "ok" => ~ Tests!Refused /\ ~ Tests!Run.list

TestTypes ==
    /\ typed \in Lines /\ machines \in Nat \ {0} /\ (~ Tests!Run.sharded => machines = 1)
    /\ tPc \in [1 .. machines -> {"parse", "views", "test", "returned"}]
    /\ red \in [1 .. machines -> BOOLEAN]
    /\ tAnswer \in [1 .. machines -> {"none", "error", "listed", "ok"}]
    /\ DOMAIN calls = 1 .. machines /\ ran \in [Suite -> Nat]
    /\ \A m \in 1 .. machines : tAnswer[m] = "ok" => tPc[m] = "returned"

TestInv ==
    /\ TestTypes /\ \A m \in 1 .. machines : Going(m)
    /\ Meant => (\A m \in 1 .. machines : Progress(m)) /\ \A t \in Suite \ Tests!Wanted : ran[t] = 0

LEMMA TestsStart == Tests!Init => TestInv
<1> SUFFICES ASSUME Tests!Init PROVE TestInv
  OBVIOUS
<1>1. machines \in Nat \ {0} /\ (~ Tests!Run.sharded => machines = 1)
  BY SuiteAssumption DEF Tests!Init
<1>2. /\ typed \in Lines /\ tPc = [m \in 1 .. machines |-> "parse"] /\ calls = [m \in 1 .. machines |-> <<>>]
      /\ red = [m \in 1 .. machines |-> FALSE] /\ ran = [t \in Suite |-> 0]
      /\ tAnswer = [m \in 1 .. machines |-> "none"]
  BY DEF Tests!Init, Tests!Machines
<1>3. TestTypes
  BY <1>1, <1>2 DEF TestTypes
<1>4. \A m \in 1 .. machines : Going(m)
  BY <1>2 DEF Going
<1>5. ASSUME Meant PROVE (\A m \in 1 .. machines : Progress(m)) /\ \A t \in Suite \ Tests!Wanted : ran[t] = 0
  <2>1. Tests!Wanted \subseteq Suite
    BY <1>5, WantedAreTests
  <2>2. \A m \in 1 .. machines : \A t \in Mine(m) : ran[t] = 0
    BY <1>2, <2>1 DEF Mine
  <2>3. \A m \in 1 .. machines : Progress(m)
    BY <1>2, <2>2 DEF Progress
  <2> QED BY <1>2, <2>3
<1> QED BY <1>3, <1>4, <1>5 DEF TestInv

\* What does not change with a step: the line, and what it means.
LEMMA LineIsFixed ==
    ASSUME UNCHANGED <<typed, machines, broken>>
    PROVE  /\ Tests!Run' = Tests!Run /\ Tests!Refused' = Tests!Refused /\ Meant' = Meant
           /\ Tests!Wanted' = Tests!Wanted /\ \A m : Mine(m)' = Mine(m)
<1>1. Tests!Run' = Tests!Run
  BY DEF Tests!Run
<1>2. Tests!Refused' = Tests!Refused
  BY <1>1 DEF Tests!Refused, Tests!Tagged
<1>3. Meant' = Meant
  BY <1>1, <1>2 DEF Meant
<1>4. Tests!Wanted' = Tests!Wanted
  BY <1>1 DEF Tests!Wanted
<1>5. \A m : Mine(m)' = Mine(m)
  BY <1>1, <1>4 DEF Mine, Owner
<1> QED BY <1>1, <1>2, <1>3, <1>4, <1>5

\* A machine that does nothing, while no test of its own is run.
LEMMA OthersProgress ==
    ASSUME UNCHANGED <<typed, machines, broken>>, NEW k, Progress(k), tPc'[k] = tPc[k], calls'[k] = calls[k],
           red'[k] = red[k], tAnswer'[k] = tAnswer[k], \A t \in Mine(k) : ran'[t] = ran[t]
    PROVE  Progress(k)'
<1>1. Mine(k)' = Mine(k)
  BY LineIsFixed
<1>2. PICK mine, left : mine = Mine(k) /\ left = ToRun(k)
  OBVIOUS
<1>3. ToRun(k)' = left
  BY <1>2 DEF ToRun
<1>4. Running(k) => Running(k)'
  <2> SUFFICES ASSUME Running(k) PROVE Running(k)'
    OBVIOUS
  <2>1. /\ Divides(calls[k], left) /\ left \subseteq mine
        /\ \A t \in left : ran[t] = 0
        /\ ~ red[k] => \A t \in mine \ left : ran[t] = 1 /\ t \notin broken
    BY <1>2 DEF Running
  <2>2. /\ Divides(calls'[k], left) /\ left \subseteq mine
        /\ \A t \in left : ran'[t] = 0
        /\ ~ red'[k] => \A t \in mine \ left : ran'[t] = 1 /\ t \notin broken'
    BY <1>2, <2>1
  <2> QED BY <1>1, <1>2, <1>3, <2>2 DEF Running
<1> QED BY <1>1, <1>2, <1>4 DEF Progress

\* A step of one machine, which runs no test of another.
LEMMA StepOfOne ==
    ASSUME TestInv, UNCHANGED <<typed, machines, broken>>, TestTypes', NEW m \in 1 .. machines, Going(m)',
           \A k \in 1 .. machines : k # m => /\ tPc'[k] = tPc[k] /\ calls'[k] = calls[k] /\ red'[k] = red[k]
                                              /\ tAnswer'[k] = tAnswer[k],
           Meant => /\ Progress(m)' /\ \A t \in Suite : ran'[t] = ran[t] \/ t \in Mine(m)
    PROVE  TestInv'
<1>1. machines' = machines /\ Meant' = Meant /\ Tests!Wanted' = Tests!Wanted /\ Tests!Refused' = Tests!Refused
      /\ Tests!Run' = Tests!Run
  BY LineIsFixed
<1>2. ASSUME NEW k \in 1 .. machines PROVE Going(k)'
  <2>1. CASE k = m
    BY <2>1
  <2>2. CASE k # m
    <3>1. Going(k) /\ tPc'[k] = tPc[k] /\ tAnswer'[k] = tAnswer[k]
      BY <2>2 DEF TestInv
    <3> QED BY <1>1, <3>1 DEF Going
  <2> QED BY <2>1, <2>2
<1>3. ASSUME Meant PROVE (\A k \in 1 .. machines : Progress(k)') /\ \A t \in Suite \ Tests!Wanted : ran'[t] = 0
  <2>1. Tests!Wanted \subseteq Suite
    BY <1>3, WantedAreTests
  <2>2. ASSUME NEW k \in 1 .. machines PROVE Progress(k)'
    <3>1. CASE k = m
      BY <1>3, <3>1
    <3>2. CASE k # m
      <4>1. \A t \in Mine(k) : ran'[t] = ran[t]
        BY <1>3, <2>1, <3>2 DEF Mine
      <4>2. Progress(k)
        BY <1>3 DEF TestInv
      <4> QED BY <3>2, <4>1, <4>2, OthersProgress
    <3> QED BY <3>1, <3>2
  <2>3. ASSUME NEW t \in Suite \ Tests!Wanted PROVE ran'[t] = 0
    <3>1. t \notin Mine(m)
      BY DEF Mine
    <3>2. ran[t] = 0
      BY <1>3 DEF TestInv
    <3> QED BY <1>3, <3>1, <3>2
  <2> QED BY <2>2, <2>3
<1> QED BY <1>1, <1>2, <1>3 DEF TestInv

LEMMA ParseProgress ==
    ASSUME TestInv, NEW m \in 1 .. machines, Tests!Parse(m) \/ Tests!NothingToRun(m)
    PROVE  TestInv'
<1>1. /\ UNCHANGED <<typed, machines, broken>> /\ UNCHANGED <<calls, red, ran>> /\ tPc[m] \in {"parse", "views"}
      /\ \E to \in {"returned", "views"}, answer \in {"none", "error", "listed"} :
            /\ tPc' = [tPc EXCEPT ![m] = to] /\ tAnswer' = [tAnswer EXCEPT ![m] = answer]
            /\ to = "views" => ~ Tests!Refused /\ ~ Tests!Run.list
  <2>1. CASE Tests!Parse(m)
    <3>1. /\ UNCHANGED <<typed, machines, broken>> /\ UNCHANGED <<calls, red, ran>> /\ tPc[m] = "parse"
          /\ tPc' = [tPc EXCEPT ![m] = IF Tests!Refused \/ Tests!Run.list THEN "returned" ELSE "views"]
      BY <2>1 DEF Tests!Parse, Tests!TestGoto, Tests!constant
    <3>2. \E answer \in {"none", "error", "listed"} : tAnswer' = [tAnswer EXCEPT ![m] = answer]
      <4>1. CASE Tests!Run.wrong
        BY <2>1, <4>1 DEF Tests!Parse, Tests!Answers
      <4>2. CASE ~ Tests!Run.wrong /\ Tests!Run.list
        BY <2>1, <4>2 DEF Tests!Parse, Tests!Answers
      <4>3. CASE ~ Tests!Run.wrong /\ ~ Tests!Run.list
        BY <2>1, <4>3 DEF Tests!Parse, Tests!Answers
      <4> QED BY <4>1, <4>2, <4>3
    <3> QED BY <3>1, <3>2
  <2>2. CASE Tests!NothingToRun(m)
    BY <2>2 DEF Tests!NothingToRun, Tests!TestGoto, Tests!Answers, Tests!constant
  <2> QED BY <2>1, <2>2
<1>2. PICK to \in {"returned", "views"}, answer \in {"none", "error", "listed"} :
            /\ tPc' = [tPc EXCEPT ![m] = to] /\ tAnswer' = [tAnswer EXCEPT ![m] = answer]
            /\ to = "views" => ~ Tests!Refused /\ ~ Tests!Run.list
  BY <1>1
<1>3. Tests!Run' = Tests!Run /\ Tests!Refused' = Tests!Refused /\ Mine(m)' = Mine(m) /\ machines' = machines
  BY <1>1, LineIsFixed
<1>4. tPc'[m] = to /\ tAnswer'[m] = answer
  BY <1>2 DEF TestInv, TestTypes
<1>5. \A k \in 1 .. machines : k # m => tPc'[k] = tPc[k] /\ tAnswer'[k] = tAnswer[k]
  BY <1>2 DEF TestInv, TestTypes
<1>6. TestTypes'
  BY <1>1, <1>2, <1>3, <1>4, <1>5 DEF TestInv, TestTypes
<1>7. Going(m)'
  BY <1>2, <1>3, <1>4 DEF Going
<1>8. Meant => Progress(m)'
  <2>1. Meant => \A t \in Mine(m) : ran[t] = 0
    BY <1>1 DEF TestInv, Progress
  <2> QED BY <1>1, <1>3, <1>4, <2>1 DEF Progress
<1> QED BY <1>1, <1>5, <1>6, <1>7, <1>8, StepOfOne

LEMMA ViewsProgress ==
    ASSUME TestInv, NEW m \in 1 .. machines, Tests!ensureViews(m)
    PROVE  TestInv'
<1>1. /\ UNCHANGED <<typed, machines, broken>> /\ UNCHANGED <<red, ran, tAnswer>>
      /\ tPc[m] = "views" /\ tPc' = [tPc EXCEPT ![m] = "test"]
      /\ calls' = [calls EXCEPT ![m] = IF Tests!Run.sharded THEN Tests!shardTests(m)
                                       ELSE <<Tests!TagArgs \o Tests!RestArgs \o Tests!Packages>>]
  BY DEF Tests!ensureViews, Tests!TestGoto, Tests!constant
<1>2. PICK plan : plan = IF Tests!Run.sharded THEN Tests!shardTests(m)
                         ELSE <<Tests!TagArgs \o Tests!RestArgs \o Tests!Packages>>
  OBVIOUS
<1>3. calls' = [calls EXCEPT ![m] = plan]
  BY <1>1, <1>2
<1>4. Tests!Run' = Tests!Run /\ Tests!Refused' = Tests!Refused /\ Mine(m)' = Mine(m) /\ machines' = machines
  BY <1>1, LineIsFixed
<1>5. tPc'[m] = "test" /\ calls'[m] = plan /\ DOMAIN calls' = 1 .. machines
  BY <1>1, <1>3 DEF TestInv, TestTypes
<1>6. \A k \in 1 .. machines : k # m => tPc'[k] = tPc[k] /\ calls'[k] = calls[k]
  BY <1>1, <1>3 DEF TestInv, TestTypes
<1>7. tAnswer[m] # "ok"
  BY <1>1 DEF TestInv, TestTypes
<1>8. TestTypes'
  BY <1>1, <1>4, <1>5, <1>6, <1>7 DEF TestInv, TestTypes
<1>9. Going(m)'
  <2>1. Going(m)
    BY DEF TestInv
  <2> QED BY <1>1, <1>4, <2>1 DEF Going
<1>10. ASSUME Meant PROVE Progress(m)'
  <2>1. \A t \in Mine(m) : ran[t] = 0
    BY <1>1, <1>10 DEF TestInv, Progress
  <2>2. Divides(plan, Mine(m))
    <3>1. CASE Tests!Run.sharded
      BY <1>2, <1>10, <3>1, PlanOfMachine DEF TestInv, TestTypes
    <3>2. CASE ~ Tests!Run.sharded
      <4>1. m = 1
        BY <3>2 DEF TestInv, TestTypes
      <4> QED BY <1>2, <1>10, <3>2, <4>1, PlanOfOne
    <3> QED BY <3>1, <3>2
  <2>3. Mine(m) \subseteq Suite
    BY <1>10, WantedAreTests DEF Mine
  <2>4. ToRun(m)' = Mine(m)
    <3>1. ASSUME NEW t PROVE t \in ToRun(m)' <=> t \in Suite /\ \E i \in DOMAIN plan : t \in Tests!Tests(plan[i])
      BY <1>5 DEF ToRun
    <3>2. ASSUME NEW t PROVE t \in ToRun(m)' <=> t \in Mine(m)
      BY <2>2, <2>3, <3>1 DEF Divides
    <3> QED BY <3>2
  <2>5. Running(m)'
    BY <1>1, <1>4, <1>5, <2>1, <2>2, <2>4 DEF Running
  <2> QED BY <1>1, <1>5, <1>7, <2>5 DEF Progress
<1> QED BY <1>1, <1>6, <1>8, <1>9, <1>10, StepOfOne

LEMMA ReturnProgress ==
    ASSUME TestInv, NEW m \in 1 .. machines, Tests!Return(m)
    PROVE  TestInv'
<1>1. /\ UNCHANGED <<typed, machines, broken>> /\ UNCHANGED <<calls, red, ran>> /\ calls[m] = <<>>
      /\ tPc[m] = "test" /\ tPc' = [tPc EXCEPT ![m] = "returned"]
      /\ tAnswer' = [tAnswer EXCEPT ![m] = IF red[m] THEN "error" ELSE "ok"]
  BY DEF Tests!Return, Tests!TestGoto, Tests!Answers, Tests!constant
<1>2. Tests!Run' = Tests!Run /\ Tests!Refused' = Tests!Refused /\ Mine(m)' = Mine(m) /\ machines' = machines
  BY <1>1, LineIsFixed
<1>3. tPc'[m] = "returned" /\ tAnswer'[m] = (IF red[m] THEN "error" ELSE "ok")
  BY <1>1 DEF TestInv, TestTypes
<1>4. \A k \in 1 .. machines : k # m => tPc'[k] = tPc[k] /\ tAnswer'[k] = tAnswer[k]
  BY <1>1 DEF TestInv, TestTypes
<1>5. TestTypes'
  <2>1. (IF red[m] THEN "error" ELSE "ok") \in {"none", "error", "listed", "ok"}
    OBVIOUS
  <2> QED BY <1>1, <1>2, <1>3, <1>4, <2>1 DEF TestInv, TestTypes
<1>6. Going(m)'
  <2>1. Going(m)
    BY DEF TestInv
  <2> QED BY <1>1, <1>2, <2>1 DEF Going
<1>7. ASSUME Meant PROVE Progress(m)'
  <2>1. Running(m)
    BY <1>1, <1>7 DEF TestInv, Progress
  <2>2. ToRun(m) = {}
    BY <1>1 DEF ToRun
  <2>3. ~ red[m] => \A t \in Mine(m) : ran[t] = 1 /\ t \notin broken
    BY <2>1, <2>2 DEF Running
  <2>4. tAnswer'[m] = "ok" => ~ red[m]
    BY <1>3
  <2> QED BY <1>1, <1>2, <1>3, <2>3, <2>4 DEF Progress
<1> QED BY <1>1, <1>4, <1>5, <1>6, <1>7, StepOfOne

\* The calls that are left, after the first of them.
LEMMA LeftAfterCall ==
    ASSUME NEW plan, NEW S, Divides(plan, S), plan # <<>>, NEW first, first = Tests!Tests(Head(plan))
    PROVE  Divides(Tail(plan), S \ first) /\ first \subseteq S
<1>1. PICK n \in Nat : n = Len(plan)
  BY DEF Divides
<1>2. plan \in Seq(Seq(Tests!Argument)) /\ DOMAIN plan = 1 .. n
  BY <1>1 DEF Divides
<1>3. n # 0
  BY <1>1, <1>2, EmptySeq
<1>4. PICK rest : rest = Tail(plan)
  OBVIOUS
<1>5. /\ rest \in Seq(Seq(Tests!Argument)) /\ Len(rest) = n - 1 /\ DOMAIN rest = 1 .. n - 1
      /\ \A i \in 1 .. n - 1 : rest[i] = plan[i + 1]
  <2>1. rest \in Seq(Seq(Tests!Argument)) /\ Len(rest) = n - 1 /\ \A i \in 1 .. Len(rest) : rest[i] = plan[i + 1]
    BY <1>1, <1>2, <1>4, HeadTailProperties
  <2> QED BY <1>3, <2>1
<1>6. first = Tests!Tests(plan[1])
  BY <1>1, <1>2, <1>3
<1>7. 1 \in 1 .. n /\ \A i \in 1 .. n - 1 : i + 1 \in 1 .. n /\ i + 1 # 1
  BY <1>3
<1>8. \A i, j \in 1 .. n : i # j => Tests!Tests(plan[i]) \cap Tests!Tests(plan[j]) = {}
  BY <1>2 DEF Divides
<1>9. \A i \in 1 .. n : Tests!Tests(plan[i]) \subseteq S
  BY <1>2 DEF Divides
<1>10. \A i \in 1 .. n - 1 : Tests!Tests(rest[i]) \subseteq S \ first
  <2> SUFFICES ASSUME NEW i \in 1 .. n - 1 PROVE Tests!Tests(rest[i]) \subseteq S \ first
    OBVIOUS
  <2>1. Tests!Tests(plan[i + 1]) \cap first = {} /\ Tests!Tests(plan[i + 1]) \subseteq S
    BY <1>6, <1>7, <1>8, <1>9
  <2> QED BY <1>5, <2>1
<1>11. \A t \in S \ first : \E i \in 1 .. n - 1 : t \in Tests!Tests(rest[i])
  <2> SUFFICES ASSUME NEW t \in S \ first PROVE \E i \in 1 .. n - 1 : t \in Tests!Tests(rest[i])
    OBVIOUS
  <2>1. PICK i \in 1 .. n : t \in Tests!Tests(plan[i])
    BY <1>2 DEF Divides
  <2>2. i # 1
    BY <1>6, <2>1
  <2>3. i - 1 \in 1 .. n - 1 /\ (i - 1) + 1 = i
    BY <2>2
  <2> QED BY <1>5, <2>1, <2>3
<1>12. \A i, j \in 1 .. n - 1 : i # j => Tests!Tests(rest[i]) \cap Tests!Tests(rest[j]) = {}
  <2> SUFFICES ASSUME NEW i \in 1 .. n - 1, NEW j \in 1 .. n - 1, i # j PROVE Tests!Tests(rest[i]) \cap Tests!Tests(rest[j]) = {}
    OBVIOUS
  <2>1. i + 1 # j + 1
    OBVIOUS
  <2> QED BY <1>5, <1>7, <1>8, <2>1
<1>13. Divides(rest, S \ first)
  BY <1>5, <1>10, <1>11, <1>12 DEF Divides
<1>14. first \subseteq S
  BY <1>6, <1>7, <1>9
<1> QED BY <1>4, <1>13, <1>14

LEMMA CallProgress ==
    ASSUME TestInv, NEW m \in 1 .. machines, NEW starts \in BOOLEAN, Tests!goTest(m, starts)
    PROVE  TestInv'
<1>1. PICK tests, first : /\ first = Tests!Tests(Head(calls[m])) /\ tests = IF starts THEN first ELSE {}
  OBVIOUS
<1>2. /\ UNCHANGED <<typed, machines, broken>> /\ UNCHANGED <<tPc, tAnswer>> /\ tPc[m] = "test" /\ calls[m] # <<>>
      /\ ran' = [t \in Suite |-> IF t \in tests THEN ran[t] + 1 ELSE ran[t]]
      /\ red' = [red EXCEPT ![m] = red[m] \/ ~ starts \/ tests \cap broken # {}]
      /\ calls' = [calls EXCEPT ![m] = Tail(calls[m])]
  BY <1>1 DEF Tests!goTest, Tests!constant
<1>3. Tests!Run' = Tests!Run /\ Tests!Refused' = Tests!Refused /\ Mine(m)' = Mine(m) /\ machines' = machines
  BY <1>2, LineIsFixed
<1>4. PICK plan, rest, fails : /\ plan = calls[m] /\ rest = Tail(plan)
                               /\ fails = (red[m] \/ ~ starts \/ tests \cap broken # {})
  OBVIOUS
<1>5. red' = [red EXCEPT ![m] = fails] /\ calls' = [calls EXCEPT ![m] = rest] /\ red[m] \in BOOLEAN /\ fails \in BOOLEAN
  BY <1>2, <1>4 DEF TestInv, TestTypes
<1>6. red'[m] = fails /\ calls'[m] = rest /\ DOMAIN calls' = 1 .. machines
  BY <1>5 DEF TestInv, TestTypes
<1>7. \A k \in 1 .. machines : k # m => red'[k] = red[k] /\ calls'[k] = calls[k]
  BY <1>5 DEF TestInv, TestTypes
<1>8. ran' \in [Suite -> Nat]
  BY <1>2 DEF TestInv, TestTypes
<1>9. TestTypes'
  BY <1>2, <1>3, <1>5, <1>6, <1>8 DEF TestInv, TestTypes
<1>10. Going(m)'
  <2>1. Going(m)
    BY DEF TestInv
  <2> QED BY <1>2, <1>3, <2>1 DEF Going
<1>11. ASSUME Meant
       PROVE  /\ Divides(rest, ToRun(m) \ first) /\ first \subseteq ToRun(m) /\ ToRun(m) \subseteq Mine(m)
              /\ Mine(m) \subseteq Suite /\ Running(m)
  <2>1. Running(m)
    BY <1>2, <1>11 DEF TestInv, Progress
  <2>2. Divides(plan, ToRun(m)) /\ ToRun(m) \subseteq Mine(m)
    BY <1>4, <2>1 DEF Running
  <2>3. Mine(m) \subseteq Suite
    BY <1>11, WantedAreTests DEF Mine
  <2> QED BY <1>1, <1>2, <1>4, <2>1, <2>2, <2>3, LeftAfterCall
<1>12. ASSUME Meant PROVE Progress(m)'
  <2>1. PICK left, mine : left = ToRun(m) /\ mine = Mine(m)
    OBVIOUS
  <2>2. Divides(rest, left \ first) /\ first \subseteq left /\ left \subseteq mine /\ mine \subseteq Suite
    BY <1>11, <1>12, <2>1
  <2>3. ToRun(m)' = left \ first
    <3>1. ASSUME NEW t PROVE t \in ToRun(m)' <=> t \in Suite /\ \E i \in DOMAIN rest : t \in Tests!Tests(rest[i])
      BY <1>6 DEF ToRun
    <3>2. ASSUME NEW t PROVE t \in ToRun(m)' <=> t \in left \ first
      BY <2>2, <3>1 DEF Divides
    <3> QED BY <3>2
  <2>4. \A t \in left : ran[t] = 0
    BY <1>11, <1>12, <2>1 DEF Running
  <2>5. ~ red[m] => \A t \in mine \ left : ran[t] = 1 /\ t \notin broken
    BY <1>11, <1>12, <2>1 DEF Running
  <2>6. \A t \in Suite : ran'[t] = IF t \in tests THEN ran[t] + 1 ELSE ran[t]
    BY <1>2
  <2>7. \A t \in left \ first : ran'[t] = 0
    BY <1>1, <2>2, <2>4, <2>6
  <2>8. ~ red'[m] => \A t \in mine \ (left \ first) : ran'[t] = 1 /\ t \notin broken
    <3> SUFFICES ASSUME ~ red'[m], NEW t \in mine, t \notin left \/ t \in first PROVE ran'[t] = 1 /\ t \notin broken
      BY <2>2
    <3>1. ~ red[m] /\ starts /\ tests \cap broken = {}
      BY <1>4, <1>6
    <3>2. tests = first
      BY <1>1, <3>1
    <3>3. CASE t \in first
      BY <2>2, <2>4, <2>6, <3>1, <3>2, <3>3
    <3>4. CASE t \notin first
      BY <2>2, <2>5, <2>6, <3>1, <3>2, <3>4
    <3> QED BY <3>3, <3>4
  <2>9. Running(m)'
    BY <1>2, <1>3, <1>6, <2>1, <2>2, <2>3, <2>7, <2>8 DEF Running
  <2>10. tAnswer'[m] # "ok" /\ tPc'[m] = "test"
    BY <1>2 DEF TestInv, TestTypes
  <2> QED BY <2>9, <2>10 DEF Progress
<1>13. Meant => \A t \in Suite : ran'[t] = ran[t] \/ t \in Mine(m)
  <2> SUFFICES ASSUME Meant, NEW t \in Suite PROVE ran'[t] = ran[t] \/ t \in Mine(m)
    OBVIOUS
  <2>1. tests \subseteq Mine(m)
    BY <1>1, <1>11
  <2> QED BY <1>2, <2>1
<1> QED BY <1>2, <1>7, <1>9, <1>10, <1>12, <1>13, StepOfOne

LEMMA TestSteps == TestInv /\ [Tests!Next]_testRun => TestInv'
<1> SUFFICES ASSUME TestInv, [Tests!Next]_testRun PROVE TestInv'
  OBVIOUS
<1>1. CASE Tests!Next
  <2>1. PICK m \in 1 .. machines :
           \/ Tests!Parse(m) \/ Tests!ensureViews(m) \/ Tests!NothingToRun(m) \/ Tests!Return(m)
           \/ \E starts \in BOOLEAN : Tests!goTest(m, starts)
    BY <1>1 DEF Tests!Next, Tests!Machines
  <2> QED BY <2>1, ParseProgress, ViewsProgress, ReturnProgress, CallProgress
<1>2. CASE UNCHANGED testRun
  <2>1. /\ UNCHANGED <<typed, machines, broken>> /\ UNCHANGED <<tPc, calls, red, ran, tAnswer>>
    BY <1>2 DEF testRun
  <2>2. 1 \in 1 .. machines
    BY DEF TestInv, TestTypes
  <2>3. TestTypes'
    <3>1. Tests!Run' = Tests!Run
      BY <2>1, LineIsFixed
    <3> QED BY <2>1, <3>1 DEF TestInv, TestTypes
  <2>4. Going(1)'
    <3>1. Tests!Run' = Tests!Run /\ Tests!Refused' = Tests!Refused /\ Going(1)
      BY <2>1, <2>2, LineIsFixed DEF TestInv
    <3> QED BY <2>1, <3>1 DEF Going
  <2>5. Meant => Progress(1)'
    BY <2>1, <2>2, OthersProgress DEF TestInv
  <2> QED BY <2>1, <2>2, <2>3, <2>4, <2>5, StepOfOne
<1> QED BY <1>1, <1>2

\* When all say so, the suite has been run.
LEMMA AllHaveRun == TestInv => Tests!SuiteIsRunOnce
<1> SUFFICES ASSUME TestInv, \A m \in Tests!Machines : tAnswer[m] = "ok", ~ Tests!Terminated(typed), Tests!Complete(typed),
                    Tests!Run.sharded => ~ Tests!NamesSubtests(typed)
             PROVE  /\ \A t \in Suite : ran[t] = IF t \in Tests!Wanted THEN 1 ELSE 0
                    /\ Tests!Wanted \cap broken = {}
  BY DEF Tests!SuiteIsRunOnce
<1>1. machines \in Nat \ {0} /\ \A m \in 1 .. machines : tAnswer[m] = "ok"
  BY DEF Tests!Machines, TestInv, TestTypes
<1>2. Meant
  <2>1. Going(1) /\ tAnswer[1] = "ok"
    BY <1>1 DEF TestInv
  <2> QED BY <2>1 DEF Meant, Going, TestInv, TestTypes
<1>3. ASSUME NEW t \in Tests!Wanted PROVE ran[t] = 1 /\ t \notin broken
  <2>1. Owner(t) \in 1 .. machines
    <3>1. CASE Tests!Run.sharded
      <4>1. PICK k : k = Tests!Place(t, Tests!Wanted) % machines
        OBVIOUS
      <4>2. k \in 0 .. machines - 1
        BY <1>1, <1>2, <4>1, OwnerIsOne
      <4>3. Owner(t) = k + 1
        BY <3>1, <4>1 DEF Owner
      <4> QED BY <1>1, <4>2, <4>3
    <3>2. CASE ~ Tests!Run.sharded
      BY <1>1, <3>2 DEF Owner
    <3> QED BY <3>1, <3>2
  <2>2. PICK m \in 1 .. machines : m = Owner(t)
    BY <2>1
  <2>3. t \in Mine(m)
    BY <2>2 DEF Mine
  <2>4. Progress(m) /\ tAnswer[m] = "ok"
    BY <1>1, <1>2 DEF TestInv
  <2> QED BY <2>3, <2>4 DEF Progress
<1>4. \A t \in Suite \ Tests!Wanted : ran[t] = 0
  BY <1>2 DEF TestInv
<1> QED BY <1>3, <1>4

\* For every suite, every line that is typed and any number of machines: when all of
\* them say the tests passed, each test the line asks for has been run once, by one
\* of them, no other has, and none of them fails (parseTestArgs, takeTags, takeRun,
\* shardTests and runTests of runtests.go).  That is so unless the line is divided and
\* its -run names subtests, holds a bare "--" or an -args, or leaves a value out:
\* there the code runs other tests, or none, and the statement is silent.
THEOREM SuiteRunsOnce == MCSpec => []SuiteIsRunOnce
<1> DEFINE Inv == of = "tests" => TestInv
<1>1. MCInit => Inv
  BY TestsStart DEF MCInit
<1>2. Inv /\ [MCNext]_all => Inv'
  <2> SUFFICES ASSUME Inv, [MCNext]_all, of' = "tests" PROVE TestInv'
    OBVIOUS
  <2>1. of = "tests" /\ [Tests!Next]_testRun
    BY DEF MCNext, all, testRun
  <2> QED BY <2>1, TestSteps
<1>3. Inv => SuiteIsRunOnce
  BY AllHaveRun DEF SuiteIsRunOnce
<1> QED BY <1>1, <1>2, <1>3, PTL DEF MCSpec
=============================================================================
