-------------------------------- MODULE Kyse ---------------------------------
(***************************************************************************)
(* A view from its source to a page: the source is read a line at a time,    *)
(* the Go is generated a node at a time, and the page it draws is followed   *)
(* through whichever branches and rounds its data takes.                     *)
(***************************************************************************)
EXTENDS KyseGenerate

CONSTANTS
    Families,    \* what the views checked are made of
    Alphabet,    \* the lines of a family, by where the reader is
    MaxLines,    \* bound: how many lines such a view has, the clause above it apart
    Careful,     \* the families whose views are written without a mistake
    Kinds,       \* what a view of a family is, see KyseGenerate's view
    MaxRounds    \* bound: how often a loop goes round

VARIABLES
    family,
    page,        \* where the page stands
    moved        \* a loop went round, or was left, elsewhere than where it began

ASSUME RoundsAssumption == MaxRounds \in Nat \ {0}

vars == <<parser, generator, family, page, moved>>

KyseInit ==
    /\ Init /\ GenerateInit
    /\ family \in Families /\ view \in Kinds[family] /\ page = Fresh /\ moved = FALSE

\* The developer's next line, and the end of the file.
Write ==
    /\ pc = "parse" /\ mode \notin {"refused", "ended", "parsed"}
    /\ Len(lines) < MaxLines[family]
    /\ family \in Careful => errs = <<>>
    /\ \E l \in Alphabet[family][mode] : Read(l)
    /\ UNCHANGED <<generator, family, page, moved>>

Parse ==
    /\ pc = "parse" /\ (EndOfSource \/ Assemble)
    /\ UNCHANGED <<generator, family, page, moved>>

Compile == Generate /\ UNCHANGED <<family, page, moved>>

-----------------------------------------------------------------------------
(* The page.  Its markup is read as it is drawn; which branches it takes and  *)
(* how often its loops go round is the data's.                              *)
drawing == <<view, refusals, malformed, needs, temps, code, drawn, scan>>
Drawing(i) ==
    /\ pc = "page" /\ at = i /\ i # 0
    /\ UNCHANGED <<pc, part, family, drawing>> /\ UNCHANGED parser
Flow(i) == Drawing(i) /\ UNCHANGED page

\* Go refuses a jump outside a loop.
InLoop(i) == \E o \in Around(i) :
                /\ nodes[o].name \in Loops
                /\ ~ (nodes[o].name = "forelse" /\ EmptyOf(o) # 0 /\ EmptyOf(o) < i)
Builds == \A i \in At("do", "break") \cup At("do", "continue") : InLoop(i)

Request ==
    /\ pc = "written" /\ Builds
    /\ pc' = "page"
    /\ part' = IF Sectioned THEN NextSection(0) ELSE 0
    /\ at' = IF Sectioned /\ NextSection(0) = 0 THEN 0 ELSE NextIn(part', part')
    /\ UNCHANGED <<frames, page, moved, family, drawing>> /\ UNCHANGED parser

DrawMarkup(i) ==
    /\ Drawing(i) /\ nodes[i].k \in {"text", "echo", "raw", "do"}
    /\ nodes[i].name \in {"", "yield", "include", "csrf", "attributes", "extends"}
    /\ page' = CASE nodes[i].k = "text" -> [Feed(page, nodes[i].body) EXCEPT !.lateEquiv = FALSE]
                 [] nodes[i].k = "echo" -> AfterValue(page)
                 [] nodes[i].name = "attributes" -> Settled(page)
                 [] OTHER -> Opaque(page)
    /\ at' = After(i)
    /\ UNCHANGED <<frames, moved>>

Branches(o) == {i \in At("do", "else") \cup At("do", "elseif") : o \in Above(i)}
Always(o) == \E i \in Branches(o) : nodes[i].name = "else"
Enter(o, rounds) == Append(frames, [at |-> o, left |-> rounds, opened |-> page])

\* The loop of frame f goes round again, or is over.
Again(f) ==
    /\ frames[f].left > 1 /\ at' = After(frames[f].at)
    /\ frames' = [SubSeq(frames, 1, f) EXCEPT ![f].left = @ - 1]
Over(f) == at' = After(CloseOf(frames[f].at)) /\ frames' = SubSeq(frames, 1, f - 1)
Elsewhere(f) == Settled(page) # Settled(frames[f].opened)

DrawIf(i) ==
    /\ Flow(i) /\ nodes[i].k = "open" /\ nodes[i].name = "if"
    /\ \/ \E branch \in {i} \cup Branches(i) : at' = After(branch) /\ frames' = Enter(i, 0)
       \/ ~ Always(i) /\ at' = After(CloseOf(i)) /\ UNCHANGED frames
    /\ UNCHANGED moved

DrawElse(i) ==
    /\ Flow(i) /\ i \in At("do", "else") \cup At("do", "elseif")
    /\ Over(Len(frames))
    /\ UNCHANGED moved

\* A loop goes round, or it has nothing to go round for.
DrawLoop(i) ==
    /\ Flow(i) /\ nodes[i].k = "open" /\ nodes[i].name \in Loops
    /\ LET none == IF nodes[i].name = "forelse" THEN EmptyOf(i) ELSE 0 IN
       \/ at' = After(i) /\ frames' = Enter(i, MaxRounds)
       \/ none # 0 /\ at' = After(none) /\ frames' = Enter(i, 0)
       \/ none = 0 /\ at' = After(CloseOf(i)) /\ UNCHANGED frames
    /\ UNCHANGED moved

DrawNothing(i) ==
    /\ Flow(i) /\ nodes[i].k = "open" /\ nodes[i].name = "section"
    /\ at' = After(CloseOf(i))
    /\ UNCHANGED <<frames, moved>>

DrawEnd(i) ==
    /\ Flow(i) /\ (nodes[i].k = "close" \/ i \in At("do", "empty"))
    /\ \/ Again(Len(frames)) /\ moved' = (moved \/ Elsewhere(Len(frames)))
       \/ Over(Len(frames)) /\ UNCHANGED moved

\* The innermost loop that is going round.
Loop == CHOOSE f \in DOMAIN frames : frames[f].left > 0 /\ \A g \in DOMAIN frames : g > f => frames[g].left = 0

DrawJump(i) ==
    /\ Flow(i) /\ i \in At("do", "break") \cup At("do", "continue")
    /\ \/ nodes[i].name = "continue" /\ Again(Loop)
       \/ Over(Loop)
    /\ moved' = (moved \/ Elsewhere(Loop))

\* A section is over, and the layout goes on to the next one it yields.
DrawPart ==
    /\ pc = "page" /\ at = 0 /\ part # 0
    /\ part' = NextSection(part)
    /\ at' = IF part' = 0 THEN 0 ELSE NextIn(part', part')
    /\ page' = Fresh
    /\ UNCHANGED <<pc, frames, moved, family, drawing>> /\ UNCHANGED parser

Draw ==
    \/ Request \/ DrawPart
    \/ \E i \in DOMAIN nodes :
        DrawMarkup(i) \/ DrawIf(i) \/ DrawElse(i) \/ DrawLoop(i) \/ DrawNothing(i) \/ DrawEnd(i) \/ DrawJump(i)

KyseNext == Write \/ Parse \/ Compile \/ Draw

KyseSpec == KyseInit /\ [][KyseNext]_vars
=============================================================================
