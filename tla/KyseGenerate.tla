---------------------------- MODULE KyseGenerate -----------------------------
(***************************************************************************)
(* The Go generator of a view, a node at a time: the escape of every value   *)
(* is chosen from where the scanner stands, and the scanner is put back      *)
(* together where branches and loops end.                                    *)
(***************************************************************************)
EXTENDS KyseParser, KyseMarkup

-----------------------------------------------------------------------------
(***************************************************************************)
(* The Go a view compiles to, as far as its names go, and the check of them  *)
(* that is made on every file before it is written.                          *)
(*                                                                         *)
(* The code is a sequence of statements.  A statement reads the names `uses`  *)
(* and declares `declares`: "open" opens a scope with them in it, "declare"   *)
(* declares in the scope it is in, "block" is a scope of its own, and "close" *)
(* ends the innermost one.                                                  *)
(***************************************************************************)
\* A name of the compiler's own, under the prefix no view may use; the n-th of
\* its temporaries; and a name the view wrote or Go did.
Own(name) == [own |-> TRUE, name |-> name, n |-> 0]
Temp(n) == [own |-> TRUE, name |-> "v", n |-> n]
Theirs(name) == [own |-> FALSE, name |-> name, n |-> 0]
ViewData == Theirs("d")

Statement(op, declares, uses) == [op |-> op, declares |-> declares, uses |-> uses]
Opens(declares, uses) == Statement("open", declares, uses)
Declares(declares, uses) == Statement("declare", declares, uses)
Block(declares, uses) == Statement("block", declares, uses)
Closes == Statement("close", {}, {})

-----------------------------------------------------------------------------
Visible(scopes) == UNION Range(scopes)

\* A name of the compiler that nothing declares where it is read.
Undeclared(scopes, uses) == {name \in uses : name.own /\ name \notin Visible(scopes)}

\* A local name that is neither the compiler's nor a word of the view.
Invented(declares, words) ==
    {name \in declares : ~ name.own /\ name # ViewData /\ name.name \notin words}

\* One statement: the scopes after it, and what is wrong with it.
Checked(c, s, words) ==
    LET inside == Append(c.scopes, s.declares)
        outer == Len(c.scopes)
        scopes == CASE s.op = "open" -> inside
                    [] s.op = "close" -> SubSeq(c.scopes, 1, outer - 1)
                    [] s.op = "declare" -> [c.scopes EXCEPT ![outer] = @ \cup s.declares]
                    [] s.op = "block" -> c.scopes
        seen == IF s.op = "block" THEN inside ELSE c.scopes
    IN [scopes |-> scopes,
        problems |-> c.problems \cup Undeclared(seen, s.uses) \cup Invented(s.declares, words)]

\* The names of the compiler that the view wrote.
Reserved(words, prefixed) == {Theirs(w) : w \in words \cap prefixed}

CheckScopes(statements, imports, words, prefixed) ==
    LET start == [scopes |-> <<imports>>, problems |-> Reserved(words, prefixed)]
        step(c, s) == Checked(c, s, words)
    IN FoldLeft(step, start, statements).problems

-----------------------------------------------------------------------------
(* The generator.                                                          *)

VARIABLES
    view,       \* what it is: a component, one whose layout declares a type
    pc,         \* "parse", "generate", "written", "refused", and the page's
    part, at,   \* the section being generated, 0 for the body; the node, 0 at its end
    scan,       \* generator.scan
    frames,     \* the blocks being generated, each with the position it opened at
    drawn,      \* the escape of every value written so far
    refusals,   \* generator.errs
    malformed,  \* Go was written that does not parse
    needs,      \* generator.checks, generator.wraps
    temps, code \* generator.temps, generator.out

generator == <<view, pc, part, at, scan, frames, drawn, refusals, malformed, needs, temps, code>>

CONSTANTS
    Function,    \* the name of the Go function it compiles to
    Universe,    \* goUniverse: the names Go itself declares
    Published,   \* republishedPackages: the packages a view calls without importing
    Names,       \* the words Go accepts as an identifier
    Prefixed,    \* the words that begin with the compiler's prefix
    Imported     \* the names the view's own imports bind

GenerateInit ==
    /\ pc = "parse" /\ part = 0 /\ at = 0 /\ scan = Fresh /\ frames = <<>> /\ drawn = <<>>
    /\ refusals = {} /\ malformed = FALSE /\ needs = {} /\ temps = 0 /\ code = <<>>

Loops == {"foreach", "forelse", "for", "while"}

\* The blocks node i is in.
Around(i) ==
    {o \in DOMAIN nodes : nodes[o].k = "open" /\ o < i /\ i < CloseOf(o) /\ nodes[o].depth < nodes[i].depth}
Above(i) == {o \in Around(i) : nodes[o].depth + 1 = nodes[i].depth}

\* The words of the view: what its loops bind and its values call.
Words == {nodes[i].word : i \in DOMAIN nodes} \ {""}

\* publishedImports: the packages the view calls where no loop binds their name.
PublishedImports ==
    {p \in Published \ Imported :
        \E i \in DOMAIN nodes : /\ nodes[i].k \in {"echo", "raw"} /\ nodes[i].word = p
                                /\ \A o \in Around(i) : nodes[o].name \in Loops => nodes[o].word # p}

-----------------------------------------------------------------------------
(* What refuses a file before any of it is generated.                        *)
HasType == Draws.name # "" \/ view.inherited
DataReference == ~ HasType /\ \E i \in DOMAIN nodes : nodes[i].data

\* A name a @foreach or a @forelse may not bind.
LoopBinding(i) ==
    /\ nodes[i].k = "open" /\ nodes[i].name \in {"foreach", "forelse"} /\ nodes[i].word # ""
    /\ \/ nodes[i].word \in Universe \cup {Function} \cup Prefixed \cup PublishedImports
       \/ nodes[i].word \notin Names

\* An expression that is not Go, or does not end where it is written.
NotGo(i) == nodes[i].bad

YieldInsideASection == \E i \in At("do", "yield") : InSection(i)
PageDirectiveInAComponent ==
    view.component /\ \E i \in DOMAIN nodes : nodes[i].k = "do" /\ nodes[i].name \in {"csrf", "include", "yield"}

Validated ==
    /\ ~ DataReference
    /\ \A i \in DOMAIN nodes : ~ LoopBinding(i) /\ ~ NotGo(i)
    /\ ~ YieldInsideASection /\ ~ PageDirectiveInAComponent

-----------------------------------------------------------------------------
(* The order of the nodes: a component and a view with no layout are their    *)
(* body, and a view that extends one is its sections.                        *)
Least(set) == IF set = {} THEN 0 ELSE First0(set)
InPart(p, i) == IF p = 0 THEN i \in Outside ELSE p < i /\ i < CloseOf(p)
NextIn(p, i) == Least({j \in DOMAIN nodes : j > i /\ InPart(p, j)})
NextSection(p) == Least({s \in Sections : s > p})
Sectioned == ~ view.component /\ Extends # {}

Within == {Own("err"), Own("io"), Own("w")}
Page(data) == IF data THEN {Own("d")} ELSE {}

\* emitBody, emitComponent: what stands before the nodes.
Prologue ==
    LET typed == IF HasType THEN <<Declares({Own("d"), Own("ok")}, {Own("data"), Own("view")}),
                                   Declares({ViewData}, {Own("d")})>> ELSE <<>>
        layout == IF IsLayout THEN {Own("sections")} ELSE {}
    IN IF view.component
       THEN <<Opens(IF HasType THEN {Own("props")} ELSE {}, {Own("template")})>>
            \o (IF HasType THEN <<Declares({Own("d")}, {Own("props")}), Declares({ViewData}, {Own("d")})>> ELSE <<>>)
            \o <<Declares({Own("w")}, {Own("strings")}), Declares({Own("err")}, {})>>
       ELSE <<Opens({Own("w"), Own("data")} \cup layout, {Own("io"), Own("view")})>> \o typed
            \o (IF Sectioned THEN <<Declares({Own("sections")}, {Own("io")})>>
                ELSE <<Declares({Own("err")}, {})>>)

SectionOpens == <<Opens({Own("w")}, {Own("io")}), Declares({Own("err")}, {})>>
SectionCloses == <<Block({}, {Own("err")}), Closes>>

\* What stands after them, silenceUnused included.
Epilogue ==
    <<Block({}, IF view.component THEN {Own("err"), Own("template"), Own("w")}
                ELSE IF Sectioned THEN {Own("view"), Own("w"), Own("data"), Own("sections")} ELSE {Own("err")}),
      Closes,
      Block({}, {Own("template"), Own("io"), Own("view")} \cup (IF view.component THEN {Own("strings")} ELSE {}))>>

\* emitHeader: the packages the file imports.
GoImports ==
    {Own("template"), Own("io"), Own("view")}
    \cup (IF "checks" \in needs THEN {Own("errors")} ELSE {})
    \cup (IF "wraps" \in needs THEN {Own("fmt")} ELSE {})
    \cup (IF "checks" \in needs \/ view.component THEN {Own("strings")} ELSE {})
    \cup {Theirs(p) : p \in PublishedImports \cup Imported}

Start ==
    /\ pc = "parse" /\ Accepted
    /\ LET first == IF Sectioned THEN NextSection(0) ELSE 0 IN
       IF ~ Validated THEN pc' = "refused" /\ UNCHANGED <<part, at, code>>
       ELSE /\ pc' = "generate" /\ part' = first
            /\ at' = IF Sectioned /\ first = 0 THEN 0 ELSE NextIn(first, first)
            /\ code' = Prologue \o (IF first # 0 THEN SectionOpens ELSE <<>>)
    /\ UNCHANGED <<view, scan, frames, drawn, refusals, malformed, needs, temps>>
    /\ UNCHANGED parser

-----------------------------------------------------------------------------
Reaches(i) == /\ pc = "generate" /\ at = i /\ i # 0 /\ UNCHANGED <<view, pc, part>> /\ UNCHANGED parser
After(i) == NextIn(part, i)
Refuse(what) == refusals' = refusals \cup {Error(nodes[at].line, what)}
Emit(statements) == code' = code \o statements

\* directiveAfterMarkup: the place of a directive that the page would print.
Printed(i, j) ==
    LET body == nodes[i].body
        probe == Feed(scan, SubSeq(body, 1, j - 1)).state
        args == body[j] = "@("
        beside == \/ j > 1 /\ body[j - 1] = ">"
                  \/ j < Len(body) /\ body[j + 1] = "<"
    IN /\ body[j] \in {"@", "@("}
       /\ CASE probe \in {"comment", "markupDecl"} -> FALSE
            [] probe \in {"tagName", "beforeAttrName", "attrName", "afterAttrName",
                          "beforeAttrValue", "unquoted"} -> TRUE
            [] probe \in {"text", "tagOpen"} -> args \/ beside
            [] OTHER -> args

WriteText(i) ==
    /\ Reaches(i) /\ nodes[i].k = "text"
    /\ LET fed == Feed(scan, nodes[i].body) IN
       /\ scan' = [fed EXCEPT !.lateEquiv = FALSE]
       /\ refusals' = refusals
            \cup (IF \E j \in DOMAIN nodes[i].body : Printed(i, j) THEN {Error(nodes[i].line, "directive")} ELSE {})
            \cup (IF fed.lateEquiv THEN {Error(nodes[i].line, "http-equiv")} ELSE {})
    /\ Emit(<<Block({}, Within)>>)
    /\ at' = After(i)
    /\ UNCHANGED <<frames, drawn, malformed, needs, temps>>

\* The positions no value is written in, and the escape of the others.
Refused(s) ==
    \/ Position(s) \in {"attributeName", "unquotedValue", "code", "active", "addressOpen",
                        "elementName", "unknown"}
    \/ Position(s) = "jsonString" /\ s.value.escaped

Checks(p) == p = "trigger"
Wraps(p) == p \in {"url", "style"}
Written(p, n, data) ==
    LET temp == IF Checks(p) \/ Wraps(p) \/ p = "jsonString" THEN {Temp(n)} ELSE {}
        by == CASE Checks(p) -> {Own("view"), Own("strings"), Own("errors")}
                [] Wraps(p) -> {Own("view"), Own("fmt")}
                [] p = "body" -> {Own("template"), Own("view")}
                [] OTHER -> {Own("view")}
    IN Block(temp, Within \cup temp \cup by \cup Page(data))

\* A value inside quotes is part of the attribute from there on.
AfterValue(s) == IF s.state \in {"double", "single"} THEN ReadData(s) ELSE s

Echo(i) ==
    /\ Reaches(i) /\ nodes[i].k = "echo"
    /\ LET p == Position(scan) IN
       IF Refused(scan)
       THEN Refuse("position") /\ UNCHANGED <<drawn, needs, temps, code>>
       ELSE /\ drawn' = [j \in DOMAIN drawn \cup {i} |-> IF j = i THEN p ELSE drawn[j]]
            /\ needs' = needs \cup (IF Checks(p) THEN {"checks"} ELSE {}) \cup (IF Wraps(p) THEN {"wraps"} ELSE {})
            /\ temps' = IF Checks(p) \/ Wraps(p) \/ p = "jsonString" THEN temps + 1 ELSE temps
            /\ Emit(<<Written(p, temps + 1, nodes[i].data)>>)
            /\ refusals' = refusals
    /\ scan' = AfterValue(scan)
    /\ at' = After(i)
    /\ UNCHANGED <<frames, malformed>>

\* Markup this file does not read: it costs nothing between tags.
Opaque(s) == IF s.state = "text" THEN s ELSE Lost

Raw(i) ==
    /\ Reaches(i) /\ nodes[i].k = "raw"
    /\ scan' = Opaque(scan) /\ temps' = temps + 1
    /\ Emit(<<Block({Temp(temps + 1)}, Within \cup {Own("template"), Temp(temps + 1)} \cup Page(nodes[i].data))>>)
    /\ at' = After(i)
    /\ UNCHANGED <<frames, drawn, refusals, malformed, needs>>

-----------------------------------------------------------------------------
(* Directives.                                                              *)
Top == frames[Len(frames)]
InIf(i) == frames # <<>> /\ Top.name = "if" /\ Above(i) = {Top.at}

\* Mutant: a block ends where its last branch left the position.
Rejoin_Trusting(s, opened) == s

\* The position is put back where the block began, or given up.
Rejoin(s, opened) == IF Settled(s) = Settled(opened) THEN Settled(opened) ELSE Lost

CallsOut(i) ==
    /\ Reaches(i) /\ nodes[i].k = "do" /\ nodes[i].name \in {"yield", "include", "csrf"}
    /\ IF scan.state = "text" THEN UNCHANGED <<scan, refusals>>
       ELSE Refuse("inside a tag") /\ scan' = Lost
    /\ Emit(<<Block({}, {Own("err"), Own("view"), Own("w"),
                         IF nodes[i].name = "yield" THEN Own("sections") ELSE Own("data")})>>)
    /\ at' = After(i)
    /\ UNCHANGED <<frames, drawn, malformed, needs, temps>>

Attributes(i) ==
    /\ Reaches(i) /\ nodes[i].k = "do" /\ nodes[i].name = "attributes"
    /\ IF Position(scan) # "attributeName"
       THEN Refuse("attributes") /\ UNCHANGED <<scan, needs, temps, code>>
       ELSE /\ scan' = Settled(scan) /\ refusals' = refusals
            /\ needs' = needs \cup {"wraps"} /\ temps' = temps + 1
            /\ Emit(<<Written("url", temps + 1, nodes[i].data)>>)
    /\ at' = After(i)
    /\ UNCHANGED <<frames, drawn, malformed>>

\* The branch that ends here ran or did not, so the next one starts where it did.
Else(i) ==
    /\ Reaches(i) /\ nodes[i].k = "do" /\ nodes[i].name \in {"else", "elseif"}
    /\ IF InIf(i)
       THEN /\ scan' = Rejoin(scan, Top.opened)
            /\ malformed' = (malformed \/ Top.half = "else")
            /\ frames' = [frames EXCEPT ![Len(frames)].half = nodes[i].name]
            /\ Emit(<<Closes, Opens({}, Page(nodes[i].data))>>)
       ELSE malformed' = TRUE /\ UNCHANGED <<scan, frames, code>>
    /\ at' = After(i)
    /\ UNCHANGED <<drawn, refusals, needs, temps>>

\* @continue, @break, and what no case of the generator writes.
Jump(i) ==
    /\ Reaches(i) /\ nodes[i].k = "do" /\ nodes[i].name \in {"continue", "break", "extends"}
    /\ at' = After(i)
    /\ UNCHANGED <<scan, frames, drawn, refusals, malformed, needs, temps, code>>

\* The first @empty of a @forelse, or 0.
EmptyOf(o) ==
    Least({i \in At("do", "empty") : o \in Above(i)})

\* Mutant: the binding of a loop that names none is a name of Go's.
Binding_Spelled(o, n) == IF nodes[o].word = "" THEN Theirs("_v") ELSE Theirs(nodes[o].word)

Binding(o, n) == IF nodes[o].word = "" THEN Temp(n) ELSE Theirs(nodes[o].word)

\* A block opens.  @forelse is generated from its second half, when it has one.
Open(i) ==
    /\ Reaches(i) /\ nodes[i].k = "open" /\ nodes[i].name # "section"
    /\ LET name == nodes[i].name
           each == name \in {"foreach", "forelse"}
           late == name = "forelse" /\ EmptyOf(i) # 0
           n == IF each /\ nodes[i].word = "" THEN temps + 1 ELSE temps
           uses == Page(nodes[i].data)
           bound == CASE each -> {Binding(i, n)}
                      [] name = "for" /\ nodes[i].word # "" -> {Theirs(nodes[i].word)}
                      [] OTHER -> {}
       IN /\ frames' = Append(frames, [name |-> name, at |-> i, opened |-> scan, binding |-> bound,
                                       half |-> IF late THEN "empty" ELSE "items"])
          /\ temps' = n
          /\ Emit(CASE name = "forelse" /\ late -> <<Opens({}, uses)>>
                    [] name = "forelse" -> <<Opens({}, uses), Closes, Opens({}, {}), Opens(bound, uses)>>
                    [] OTHER -> <<Opens(bound, uses)>>)
          /\ at' = After(IF late THEN EmptyOf(i) ELSE i)
          /\ scan' = IF name = "forelse" /\ ~ late THEN Settled(scan) ELSE scan
    /\ UNCHANGED <<drawn, refusals, malformed, needs>>

\* A section inside another block has no case: nothing of it is written.
SkipSection(i) ==
    /\ Reaches(i) /\ nodes[i].k = "open" /\ nodes[i].name = "section"
    /\ at' = After(CloseOf(i))
    /\ UNCHANGED <<scan, frames, drawn, refusals, malformed, needs, temps, code>>

\* The half of a @forelse for no items ends where the block does; the other
\* half is generated next, and ends at the @empty.
SecondHalf(i) ==
    /\ Reaches(i) /\ nodes[i].k = "close" /\ Top.half = "empty"
    /\ scan' = Rejoin(scan, Top.opened)
    /\ frames' = [frames EXCEPT ![Len(frames)].half = "items"]
    /\ Emit(<<Closes, Opens({}, {}), Opens(Top.binding, Page(nodes[Top.at].data))>>)
    /\ at' = After(Top.at)
    /\ UNCHANGED <<drawn, refusals, malformed, needs, temps>>

EmptyHalf(i) ==
    /\ Reaches(i) /\ nodes[i].k = "do" /\ nodes[i].name = "empty"
    /\ LET ends == frames # <<>> /\ Top.name = "forelse" /\ EmptyOf(Top.at) = i IN
       /\ malformed' = (malformed \/ ~ ends)
       /\ at' = IF ends THEN CloseOf(Top.at) ELSE After(i)
    /\ UNCHANGED <<scan, frames, drawn, refusals, needs, temps, code>>

CloseBlock(i) ==
    /\ Reaches(i) /\ nodes[i].k = "close" /\ Top.half # "empty"
    /\ scan' = Rejoin(scan, Top.opened)
    /\ frames' = SubSeq(frames, 1, Len(frames) - 1)
    /\ Emit(IF Top.name = "forelse" THEN <<Closes, Closes>> ELSE <<Closes>>)
    /\ at' = After(i)
    /\ UNCHANGED <<drawn, refusals, malformed, needs, temps>>

-----------------------------------------------------------------------------
\* A section ends where it began, between tags, and the next one follows.
EndOfPart ==
    /\ pc = "generate" /\ at = 0
    /\ LET next == IF part = 0 THEN 0 ELSE NextSection(part) IN
       /\ refusals' = IF part # 0 /\ scan.state # "text"
                      THEN refusals \cup {Error(nodes[part].line, "section")} ELSE refusals
       /\ Emit((IF part # 0 THEN SectionCloses ELSE <<>>)
               \o (IF next # 0 THEN SectionOpens ELSE Epilogue))
       /\ part' = next
       /\ at' = IF next # 0 THEN NextIn(next, next) ELSE 0
       /\ scan' = Fresh
       /\ pc' = IF next # 0 THEN pc ELSE "format"
    /\ UNCHANGED <<view, frames, drawn, malformed, needs, temps>> /\ UNCHANGED parser

\* The end of Generate: the refusals, format.Source, and the check of the names.
Problems == CheckScopes(code, GoImports, Words, Prefixed)

Format ==
    /\ pc = "format"
    /\ pc' = IF refusals # {} \/ malformed \/ Problems # {} THEN "refused" ELSE "written"
    /\ UNCHANGED <<view, part, at, scan, frames, drawn, refusals, malformed, needs, temps, code>>
    /\ UNCHANGED parser

Generate ==
    \/ Start \/ EndOfPart \/ Format
    \/ \E i \in DOMAIN nodes :
          \/ WriteText(i) \/ Echo(i) \/ Raw(i) \/ CallsOut(i) \/ Attributes(i) \/ Else(i) \/ Jump(i)
          \/ Open(i) \/ SkipSection(i) \/ SecondHalf(i) \/ EmptyHalf(i) \/ CloseBlock(i)
=============================================================================
