----------------------------- MODULE KyseParser ------------------------------
(***************************************************************************)
(* The parser of a view, a line at a time.  What a line is has been decided  *)
(* by the characters on it, and a line here is what was decided: a record of *)
(*   is     "blank", "tag", "package", "import", "importBlock", ")", "markup",   *)
(*          "directive", "closer", "comment" (one opens and does not close), *)
(*          "uncomment" (the end of one), "continues" (the end of a value    *)
(*          that began on an earlier line), "go" (a declaration)             *)
(*   name   the directive                 form   "whole", or its arguments   *)
(*   word   the name a loop binds                are "glued" or "broken"     *)
(*   items  the markup and values on it   rest   markup follows the closer   *)
(*   bad    the line is spoiled           opens  a value does not end on it  *)
(*   decl   the Go declaration            after  what follows a comment      *)
(***************************************************************************)
EXTENDS Naturals, Sequences, FiniteSets, SequencesExt, TLC

-----------------------------------------------------------------------------
(***************************************************************************)
(* The Go type a view draws, chosen from what its @go blocks declare.       *)
(*                                                                         *)
(* A declaration is a record: `is` is "struct", "alias", "generic" (a type  *)
(* parameter list, or a pointer to a struct), "interface" or "assert" (var _ *)
(* I = Name{}) or "broken" (a line Go cannot parse); `name` is the type it   *)
(* declares or asserts; `embeds` whether the struct embeds view.Page;        *)
(* `names` the types its fields name; `line` where it is.                   *)
(***************************************************************************)
NoName == ""
NoType == [name |-> NoName, line |-> 0, ambiguous |-> {}]

\* A choice among the declarations in a set is of the first one there.
First0(set) == CHOOSE i \in set : \A j \in set : i <= j
Chosen(decls, some) == [NoType EXCEPT !.name = decls[First0(some)].name, !.line = decls[First0(some)].line]

\* The blocks are Go, and every type in them has a name of its own.
Readable(decls) == \A i \in DOMAIN decls : decls[i].is \notin {"broken", "generic"}

OfKind(decls, kinds) == {i \in DOMAIN decls : decls[i].is \in kinds}

\* The types a view could draw.
Types(decls) == OfKind(decls, {"struct", "alias"})

Marked(decls, d) ==
    \/ d.is = "struct" /\ d.embeds
    \/ \E i \in DOMAIN decls : decls[i].is = "assert" /\ decls[i].name = d.name

\* Another struct of the blocks names d in a field.
Referenced(decls, d) ==
    \E i \in DOMAIN decls :
        decls[i].is = "struct" /\ decls[i].name # d.name /\ d.name \in decls[i].names

\* firstType: what a block Go cannot parse is read for, a line at a time.
FirstType(decls, kinds) ==
    IF OfKind(decls, kinds) = {} THEN NoType ELSE Chosen(decls, OfKind(decls, kinds))

\* A page that marks no type draws the one no other type is made of.
Unmarked(decls) ==
    LET free == {i \in Types(decls) : ~ Referenced(decls, decls[i])}
        among == IF free = {} THEN Types(decls) ELSE free
    IN [Chosen(decls, among) EXCEPT !.ambiguous = IF Cardinality(free) = 1 THEN {} ELSE among]

\* A component's props and a partial's data: the first struct, or the first alias.
First(decls) ==
    LET struct == FirstType(decls, {"struct"}) IN
    IF struct # NoType THEN struct ELSE FirstType(decls, {"alias"})

PageChoice(decls, extends) ==
    LET marked == {i \in Types(decls) : Marked(decls, decls[i])}
        struct == FirstType(decls, {"struct", "generic"})
    IN CASE ~ Readable(decls) -> IF struct # NoType THEN struct ELSE FirstType(decls, {"alias"})
         [] Readable(decls) /\ marked # {} ->
                [Chosen(decls, marked) EXCEPT !.ambiguous = IF Cardinality(marked) = 1 THEN {} ELSE marked]
         [] OTHER -> IF Cardinality(Types(decls)) > 1 /\ extends THEN Unmarked(decls) ELSE First(decls)

\* A layout draws the interface it declares, or view.Layout.
RenderType(decls, extends, layout) ==
    LET interface == FirstType(decls, {"interface"}) IN
    IF ~ layout THEN PageChoice(decls, extends)
    ELSE IF interface # NoType THEN interface ELSE [NoType EXCEPT !.name = "view.Layout"]

\* The word after `type` in a generic declaration is no name Go can assert to.
Usable(decls, choice) ==
    choice.line = 0 \/ \A i \in DOMAIN decls : decls[i].line = choice.line => decls[i].is # "generic"

-----------------------------------------------------------------------------
(* The parser.                                                             *)

VARIABLES
    lines,    \* p.lines, as far as they are read
    mode,     \* where the reader is
    since,    \* the line the block of Go, the comment or the value began on
    open,     \* p.open: the blocks being read, outermost first
    nodes,    \* the nodes in the order they are written; a block is two of them
    decls,    \* what the @go blocks declare
    errs      \* p.errs

parser == <<lines, mode, since, open, nodes, decls, errs>>

CloserOf == [section |-> "endsection", if |-> "endif", foreach |-> "endforeach",
             forelse |-> "endforelse", for |-> "endfor", while |-> "endwhile", go |-> "endgo"]
Blocks == DOMAIN CloserOf
Inline == {"extends", "yield", "include", "csrf", "attributes", "elseif", "else", "continue",
           "break", "empty"}

Init ==
    /\ lines = <<>> /\ mode = "header" /\ since = 0
    /\ open = <<>> /\ nodes = <<>> /\ decls = <<>> /\ errs = <<>>

LineNo == Len(lines) + 1
Error(n, what) == [line |-> n, what |-> what]
Fail(found) == errs' = errs \o found
OneIf(holds, n, what) == IF holds THEN <<Error(n, what)>> ELSE <<>>

-----------------------------------------------------------------------------
(* The package clause, the tag above it and the imports below.  A mistake in  *)
(* the clause is the only one reported: Parse returns it.                    *)
Header(l) ==
    /\ \/ l.is = "blank" /\ mode' = mode /\ Fail(<<>>)
       \/ l.is = "tag" /\ mode' = (IF l.bad THEN "header" ELSE "tagged") /\ Fail(<<>>)
       \/ l.is = "package" /\ mode = "header" /\ mode' = "refused" /\ Fail(<<Error(1, "untagged")>>)
       \/ l.is = "package" /\ mode # "header" /\ l.bad /\ mode' = "refused" /\ Fail(<<Error(LineNo, "packageName")>>)
       \/ l.is = "package" /\ mode # "header" /\ ~ l.bad /\ mode' = "imports" /\ Fail(<<>>)
       \/ /\ l.is \notin {"blank", "tag", "package"}
          /\ mode' = "refused" /\ Fail(<<Error(LineNo, "packageClause")>>)
    /\ UNCHANGED <<since, open, nodes, decls>>

Spoiled(l) == OneIf(l.bad, LineNo, "import")

ImportBlock(l) ==
    /\ mode' = IF l.is = ")" THEN "imports" ELSE mode
    /\ Fail(IF l.is = ")" THEN <<>> ELSE Spoiled(l))
    /\ UNCHANGED <<since, open, nodes, decls>>

-----------------------------------------------------------------------------
(* The body.                                                                *)
Node(k, name, n) ==
    [k |-> k, name |-> name, line |-> n, depth |-> Len(open), body |-> <<>>, word |-> NoName,
     data |-> FALSE, bad |-> FALSE]

\* interpolate: the markup and the values on one line, and the line's end.
Interpolated(items, n) ==
    LET seen == SelectSeq(items, LAMBDA it : it.k # "comment")
        node(it) == [Node(it.k, NoName, n) EXCEPT !.body = it.body, !.word = it.word, !.data = it.data, !.bad = it.bad]
    IN [i \in DOMAIN seen |-> node(seen[i])] \o <<[Node("text", NoName, n) EXCEPT !.body = <<" ">>]>>

Empty(items, n) ==
    LET none == SelectSeq(items, LAMBDA it : it.k \in {"echo", "raw"} /\ it.blank) IN
    [i \in DOMAIN none |-> Error(n, "nothingInside")]

Markup(items, n) ==
    /\ nodes' = nodes \o Interpolated(items, n)
    /\ Fail(Empty(items, n))
    /\ UNCHANGED <<open, decls>>

\* Mutant: a closer is always taken as the end of the block it meets.
Enclosing_Own(closer) ==
    IF open # <<>> /\ CloserOf[open[Len(open)].name] = closer THEN Len(open) ELSE 0

\* The innermost open block this closer ends, or 0.
Enclosing(closer) ==
    LET ends == {i \in DOMAIN open : CloserOf[open[i].name] = closer} IN
    IF ends = {} THEN 0 ELSE CHOOSE i \in ends : \A j \in ends : j <= i

\* The blocks above the one at k are over, and so is that one.
CloseDownTo(k) ==
    /\ open' = SubSeq(open, 1, k - 1)
    /\ nodes' = nodes \o [i \in 1 .. (Len(open) - k + 1) |->
                            LET b == Len(open) + 1 - i IN
                            [Node("close", open[b].name, LineNo) EXCEPT !.depth = b - 1]]

NeverClosed(from, to) == [i \in 1 .. (to - from + 1) |-> Error(open[to + 1 - i].line, "neverClosed")]

\* A closer ends the innermost block when it is that block's, or when it is
\* nobody's and so that block's written wrong.  One that an enclosing block
\* waits for is left to it, by each block in between.
Closer(l) ==
    LET k == Enclosing(l.name)
        left == IF k = 0 THEN 1 ELSE Len(open) - k + 1
        rest == IF l.rest THEN [i \in 1 .. left |-> Error(LineNo, "rest")] ELSE <<>>
    IN /\ \/ open = <<>> /\ Fail(<<Error(LineNo, "neverOpened")>>) /\ UNCHANGED <<open, nodes>>
          \/ /\ open # <<>> /\ k = 0
             /\ Fail(rest \o <<Error(LineNo, "closesAnother")>>) /\ CloseDownTo(Len(open))
          \/ k # 0 /\ Fail(rest \o NeverClosed(k + 1, Len(open))) /\ CloseDownTo(k)
       /\ mode' = "body" /\ UNCHANGED <<since, decls>>

Directive(l) ==
    LET known == l.name \in Blocks \cup Inline
        node(k) == Append(nodes, [Node(k, l.name, LineNo) EXCEPT
                                    !.word = l.word, !.data = l.data, !.bad = l.bad])
        taken == known /\ l.form # "broken"
    IN /\ Fail(OneIf(~ known, LineNo, "unknown")
               \o OneIf(known /\ l.form # "whole", LineNo, l.form))
       /\ mode' = IF taken /\ l.name = "go" THEN "go" ELSE "body"
       /\ since' = IF taken /\ l.name = "go" THEN LineNo ELSE since
       /\ open' = IF taken /\ l.name \in Blocks \ {"go"}
                  THEN Append(open, [name |-> l.name, line |-> LineNo]) ELSE open
       /\ nodes' = CASE taken /\ l.name \in Blocks \ {"go"} -> node("open")
                     [] taken /\ l.name \in Inline -> node("do")
                     [] OTHER -> nodes
       /\ UNCHANGED decls

\* A comment or a value that does not end on its line.
Begin(l, m) ==
    /\ mode' = m /\ since' = LineNo
    /\ IF l.items # <<>> THEN Markup(l.items, LineNo) ELSE Fail(<<>>) /\ UNCHANGED <<open, nodes, decls>>

Body(l) ==
    \/ l.is = "closer" /\ Closer(l)
    \/ l.is = "comment" /\ Begin(l, "comment")
    \/ l.is = "directive" /\ Directive(l)
    \/ /\ l.is \notin {"closer", "comment", "directive"}
       /\ \/ l.opens /\ Begin(l, "value")
          \/ ~ l.opens /\ Markup(l.items, LineNo) /\ mode' = "body" /\ UNCHANGED since

\* imports: the first line that is not one belongs to the body.
Imports(l) ==
    \/ l.is = "blank" /\ Fail(<<>>) /\ UNCHANGED <<mode, since, open, nodes, decls>>
    \/ l.is = "importBlock" /\ mode' = "importBlock" /\ Fail(<<>>) /\ UNCHANGED <<since, open, nodes, decls>>
    \/ l.is = "import" /\ Fail(Spoiled(l)) /\ UNCHANGED <<mode, since, open, nodes, decls>>
    \/ l.is \notin {"blank", "importBlock", "import"} /\ Body(l)

\* until: everything before an @endgo alone on its line is Go.
GoBlock(l) ==
    LET ends == l.is = "closer" /\ l.name = "endgo" /\ ~ l.rest
        first == \A i \in DOMAIN errs : errs[i].line <= since
    IN /\ mode' = IF ends THEN "body" ELSE mode
       /\ decls' = IF l.is = "go" THEN Append(decls, l.decl @@ [line |-> LineNo]) ELSE decls
       /\ Fail(OneIf(l.is = "go" /\ l.bad /\ first, LineNo, "go"))
       /\ UNCHANGED <<since, open, nodes>>

\* skipComment: what follows the end of a comment is read as a line.
Comment(l) ==
    IF l.is # "uncomment" THEN Fail(<<>>) /\ UNCHANGED <<mode, since, open, nodes, decls>>
    ELSE IF l.after = "blank" THEN mode' = "body" /\ Fail(<<>>) /\ UNCHANGED <<since, open, nodes, decls>>
    ELSE Body([l EXCEPT !.is = l.after])

\* joinInterpolation: the lines of a value are one line.
Value(l) ==
    /\ mode' = IF l.is = "continues" /\ ~ l.opens THEN "body" ELSE mode
    /\ Fail(<<>>)
    /\ UNCHANGED <<since, open, nodes, decls>>

Read(l) ==
    /\ lines' = Append(lines, l)
    /\ \/ mode \in {"header", "tagged"} /\ Header(l)
       \/ mode = "imports" /\ Imports(l)
       \/ mode = "importBlock" /\ ImportBlock(l)
       \/ mode = "go" /\ GoBlock(l)
       \/ mode = "comment" /\ Comment(l)
       \/ mode = "value" /\ Value(l)
       \/ mode = "body" /\ Body(l)

-----------------------------------------------------------------------------
(* The end of the source, and the file assembled from the nodes.             *)
At(k, name) == {i \in DOMAIN nodes : nodes[i].k = k /\ nodes[i].name = name}

CloseOf(i) == First0({j \in DOMAIN nodes : j > i /\ nodes[j].k = "close" /\ nodes[j].depth = nodes[i].depth})

\* file.Sections: the ones at the top, whatever else is written around them.
Sections == {i \in At("open", "section") : nodes[i].depth = 0}
InSection(i) == \E s \in Sections : s <= i /\ i <= CloseOf(s)

Extends == {i \in At("do", "extends") : nodes[i].depth = 0}
Outside == {i \in DOMAIN nodes : ~ InSection(i) /\ i \notin Extends}
Blank(i) == nodes[i].k = "text" /\ \A j \in DOMAIN nodes[i].body : nodes[i].body[j] = " "

IsLayout == \E i \in At("do", "yield") : ~ InSection(i)

Draws == RenderType(decls, Extends # {}, IsLayout)
PageType == PageChoice(decls, Extends # {})

TypeErrors ==
    LET unusable(choice) == OneIf(~ Usable(decls, choice), choice.line, "typeName")
        page == PageType
    IN unusable(Draws)
       \o (IF page.line # Draws.line THEN unusable(page) ELSE <<>>)
       \o (IF ~ IsLayout /\ Cardinality(page.ambiguous) > 1
            THEN <<Error(decls[First0(page.ambiguous \ {First0(page.ambiguous)})].line, "ambiguousType")>> ELSE <<>>)

Unfinished ==
    (IF mode \in {"go", "comment", "value"} THEN <<Error(since, "neverClosed")>> ELSE <<>>)
    \o OneIf(mode = "importBlock", Len(lines), "neverClosed")
    \o NeverClosed(1, Len(open))

\* The source ended, and with it the blocks still open.
EndOfSource ==
    /\ mode \notin {"refused", "ended", "parsed"}
    /\ IF mode \in {"header", "tagged"}
       THEN mode' = "refused" /\ Fail(<<Error(1, "noPackageClause")>>) /\ UNCHANGED <<open, nodes>>
       ELSE mode' = "ended" /\ Fail(Unfinished) /\ CloseDownTo(1)
    /\ UNCHANGED <<lines, since, decls>>

Assembled ==
    LET outside == {i \in Outside : ~ Blank(i)} IN
    [i \in 1 .. Cardinality(Extends) - 1 |-> Error(0, "extendsTwice")]
    \o (IF Extends # {} /\ outside # {}
         THEN <<Error(nodes[First0(outside)].line, "outsideSections")>> ELSE <<>>)

Assemble ==
    /\ mode = "ended" /\ mode' = "parsed"
    /\ Fail(Assembled \o TypeErrors)
    /\ UNCHANGED <<lines, since, open, nodes, decls>>

Accepted == mode = "parsed" /\ errs = <<>>
=============================================================================
