------------------------------- MODULE MCKyse --------------------------------
(* Small families of views, each made of the lines that bring one part of the *)
(* compiler to work, and what has to hold of every view made of them.        *)
EXTENDS Kyse

Line == [is |-> "markup", name |-> NoName, form |-> "whole", word |-> NoName, items |-> <<>>, rest |-> FALSE,
         bad |-> FALSE, opens |-> FALSE, after |-> "blank", data |-> FALSE,
         decl |-> [is |-> "struct", name |-> NoName, embeds |-> FALSE, names |-> {}]]
Item(k) == [k |-> k, body |-> <<>>, word |-> NoName, data |-> FALSE, blank |-> FALSE, bad |-> FALSE]
Is(is) == [Line EXCEPT !.is = is]
Does(name) == [Line EXCEPT !.is = "directive", !.name = name]
Ends(name) == [Line EXCEPT !.is = "closer", !.name = name]
Binds(name, word) == [Does(name) EXCEPT !.word = word]
With(items) == [Line EXCEPT !.items = items]
Text(body) == [Item("text") EXCEPT !.body = body]
Shows(body) == With(<<Text(body)>>)
Shown == Item("echo")
Calls(word) == With(<<[Shown EXCEPT !.word = word]>>)
Declared(is, name, names) ==
    [Is("go") EXCEPT !.decl = [is |-> is, name |-> name, embeds |-> FALSE, names |-> names]]

Modes == {"header", "tagged", "imports", "importBlock", "body", "go", "comment", "value"}
Of(body, go) ==
    [m \in Modes |-> CASE m = "header" -> {Is("tag")}
                       [] m = "tagged" -> {Is("package")}
                       [] m = "go" -> go
                       [] m = "importBlock" -> {}
                       [] OTHER -> body]

Structure == {Does("if"), Does("foreach"), Does("section"), Ends("endif"), Ends("endforeach"), Ends("endsection")}

HeaderLines == [header |-> {Is("blank"), Is("tag"), [Is("tag") EXCEPT !.bad = TRUE], Is("package"), Is("markup")},
           tagged |-> {Is("package"), [Is("package") EXCEPT !.bad = TRUE], Is("blank")}]
ImportLines == {Is("blank"), Is("import"), [Is("import") EXCEPT !.bad = TRUE], Is("importBlock"), Is(")")}

Forms ==
    {Does("if"), [Does("if") EXCEPT !.form = "glued"], [Does("if") EXCEPT !.form = "broken"],
     Ends("endif"), [Ends("endif") EXCEPT !.rest = TRUE], Does("unknown"), Does("go"), Ends("endgo"),
     [Is("comment") EXCEPT !.items = <<Text(<<"word">>)>>], Is("comment"), Is("uncomment"),
     [Is("uncomment") EXCEPT !.after = "closer", !.name = "endif"],
     [With(<<Shown>>) EXCEPT !.opens = TRUE], Is("continues"),
     With(<<[Shown EXCEPT !.blank = TRUE], Item("comment")>>)}

Go == {[Declared("struct", "Row", {}) EXCEPT !.bad = TRUE], Ends("endgo")}

TypeLines == {Declared("struct", "Page", {"Row"}), Declared("struct", "Row", {}),
          [Declared("struct", "Other", {}) EXCEPT !.decl.embeds = TRUE],
          Declared("assert", "Row", {}), Declared("alias", "Same", {}), Declared("generic", "Box", {}),
          Declared("interface", "Layout", {}), Ends("endgo")}

OpensTag == Shows(<<"<", "a", " ", "href", "=", "dq">>)
ClosesTag == Shows(<<"dq", ">">>)
Branching ==
    {OpensTag, ClosesTag, With(<<Shown>>), Does("if"), Ends("endif"),
     Does("foreach"), Does("break"), Ends("endforeach")}
Tags ==
    {Shows(<<"<", "a">>), Shows(<<"disabled">>), Shows(<<">">>), With(<<Shown>>), Does("if"), Does("else"), Ends("endif"),
     Shows(<<"title", "=", "dq">>), Shows(<<"dq">>)}
Values ==
    {Shows(<<"<", "a", " ", "href", "=", "dq">>), Shows(<<"<", "p", " ", "hx-trigger", "=", "dq">>),
     Shows(<<"<", "p", " ", "hx-vals", "=", "sq", "ref">>), Shows(<<"<", "script", ">">>),
     Shows(<<"<", "/", "script", ">">>), Shows(<<"<", "!--">>), Shows(<<"/", "host", "/">>),
     With(<<Shown>>), With(<<[Shown EXCEPT !.data = TRUE]>>), With(<<Item("raw")>>), Does("attributes"), Shows(<<"dq", ">">>)}

SectionLines ==
    {Does("extends"), Does("section"), Ends("endsection"), OpensTag, ClosesTag, With(<<Shown>>), Does("yield")}

LoopLines ==
    {Binds("foreach", NoName), Binds("foreach", "fmt"), Binds("foreach", "nil"), Binds("foreach", "kyse__w"),
     Ends("endforeach"), Does("forelse"), Does("empty"), Ends("endforelse"), Does("else"),
     Calls("fmt"), [Does("include") EXCEPT !.data = TRUE], OpensTag}
Counting == {Binds("for", "n"), Binds("for", "kyse__w"), Ends("endfor"), Does("while"), Ends("endwhile"),
             Does("continue"), Does("csrf"), With(<<Shown>>), Does("elseif"), Does("if"), Ends("endif")}

MCFamilies == {"structure", "header", "forms", "types", "branching", "tags", "values", "sections",
               "loops", "counting"}
MCAlphabet ==
    [f \in MCFamilies |->
        CASE f = "structure" -> Of(Structure, {})
          [] f = "header" -> [Of(ImportLines \cup {Does("csrf")}, {}) EXCEPT
                                !["header"] = HeaderLines.header, !["tagged"] = HeaderLines.tagged,
                                !["importBlock"] = ImportLines]
          [] f = "forms" -> Of(Forms, Go)
          [] f = "types" -> Of({Does("extends"), Does("go"), Does("yield")}, TypeLines)
          [] f = "branching" -> Of(Branching, {})
          [] f = "tags" -> Of(Tags, {})
          [] f = "values" -> Of(Values, {})
          [] f = "sections" -> Of(SectionLines, {})
          [] f = "loops" -> Of(LoopLines, {})
          [] f = "counting" -> Of(Counting, {})]
\* The clause and its tag are two lines; a bound counts them.
MCMaxLines == [f \in MCFamilies |-> CASE f = "structure" -> 8
                                      [] f \in {"types", "branching", "sections"} -> 7
                                      [] OTHER -> 6]
MCKinds == [f \in MCFamilies |->
              IF f \in {"loops", "counting"} THEN [component : BOOLEAN, inherited : BOOLEAN]
              ELSE {[component |-> FALSE, inherited |-> FALSE]}]

\* The lines of "structure" are those that open and close blocks, Go's apart.
ASSUME StructureAssumption ==
    "structure" \in Families =>
        /\ Alphabet["structure"]["header"] = {Is("tag")} /\ Alphabet["structure"]["tagged"] = {Is("package")}
        /\ Alphabet["structure"]["imports"] \cup Alphabet["structure"]["body"]
              \subseteq {Does(b) : b \in Blocks \ {"go"}} \cup {Ends(CloserOf[b]) : b \in Blocks \ {"go"}}

-----------------------------------------------------------------------------
(* Blocks, by the depth they stand at.                                       *)
BodyLines == SubSeq(lines, 3, Len(lines))
IsOpener(l) == l.is = "directive" /\ l.name \in Blocks
Step(l) == IF IsOpener(l) THEN 1 ELSE IF l.is = "closer" THEN 0 - 1 ELSE 0
Depths(ls) == LET d[n \in 0 .. Len(ls)] == IF n = 0 THEN 0 ELSE d[n - 1] + Step(ls[n]) IN d

\* The opener that stands where the closer at j does.
Opener(ls, j) ==
    LET d == Depths(ls)
        here == {i \in 1 .. (j - 1) : IsOpener(ls[i]) /\ d[i - 1] = d[j]}
    IN CHOOSE i \in here : \A k \in here : k <= i

Balanced(ls) ==
    LET d == Depths(ls) IN
    /\ \A n \in DOMAIN d : d[n] >= 0
    /\ d[Len(ls)] = 0
    /\ \A j \in DOMAIN ls : ls[j].is = "closer" => ls[j].name = CloserOf[ls[Opener(ls, j)].name]

Closers == {CloserOf[b] : b \in Blocks \ {"go"}}

\* A closer was left out, or one was written that no block there waits for.
OneLeftOut(ls) ==
    \E k \in 1 .. (Len(ls) + 1), c \in Closers : Balanced(InsertAt(ls, k, Ends(c)))
OneMiswritten(ls) ==
    \E k \in DOMAIN ls, c \in Closers :
        LET meant == [ls EXCEPT ![k] = Ends(c)] IN
        /\ ls[k].is = "closer" /\ Balanced(meant)
        /\ \A o \in 1 .. (k - 1) :
              IsOpener(ls[o]) /\ (\A j \in o .. (k - 1) : Depths(meant)[j] >= Depths(meant)[o])
                  => CloserOf[ls[o].name] # ls[k].name

\* A view whose blocks close in order is accepted, and one mistake in them --
\* a closer left out, or written as one nobody there waits for -- is one
\* error: parse.go's close and enclosing, nodes's stray closers.
OneMistakeOneError ==
    mode = "parsed" /\ family = "structure" =>
        /\ errs = <<>> <=> Balanced(BodyLines)
        /\ ~ Balanced(BodyLines) /\ (OneLeftOut(BodyLines) \/ OneMiswritten(BodyLines)) => Len(errs) = 1

\* On every way through a view that was written, each value lands where the
\* generator put its scanner, and each section ends between tags: generate.go's
\* echo, rejoin and emitSections.  A page one of whose loops went round, or was
\* left by @break or @continue, elsewhere than where it began is left to
\* EveryEscapeFits.
EscapesFitThePage ==
    pc = "page" /\ ~ moved =>
        /\ at \in DOMAIN drawn => Position(page) = drawn[at]
        /\ at = 0 /\ part # 0 => page.state = "text"

\* The same of every round of every loop: the comment at generate.go's rejoin
\* says that no escape is chosen for a position that depends on data.
EveryEscapeFits == pc = "page" /\ at \in DOMAIN drawn => Position(page) = drawn[at]

\* Every name the generator writes is its own or the view's, and is declared
\* where it is read: the check before a file is written reports nothing but a
\* name the view took from the compiler (scope.go's checkScopes).
NothingInvented == pc = "format" => Problems = Reserved(Words, Prefixed)

=============================================================================
