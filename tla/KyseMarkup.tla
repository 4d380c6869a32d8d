----------------------------- MODULE KyseMarkup -----------------------------
(***************************************************************************)
(* The part of an HTML tokenizer the view compiler keeps: it follows the   *)
(* markup a view writes and answers where the next value lands, which is    *)
(* what the escape of the value is chosen from.                             *)
(*                                                                         *)
(* A run of markup is a sequence of tokens.  "<" ">" "/" "=" "[" "]" ":" "?" *)
(* "\\" are those characters, "dq" and "sq" the quotes, "ref" a quote        *)
(* written as a character reference, " " any white space, "!" and "!--" what *)
(* opens a declaration and a comment, "-->" what closes one, and every other *)
(* token a word without any of those in it.                                 *)
(***************************************************************************)
EXTENDS Naturals, Sequences, FiniteSets, SequencesExt

NoScheme == [front |-> <<>>, decided |-> FALSE, script |-> FALSE, inString |-> FALSE,
             escaped |-> FALSE, filter |-> FALSE]

\* htmlScanner{}: a document begins in its body.
Fresh == [state |-> "text", tag |-> "", attr |-> "", raw |-> "", closing |-> FALSE,
          value |-> NoScheme, equiv |-> FALSE, contentData |-> FALSE, lateEquiv |-> FALSE]

Lost == [Fresh EXCEPT !.state = "lost"]

Data == "data"               \* a value, in the front of an address
Punctuation == {"<", ">", "/", "=", "[", "]", ":", "?", "\\", "dq", "sq", "ref", " ",
                "!", "!--", "-->", Data}
IsQuote(t) == t \in {"dq", "ref"}

-----------------------------------------------------------------------------
(* What an attribute is, by its name.  A family the code knows by a prefix   *)
(* (on, hx-on, x-on:, @, x-bind:, :) is written here by one of its members.  *)
HoldsURL(name) ==
    name \in {"action", "background", "cite", "data", "formaction", "href", "manifest", "ping",
              "poster", "src", "xlink:href", "hx-delete", "hx-get", "hx-patch", "hx-post",
              "hx-put", "hx-push-url", "hx-replace-url"}

HoldsCode(name) ==
    name \in {"onclick", "hx-on:click", "x-on:click", "@", "@(", "x-bind:href", ":href",
              "x-data", "x-effect", "x-for", "x-html", "x-if", "x-init", "x-model",
              "x-modelable", "x-show", "x-text", "hx-vars"}

HoldsJSON(name) == name \in {"hx-headers", "hx-request", "hx-vals", "data-kyse-props"}

Acts(tag, name, equiv) ==
    \/ name = "srcdoc"
    \/ tag = "meta" /\ name = "content" /\ equiv
    \/ tag \in {"animate", "set"} /\ name \in {"attributename", "by", "from", "to", "values"}

\* HTMX reads data-hx-* as hx-*.
Reads(attr) == IF attr = "data-hx-post" THEN "hx-post" ELSE attr

-----------------------------------------------------------------------------
\* Where the next value lands.
ValuePosition(s) ==
    LET name == Reads(s.attr) IN
    CASE HoldsCode(name) \/ s.value.script \/ (name = "hx-trigger" /\ s.value.filter) -> "code"
      [] name = "hx-trigger" -> "trigger"
      [] Acts(s.tag, name, s.equiv) -> "active"
      [] HoldsJSON(name) -> IF s.value.inString THEN "jsonString" ELSE "json"
      [] name = "style" -> "style"
      [] HoldsURL(name) /\ s.value.decided -> "attributeValue"
      [] HoldsURL(name) -> IF \A i \in DOMAIN s.value.front : s.value.front[i] = " "
                           THEN "url" ELSE "addressOpen"
      [] OTHER -> "attributeValue"

Position(s) ==
    CASE s.state = "lost" -> "unknown"
      [] s.state \in {"tagOpen", "tagName"} -> "elementName"
      [] s.state \in {"beforeAttrName", "attrName", "afterAttrName"} -> "attributeName"
      [] s.state \in {"beforeAttrValue", "unquoted"} -> "unquotedValue"
      [] s.state \in {"double", "single"} -> ValuePosition(s)
      [] s.state = "rawText" -> IF s.raw = "style" THEN "style" ELSE "script"
      [] OTHER -> "body"

\* A half-read name and the place between two names are one position.
Settled(s) ==
    IF s.state \in {"attrName", "afterAttrName"}
    THEN [s EXCEPT !.state = "beforeAttrName", !.attr = ""] ELSE s

-----------------------------------------------------------------------------
(* The front of an address or of a JSON value: whether what is read of it    *)
(* already settles where it goes.                                           *)

\* The first place in ts that holds one of these, or 0.
FirstOf(ts, tokens) ==
    LET found == {i \in DOMAIN ts : ts[i] \in tokens} IN
    IF found = {} THEN 0 ELSE CHOOSE i \in found : \A j \in found : i <= j

WithoutLead(ts) ==
    LET word == {i \in DOMAIN ts : ts[i] # " "} IN
    IF word = {} THEN <<>> ELSE SubSeq(ts, CHOOSE i \in word : \A j \in word : i <= j, Len(ts))

\* A whole address was interpolated: a path under it settles the rest.
DecidedAfterData(rest) ==
    LET stop == FirstOf(rest, {":", Data})
        ends == {i \in DOMAIN rest :
                    \/ rest[i] = "?"
                    \/ rest[i] \in {"/", "\\"} /\ \E j \in 1 .. (i - 1) : rest[j] \notin {"/", "\\"}}
    IN \E i \in ends : stop = 0 \/ i < stop

AddressDecided(front) ==
    LET t == WithoutLead(front)
        at == FirstOf(t, {"?", ":", "/", "\\", Data})
        no == [decided |-> FALSE, script |-> FALSE]
    IN CASE t = <<>> -> no
         [] t[1] = Data -> [no EXCEPT !.decided = DecidedAfterData(Tail(t))]
         [] at = 0 \/ t[at] = Data -> no
         [] t[at] = ":" -> [decided |-> TRUE, script |-> at = 2 /\ t[1] \in {"javascript", "vbscript"}]
         [] t[at] \in {"/", "\\"} /\ at = 1 -> [no EXCEPT !.decided = Len(t) > 1 /\ t[2] # Data]
         [] OTHER -> [no EXCEPT !.decided = TRUE]

JSONDecided(front) ==
    LET lead == WithoutLead(front) IN
    CASE Len(lead) >= 2 /\ lead[1] \in {"js", "javascript"} /\ lead[2] = ":"
            -> [decided |-> TRUE, script |-> TRUE]
      [] OTHER -> [decided |-> lead # <<>> /\ lead \notin {<<"js">>, <<"javascript">>}, script |-> FALSE]

ReadFront(s, t) ==
    LET name == Reads(s.attr)
        front == Append(s.value.front, t)
        d == IF HoldsURL(name) THEN AddressDecided(front) ELSE JSONDecided(front)
    IN IF s.value.decided \/ ~ (HoldsURL(name) \/ HoldsJSON(name)) THEN s
       ELSE [s EXCEPT !.value.front = IF d.decided THEN <<>> ELSE front,
                      !.value.decided = d.decided,
                      !.value.script = d.script]

\* One token of an attribute's value.
ReadValue(s, t) ==
    LET name == Reads(s.attr)
        v == s.value
    IN CASE HoldsURL(name) -> ReadFront(s, t)
         [] name = "hx-trigger" /\ t \in {"[", "]"} -> [s EXCEPT !.value.filter = t = "["]
         [] HoldsJSON(name) ->
                LET r == ReadFront(s, t) IN
                IF v.escaped THEN [r EXCEPT !.value.escaped = FALSE]
                ELSE IF v.inString /\ t = "\\" THEN [r EXCEPT !.value.escaped = TRUE]
                ELSE IF IsQuote(t) THEN [r EXCEPT !.value.inString = ~ v.inString]
                ELSE r
         [] OTHER -> s

\* A value written into an attribute is part of it from there on.
ReadData(s) ==
    LET r == ReadFront(s, Data) IN
    IF s.tag = "meta" /\ s.attr = "content" THEN [r EXCEPT !.contentData = TRUE] ELSE r

ReadName(s) ==
    IF s.tag = "meta" /\ s.attr = "http-equiv"
    THEN [s EXCEPT !.equiv = TRUE, !.lateEquiv = s.lateEquiv \/ s.contentData] ELSE s

\* The end of a tag: the text of a script and of a style is not markup.
CloseTag(s) ==
    LET rawText == ~ s.closing /\ s.tag \in {"script", "style"} IN
    [Fresh EXCEPT !.state = IF rawText THEN "rawText" ELSE "text",
                  !.raw = IF rawText THEN s.tag ELSE "",
                  !.lateEquiv = s.lateEquiv]

\* A name is put together of the runs it is written in; more than one run
\* makes a name no table above knows.
Joined(name, t) == IF name = "" THEN t ELSE "joined"

\* One token of the text, at its place in the run.
InText(s, t) == IF t = "<" THEN [s EXCEPT !.state = "tagOpen"] ELSE [s EXCEPT !.state = "text"]

InTagOpen(s, t) ==
    CASE t = "!--" -> [s EXCEPT !.state = "comment"]
      [] t = "!" -> [s EXCEPT !.state = "markupDecl"]
      [] t = "/" -> [s EXCEPT !.closing = TRUE, !.tag = "", !.state = "tagName"]
      [] t \notin Punctuation -> [s EXCEPT !.closing = FALSE, !.tag = t, !.state = "tagName"]
      [] OTHER -> InText(s, t)

InTagName(s, t) ==
    CASE t \in {" ", "/"} -> [s EXCEPT !.state = "beforeAttrName"]
      [] t = ">" -> CloseTag(s)
      [] OTHER -> [s EXCEPT !.tag = Joined(s.tag, t)]

InAttrName(s, t) ==
    CASE t = " " -> [ReadName(s) EXCEPT !.state = "afterAttrName"]
      [] t = "=" -> [ReadName(s) EXCEPT !.state = "beforeAttrValue"]
      [] t = ">" -> CloseTag(ReadName(s))
      [] t = "/" -> [ReadName(s) EXCEPT !.state = "beforeAttrName"]
      [] OTHER -> [s EXCEPT !.attr = Joined(s.attr, t)]

NewName(s, t) == InAttrName([s EXCEPT !.attr = "", !.state = "attrName"], t)

InBeforeAttrName(s, t) ==
    CASE t \in {" ", "/"} -> s
      [] t = ">" -> CloseTag(s)
      [] OTHER -> NewName(s, t)

InAfterAttrName(s, t) ==
    CASE t = " " -> s
      [] t = "=" -> [s EXCEPT !.state = "beforeAttrValue"]
      [] t = ">" -> CloseTag(s)
      [] t = "/" -> [s EXCEPT !.state = "beforeAttrName"]
      [] OTHER -> NewName(s, t)

InUnquoted(s, t) ==
    CASE t = " " -> [s EXCEPT !.attr = "", !.value = NoScheme, !.state = "beforeAttrName"]
      [] t = ">" -> CloseTag(s)
      [] OTHER -> s

InBeforeAttrValue(s, t) ==
    CASE t = " " -> s
      [] t = ">" -> CloseTag(s)
      [] t = "dq" -> [s EXCEPT !.state = "double", !.value = NoScheme]
      [] t = "sq" -> [s EXCEPT !.state = "single", !.value = NoScheme]
      [] OTHER -> InUnquoted([s EXCEPT !.state = "unquoted", !.value = NoScheme], t)

InQuoted(s, t) ==
    IF t = (IF s.state = "double" THEN "dq" ELSE "sq")
    THEN [s EXCEPT !.attr = "", !.value = NoScheme, !.state = "beforeAttrName"]
    ELSE ReadValue(s, t)

InRawText(s, text, i) ==
    IF text[i] = "<" /\ i + 2 <= Len(text) /\ text[i + 1] = "/" /\ text[i + 2] = s.raw
    THEN [s EXCEPT !.state = "tagOpen"] ELSE s

FeedToken(s, text, i) ==
    LET t == text[i] IN
    CASE s.state = "lost" -> s
      [] s.state = "text" -> InText(s, t)
      [] s.state = "tagOpen" -> InTagOpen(s, t)
      [] s.state = "tagName" -> InTagName(s, t)
      [] s.state = "beforeAttrName" -> InBeforeAttrName(s, t)
      [] s.state = "attrName" -> InAttrName(s, t)
      [] s.state = "afterAttrName" -> InAfterAttrName(s, t)
      [] s.state = "beforeAttrValue" -> InBeforeAttrValue(s, t)
      [] s.state \in {"double", "single"} -> InQuoted(s, t)
      [] s.state = "unquoted" -> InUnquoted(s, t)
      [] s.state = "comment" -> IF t = "-->" THEN [s EXCEPT !.state = "text"] ELSE s
      [] s.state = "markupDecl" -> IF t = ">" THEN [s EXCEPT !.state = "text"] ELSE s
      [] s.state = "rawText" -> InRawText(s, text, i)

Feed(s, text) ==
    LET step[n \in 0 .. Len(text)] == IF n = 0 THEN s ELSE FeedToken(step[n - 1], text, n)
    IN step[Len(text)]
=============================================================================
