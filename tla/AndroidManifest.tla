-------------------------- MODULE AndroidManifest ---------------------------
(***************************************************************************)
(* The manifests of the packages and libraries an Android application      *)
(* carries, merged into the application's (internal/pack/androidlibs.go).  *)
(* An element is its tag, its android:name, the rest of its first tag, the *)
(* names of the meta-data in it, whether it is one empty tag, and the      *)
(* placeholders written in it.                                             *)
(***************************************************************************)
EXTENDS Naturals, Sequences, SequencesExt

CONSTANTS
    Sources,      \* the sequences of manifests to merge
    Values        \* the placeholders that have a value

VARIABLES
    sources,      \* what is merged
    src, nth,     \* the manifest read now, and the child of it that is next
    out,          \* mergedManifest
    error         \* a placeholder had no value

vars == <<sources, src, nth, out, error>>

Element == [tag : STRING, name : [pkg : STRING, id : STRING], attributes : STRING, meta : SUBSET STRING,
            empty : BOOLEAN, needs : SUBSET STRING]
Source == [pkg : STRING, children : Seq(Element)]

componentTags == {"activity", "activity-alias", "service", "receiver", "provider"}
Nothing == [permissions |-> <<>>, features |-> <<>>, top |-> <<>>, queries |-> <<>>, components |-> <<>>]
Tags(seq) == {<<seq[i].tag, seq[i].name>> : i \in DOMAIN seq}

Init == sources \in Sources /\ src = 1 /\ nth = 1 /\ out = Nothing /\ error = FALSE

-----------------------------------------------------------------------------
\* A name without a package takes that of the library's manifest.
qualifyComponent(c, pkg) ==
    IF c.tag \in componentTags /\ pkg # "" /\ c.name.pkg = "" THEN [c EXCEPT !.name.pkg = pkg] ELSE c

\* An element written as one empty tag has nowhere to put more.
addMetaData(element, other) == IF element.empty THEN element ELSE [element EXCEPT !.meta = @ \cup other.meta]

Placed(components, c) == {i \in DOMAIN components : components[i].tag = c.tag /\ components[i].name = c.name}

\* Mutant: an element met before, letter for letter in its first tag, is left aside.
AddComponentOnce(components, c) ==
    LET found == Placed(components, c)
    IN IF found = {} THEN Append(components, c)
       ELSE LET i == CHOOSE j \in found : TRUE
            IN IF components[i].attributes = c.attributes THEN components
               ELSE [components EXCEPT ![i] = addMetaData(@, c)]

AddComponent(components, c) ==
    LET found == Placed(components, c)
    IN IF found = {} THEN Append(components, c)
       ELSE LET i == CHOOSE j \in found : TRUE IN [components EXCEPT ![i] = addMetaData(@, c)]

Once(seq, x) == IF x \in ToSet(seq) THEN seq ELSE Append(seq, x)

\* One child of a <manifest>; the children of <application> and <queries> count one by one.
AddChild(o, child, pkg) ==
    CASE child.tag = "uses-sdk"        -> o
      [] child.tag = "uses-permission" -> [o EXCEPT !.permissions = Once(@, child.name)]
      [] child.tag = "uses-feature"    -> [o EXCEPT !.features = IF child.name.id = "" THEN @ ELSE Once(@, child.name)]
      [] child.tag = "queries"         -> [o EXCEPT !.queries = Once(@, child)]
      [] child.tag \in componentTags \cup {"meta-data"}
                                       -> [o EXCEPT !.components = AddComponent(@, qualifyComponent(child, pkg))]
      [] OTHER                         -> [o EXCEPT !.top = Once(@, child)]

Reading == src <= Len(sources) /\ ~error
Child == sources[src].children[nth]

\* mergeManifests, a child at a time.
Merge ==
    /\ Reading /\ nth <= Len(sources[src].children) /\ Child.needs \subseteq Values
    /\ out' = AddChild(out, Child, sources[src].pkg) /\ nth' = nth + 1
    /\ UNCHANGED <<sources, src, error>>

NextSource ==
    /\ Reading /\ nth > Len(sources[src].children)
    /\ src' = src + 1 /\ nth' = 1
    /\ UNCHANGED <<sources, out, error>>

Unresolved ==
    /\ Reading /\ nth <= Len(sources[src].children) /\ ~(Child.needs \subseteq Values)
    /\ error' = TRUE /\ UNCHANGED <<sources, src, nth, out>>

Next == Merge \/ NextSource \/ Unresolved
Spec == Init /\ [][Next]_vars

-----------------------------------------------------------------------------
Elements == UNION {{qualifyComponent(s.children[i], s.pkg) : i \in DOMAIN s.children} : s \in ToSet(sources)}
Of(tags) == {e \in Elements : e.tag \in tags}
Distinct(seq) == \A i, j \in DOMAIN seq : seq[i] = seq[j] => i = j

\* Whatever the order of the libraries, a manifest that was merged declares what
\* each of them declares, once: every permission, every component under its own
\* package, and in a component that several declare the meta-data of them all,
\* unless the first of them is one empty tag (mergeManifests).
EveryDeclarationOnce ==
    src > Len(sources) =>
        /\ ToSet(out.permissions) = {e.name : e \in Of({"uses-permission"})} /\ Distinct(out.permissions)
        /\ Tags(out.components) = {<<e.tag, e.name>> : e \in Of(componentTags \cup {"meta-data"})}
        /\ \A i, j \in DOMAIN out.components : Tags(<<out.components[i]>>) = Tags(<<out.components[j]>>) => i = j
        /\ \A c \in ToSet(out.components) : ~c.empty =>
              c.meta = UNION {e.meta : e \in {x \in Of({c.tag}) : x.name = c.name}}

=============================================================================
