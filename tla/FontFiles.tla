----------------------------- MODULE FontFiles ------------------------------
(***************************************************************************)
(* font:add and font:remove (font.go, fontmanifest.go): the files of a     *)
(* face under assets/fonts, and what is derived from them one after        *)
(* another: the stylesheet with the hash of each file, the Go file that    *)
(* registers each, and the sections of arandu.toml the next command reads. *)
(* Any write may fail or be cut by a kill; the next command starts from    *)
(* what that left.  One command runs at a time.  A body stands for its     *)
(* hash; the text of a licence is left out.                                *)
(***************************************************************************)
EXTENDS Naturals, Sequences, SequencesExt

CONSTANTS
    Roles,         \* in the order they are written
    Faces,         \* the faces a family may come with: file, range, body
    MaxFonts       \* bound: commands

VARIABLES
    woff,          \* the files under assets/fonts: the body of each
    css, go,       \* what the two generated files hold
    toml,          \* the notes of each role it has a section for
    fontPc,
    role, entries, \* the role of the command; the sections it is about to write
    faces,         \* the faces still to be written
    drop,          \* the notes still to be looked at, of a role being removed
    broken,        \* observation: roles whose last command did not finish
    commands, fontAnswer

fontFiles == <<woff, css, go, toml, fontPc, role, entries, faces, drop, broken, commands, fontAnswer>>

Partial == "partial"              \* what a write that did not end leaves
RoleSet == ToSet(Roles)
Listed(r, sections) == IF r \in DOMAIN sections THEN sections[r] ELSE <<>>
Note(f) == [file |-> f.file, range |-> f.range, hash |-> f.body]
NoSections == [r \in {} |-> <<>>]
Unreadable == [r \in {Partial} |-> <<>>]
\* A manifest written before every face had a name of its own.
Shared == [r \in RoleSet |-> <<[file |-> <<"face">>, range |-> 1, hash |-> 1]>>]

Init ==
    /\ toml \in {NoSections, Shared}
    /\ woff = IF toml = NoSections THEN [f \in {} |-> 0] ELSE [f \in {<<"face">>} |-> 1]
    /\ css = Partial /\ go = Partial
    /\ fontPc = "returned" /\ role = Roles[1] /\ entries = NoSections /\ faces = <<>> /\ drop = <<>>
    /\ broken = {} /\ fontAnswer = "none"
    /\ commands = IF toml = NoSections THEN 0 ELSE 1    \* a command wrote the sections that are there

FontGoto(from, to) == fontPc = from /\ fontPc' = to

-----------------------------------------------------------------------------
(* font:add, up to the names.                                              *)

filesOfOtherRoles(r) == {n.file : n \in UNION {ToSet(toml[o]) : o \in DOMAIN toml \ {r}}}

\* "name-hash", and then "name-hash-2": the first that nothing uses.
Numbered(f, k) == f.file \o <<f.body, k>>
Fresh(f, used) ==
    IF f.file \notin used THEN f.file
    ELSE IF Append(f.file, f.body) \notin used THEN Append(f.file, f.body)
    ELSE Numbered(f, CHOOSE k \in 2 .. Cardinality(used) + 2 :
                        Numbered(f, k) \notin used /\ \A j \in 2 .. k - 1 : Numbered(f, j) \in used)

\* A name for one more face; one that repeats an earlier face is dropped.
NameOne(out, f, taken) ==
    IF \E i \in DOMAIN out : out[i].asked = f THEN out
    ELSE Append(out, [file |-> Fresh(f, taken \cup {out[i].file : i \in DOMAIN out}),
                      range |-> f.range, body |-> f.body, asked |-> f])

\* Mutant: only the names of this request.
uniqueFaceFilesOfOne(got, taken) ==
    LET out[n \in 0 .. Len(got)] == IF n = 0 THEN <<>> ELSE NameOne(out[n - 1], got[n], {}) IN out[Len(got)]

uniqueFaceFiles(got, taken) ==
    LET out[n \in 0 .. Len(got)] == IF n = 0 THEN <<>> ELSE NameOne(out[n - 1], got[n], taken) IN out[Len(got)]

Starts ==
    /\ commands < MaxFonts /\ commands' = commands + 1
    /\ fontPc = "returned" /\ fontAnswer' = "none"

\* The manifest is read after the family has come, and before anything is written.
fontAdd(r, got) ==
    /\ Starts /\ toml # Unreadable /\ fontPc' = "faces" /\ role' = r
    /\ LET named == uniqueFaceFiles(got, filesOfOtherRoles(r))
       IN /\ faces' = named
          /\ entries' = [o \in DOMAIN toml \cup {r} |->
                        IF o = r THEN [i \in DOMAIN named |-> Note(named[i])] ELSE toml[o]]
    /\ drop' = <<>>
    /\ UNCHANGED <<woff, css, go, toml, broken>>

WriteFace ==
    /\ fontPc = "faces" /\ faces # <<>>
    /\ woff' = [f \in DOMAIN woff \cup {faces[1].file} |-> IF f = faces[1].file THEN faces[1].body ELSE woff[f]]
    /\ faces' = Tail(faces) /\ fontPc' = IF Len(faces) = 1 THEN "css" ELSE "faces"
    /\ UNCHANGED <<css, go, toml, role, entries, drop, broken, commands, fontAnswer>>

-----------------------------------------------------------------------------
(* font:remove, up to the generated files.                                 *)

fontRemove(r) ==
    /\ Starts /\ toml # Unreadable /\ r \in DOMAIN toml /\ role' = r
    /\ drop' = toml[r] /\ fontPc' = IF drop' = <<>> THEN "css" ELSE "drop"
    /\ entries' = [o \in DOMAIN toml \ {r} |-> toml[o]]
    /\ faces' = <<>>
    /\ UNCHANGED <<woff, css, go, toml, broken>>

\* Another role may still draw it; one that is not there is no error.
Drop ==
    /\ fontPc = "drop" /\ drop # <<>>
    /\ woff' = [f \in DOMAIN woff \ ({drop[1].file} \ filesOfOtherRoles(role)) |-> woff[f]]
    /\ drop' = Tail(drop) /\ fontPc' = IF Len(drop) = 1 THEN "css" ELSE "drop"
    /\ UNCHANGED <<css, go, toml, role, entries, faces, broken, commands, fontAnswer>>

\* No such font, the catalogue, a manifest that cannot be read.
Refuse ==
    /\ fontPc = "returned" /\ fontAnswer' = "none"
    /\ UNCHANGED <<woff, css, go, toml, fontPc, role, entries, faces, drop, broken, commands>>

-----------------------------------------------------------------------------
(* writeFontFiles.                                                         *)

NotesOf(sections) == FlattenSeq([i \in DOMAIN Roles |-> Listed(Roles[i], sections)])

Stylesheet ==
    /\ FontGoto("css", "go") /\ css' = NotesOf(entries)
    /\ UNCHANGED <<woff, go, toml, role, entries, faces, drop, broken, commands, fontAnswer>>

\* One registration for each name: a second makes the application panic.
Register(notes) ==
    LET names[k \in 0 .. Len(notes)] ==
            IF k = 0 THEN <<>>
            ELSE IF notes[k].file \in ToSet(names[k - 1]) THEN names[k - 1]
            ELSE Append(names[k - 1], notes[k].file)
    IN names[Len(notes)]

writeFontGo ==
    /\ FontGoto("go", "toml") /\ go' = Register(NotesOf(entries))
    /\ UNCHANGED <<woff, css, toml, role, entries, faces, drop, broken, commands, fontAnswer>>

writeManifest ==
    /\ FontGoto("toml", "returned") /\ toml' = entries /\ broken' = broken \ {role} /\ fontAnswer' = "nil"
    /\ role' = Roles[1] /\ entries' = NoSections
    /\ UNCHANGED <<woff, css, go, faces, drop, commands>>

\* A write fails, or the command is killed, before it or in the middle.
Cut ==
    /\ fontPc # "returned" /\ fontPc' = "returned"
    /\ broken' = broken \cup {role}
    /\ \/ UNCHANGED <<woff, css, go, toml>>
       \/ /\ fontPc = "faces" /\ faces # <<>>
          /\ woff' = [f \in DOMAIN woff \cup {faces[1].file} |-> IF f = faces[1].file THEN 0 ELSE woff[f]]
          /\ UNCHANGED <<css, go, toml>>
       \/ fontPc = "css" /\ css' = Partial /\ UNCHANGED <<woff, go, toml>>
       \/ fontPc = "go" /\ go' = Partial /\ UNCHANGED <<woff, css, toml>>
       \/ /\ fontPc = "toml" /\ UNCHANGED <<woff, css, go>>
          /\ \/ toml' = Unreadable
             \/ \E n \in 0 .. Len(Roles) :
                   toml' = [r \in DOMAIN entries \cap {Roles[i] : i \in 1 .. n} |-> entries[r]]
    /\ role' = Roles[1] /\ entries' = NoSections /\ faces' = <<>> /\ drop' = <<>>
    /\ UNCHANGED <<commands, fontAnswer>>

Requested == {<<f>> : f \in Faces} \cup {<<f, g>> : f, g \in Faces}
Next ==
    \/ (\E r \in RoleSet : fontRemove(r) \/ \E got \in Requested : fontAdd(r, got))
    \/ WriteFace \/ Drop \/ Refuse
    \/ Stylesheet \/ writeFontGo \/ writeManifest \/ Cut
Spec == Init /\ [][Next]_fontFiles

-----------------------------------------------------------------------------
(* Properties.                                                             *)

\* After a command that answered nil, whatever was cut before it: the
\* stylesheet, the registrations and the manifest name the same files, no
\* name is registered twice, and every file of a role whose own last command
\* finished is on disk with the hash the stylesheet asks for (uniqueFaceFiles,
\* writeFontFiles).
FontsAgree ==
    fontAnswer = "nil" =>
        /\ css = NotesOf(toml)
        /\ ToSet(go) = {n.file : n \in ToSet(css)} /\ \A i, j \in DOMAIN go : go[i] = go[j] => i = j
        /\ \A r \in DOMAIN toml \ broken : \A n \in ToSet(toml[r]) : n.file \in DOMAIN woff /\ woff[n.file] = n.hash
=============================================================================
