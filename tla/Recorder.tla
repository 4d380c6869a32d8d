------------------------------ MODULE Recorder ------------------------------
(***************************************************************************)
(* `aru e2e:record` (e2erecord.go, its script, e2eroutes.go): a person     *)
(* walks through the running application in a browser, a script in every   *)
(* document reports what was done, and the command writes the journey.     *)
(*                                                                         *)
(* An address is a record: its segments, whether it has a query, and       *)
(* whether it is of another application.  A pattern is a sequence of       *)
(* segments, of which "{}" takes one and "{...}" takes the rest.           *)
(***************************************************************************)
EXTENDS Naturals, Sequences, FiniteSets, SequencesExt

CONSTANTS
    RouteTable,    \* the GET routes, as the project map lists them: name, pattern
    Pages,         \* the addresses of the application
    Gestures,      \* what a person does to a page: kind, the element
    Leads,         \* the page a gesture on a page leads to, {} when none is loaded
    MaxGestures    \* bound: gestures and typed addresses of a recording

VARIABLES
    rPc,           \* where the command is
    force,         \* --force
    window,        \* "none", "open", "closed"
    at,            \* the page in it
    wire,          \* reported by the script, not yet by the driver
    events,        \* recording.events
    enter,         \* Enter was pressed, or the command interrupted
    done,          \* bound: gestures so far
    strayed,       \* observation: an address was typed after a gesture that led nowhere
    idle,          \* the last thing done was a gesture that led nowhere
    file,          \* tests/E2E/<Journey>_test.go: {} or the steps in it
    others,        \* observation: somebody else created that file
    rAnswer

recorder == <<rPc, force, window, at, wire, events, enter, done, strayed, idle, file, others, rAnswer>>

NoPage == [segs |-> <<>>, query |-> FALSE, other |-> TRUE]

-----------------------------------------------------------------------------
(* Route names.                                                            *)

AWord == "{}"
TheRest == "{...}"
Nothing == ""
IsWild(seg) == seg \in {AWord, TheRest}
literalSegments(pattern) == Cardinality({i \in DOMAIN pattern : ~ IsWild(pattern[i])})

\* projectRoutes: the route with more literal segments comes first; ties stay as
\* listed.
Precedes(i, j) ==
    LET a == literalSegments(RouteTable[i].pattern)
        b == literalSegments(RouteTable[j].pattern)
    IN a > b \/ (a = b /\ i < j)

\* The segment of a pattern that takes the rest, or the one after its last.
RestOf(pattern) ==
    CHOOSE i \in 1 .. Len(pattern) + 1 :
        /\ i <= Len(pattern) => pattern[i] = TheRest
        /\ \A j \in 1 .. i - 1 : pattern[j] # TheRest

MatchesPattern(pattern, segs) ==
    LET rest == RestOf(pattern) IN
    /\ IF rest <= Len(pattern) THEN rest <= Len(segs) ELSE Len(segs) = Len(pattern)
    /\ \A i \in 1 .. rest - 1 : IF pattern[i] = AWord THEN segs[i] # Nothing ELSE pattern[i] = segs[i]

\* A parameter for each wildcard, in order.
matchPattern(pattern, segs) ==
    LET rest == RestOf(pattern)
        params[i \in 0 .. rest - 1] ==
            IF i = 0 THEN <<>>
            ELSE IF pattern[i] = AWord THEN Append(params[i - 1], <<segs[i]>>) ELSE params[i - 1]
    IN params[rest - 1] \o (IF rest <= Len(pattern) THEN <<SubSeq(segs, rest, Len(segs))>> ELSE <<>>)

\* A route name with its parameters, the path, or the whole address.
Named(address) == {i \in DOMAIN RouteTable : MatchesPattern(RouteTable[i].pattern, address.segs)}
routeTarget(address) ==
    IF address.other \/ address.query \/ Named(address) = {} THEN [name |-> Nothing, params |-> <<>>, path |-> address]
    ELSE LET r == RouteTable[CHOOSE i \in Named(address) : \A j \in Named(address) \ {i} : Precedes(i, j)]
         IN [name |-> r.name, params |-> matchPattern(r.pattern, address.segs), path |-> NoPage]

\* fillPattern, which the kit resolves a name with: the parameters in order.
fillPattern(pattern, params) ==
    LET filled[i \in 0 .. Len(pattern)] ==
            IF i = 0 THEN [segs |-> <<>>, used |-> 0]
            ELSE IF IsWild(pattern[i])
                 THEN [segs |-> filled[i - 1].segs \o params[filled[i - 1].used + 1], used |-> filled[i - 1].used + 1]
                 ELSE [segs |-> Append(filled[i - 1].segs, pattern[i]), used |-> filled[i - 1].used]
    IN filled[Len(pattern)].segs

-----------------------------------------------------------------------------
(* The statements of a journey.                                            *)

Visit(address) == [step |-> "Visit", what |-> routeTarget(address)]
ExpectURL(address) == [step |-> "ExpectURL", what |-> routeTarget(address)]
Gesture(g) == [step |-> "gesture", what |-> g]

\* Mutant: what was done before a page loaded still counts after it.
RecordedStillActing(s, e) ==
    CASE e.kind # "load" -> [s EXCEPT !.steps = Append(@, Gesture(e.what)), !.acted = TRUE]
      [] e.kind = "load" /\ s.last = {e.what} -> s
      [] OTHER ->
            [steps |-> Append(s.steps, IF s.acted THEN ExpectURL(e.what) ELSE Visit(e.what)),
             acted |-> s.acted, last |-> {e.what}]

\* A page that loads after a gesture is where it led; the address the journey
\* is at is not said twice.
Recorded(s, e) ==
    CASE e.kind # "load" -> [s EXCEPT !.steps = Append(@, Gesture(e.what)), !.acted = TRUE]
      [] e.kind = "load" /\ s.last = {e.what} -> s
      [] OTHER ->
            [steps |-> Append(s.steps, IF s.acted THEN ExpectURL(e.what) ELSE Visit(e.what)),
             acted |-> FALSE, last |-> {e.what}]

Followed(reported) ==
    LET after[n \in 0 .. Len(reported)] ==
            IF n = 0 THEN [steps |-> <<>>, acted |-> FALSE, last |-> {}] ELSE Recorded(after[n - 1], reported[n])
    IN after[Len(reported)]

recordedSteps(reported) == Followed(reported).steps

-----------------------------------------------------------------------------
(* What the script in a document reports, in order.  A click on a field or *)
(* a label is left to the change it causes, and a submission to the click  *)
(* on its button.                                                          *)

ClickField == "click field"
ClickSubmit == "click submit"

Report(kind, what) == <<[kind |-> kind, what |-> what]>>
Reported(g) ==
    CASE g.kind = ClickField -> <<>>
      [] g.kind = ClickSubmit -> Report("click", g)
      [] OTHER -> Report(g.kind, g)

Init ==
    /\ rPc = "check" /\ force \in BOOLEAN /\ file \in {{}, {<<>>}}
    /\ window = "none" /\ wire = <<>> /\ events = <<>> /\ enter = FALSE /\ done = 0
    /\ at \in Pages /\ idle = FALSE /\ strayed = FALSE /\ others = FALSE /\ rAnswer = "none"

Goto(from, to) == rPc = from /\ rPc' = to

Answer(answer) == rPc' = "returned" /\ rAnswer' = answer

site == <<window, at, wire, done, strayed, idle>>
disk == <<file, others>>

\* e2eRecord, before the browser: a journey of the name is refused.
RefuseTaken ==
    /\ rPc = "check" /\ ~ force /\ file # {}
    /\ Answer("refused") /\ UNCHANGED <<force, site, events, enter, disk>>

\* The application does not answer, or the browser does not start.
NothingAnswers ==
    /\ rPc = "check" /\ (force \/ file = {})
    /\ Answer("failed") /\ UNCHANGED <<force, site, events, enter, disk>>

recordLaunch ==
    /\ Goto("check", "install") /\ (force \/ file = {})
    /\ window' = "open"
    /\ UNCHANGED <<force, at, wire, events, enter, done, strayed, idle, disk, rAnswer>>

\* record: Listen and the script come before the address is opened.
Navigate ==
    /\ Goto("install", "record")
    /\ wire' = Report("load", at)
    /\ UNCHANGED <<force, window, at, events, enter, done, strayed, idle, disk, rAnswer>>

\* The script is not installed, or the address not opened; the browser is closed.
NavigateFails ==
    /\ rPc = "install" /\ window' = "closed" /\ Answer("failed")
    /\ UNCHANGED <<force, at, wire, events, enter, done, strayed, idle, disk>>

\* The deferred Close ends the browser when the command returns.
Stops ==
    /\ Goto("record", "write")
    /\ enter \/ window = "closed"
    /\ UNCHANGED <<force, site, events, enter, disk, rAnswer>>

\* gen.Write: without --force the file is created exclusively, and a file that
\* is there is skipped without an error.
writeRecording ==
    /\ rPc = "write"
    /\ LET steps == recordedSteps(events) IN
       IF steps = <<>> THEN Answer("nothing") /\ UNCHANGED file
       ELSE /\ file' = IF force \/ file = {} THEN {steps} ELSE file
            /\ Answer("created")
    /\ window' = "closed"
    /\ UNCHANGED <<force, at, wire, events, enter, done, strayed, idle, others>>

WriteFails ==
    /\ rPc = "write" /\ recordedSteps(events) # <<>>
    /\ Answer("failed") /\ window' = "closed"
    /\ UNCHANGED <<force, at, wire, events, enter, done, strayed, idle, disk>>

-----------------------------------------------------------------------------
(* The person, the browser and somebody else, while it records.            *)

Walks == rPc = "record" /\ window = "open" /\ done < MaxGestures

Does(g) ==
    /\ Walks /\ done' = done + 1
    /\ LET to == Leads[at, g] IN
       /\ at' = IF to = {} THEN at ELSE CHOOSE page \in to : TRUE
       /\ wire' = wire \o Reported(g) \o (IF to = {} THEN <<>> ELSE Report("load", at'))
       /\ idle' = IF to = {} THEN idle \/ Reported(g) # <<>> ELSE at' = at
    /\ UNCHANGED <<rPc, force, window, events, enter, strayed, disk, rAnswer>>

\* An address typed into the browser.
Types(page) ==
    /\ Walks /\ done' = done + 1
    /\ at' = page /\ wire' = wire \o Report("load", page)
    /\ strayed' = (strayed \/ idle) /\ idle' = FALSE
    /\ UNCHANGED <<rPc, force, window, events, enter, disk, rAnswer>>

\* recording.event, in a goroutine of the driver.
event ==
    /\ rPc \in {"record", "write"} /\ wire # <<>>
    /\ events' = Append(events, Head(wire)) /\ wire' = Tail(wire)
    /\ UNCHANGED <<rPc, force, window, at, enter, done, strayed, idle, disk, rAnswer>>

PressesEnter ==
    /\ rPc = "record" /\ ~ enter /\ enter' = TRUE
    /\ UNCHANGED <<rPc, force, site, events, disk, rAnswer>>

ClosesWindow ==
    /\ rPc = "record" /\ window = "open" /\ window' = "closed"
    /\ UNCHANGED <<rPc, force, at, wire, events, enter, done, strayed, idle, disk, rAnswer>>

\* Another command, or a person, writes a journey of that name meanwhile.
TakesTheName ==
    /\ rPc \in {"install", "record", "write"} /\ file = {} /\ file' = {<<>>} /\ others' = TRUE
    /\ UNCHANGED <<rPc, force, site, events, enter, rAnswer>>

Next ==
    \/ RefuseTaken \/ NothingAnswers \/ recordLaunch \/ Navigate \/ NavigateFails \/ Stops
    \/ writeRecording \/ WriteFails \/ event \/ PressesEnter \/ ClosesWindow \/ TakesTheName
    \/ \E g \in Gestures : Does(g)
    \/ \E page \in Pages : Types(page)

Spec == Init /\ [][Next]_recorder
-----------------------------------------------------------------------------
(* The journey, run against the application it was recorded on.            *)

Resolves(what) ==
    IF what.name = Nothing THEN what.path
    ELSE LET r == CHOOSE r \in ToSet(RouteTable) : r.name = what.name
         IN [segs |-> fillPattern(r.pattern, what.params), query |-> FALSE, other |-> FALSE]

Played(p, s) ==
    CASE s.step = "Visit" -> [p EXCEPT !.at = Resolves(s.what)]
      [] s.step = "ExpectURL" -> [p EXCEPT !.held = @ /\ p.at = Resolves(s.what)]
      [] OTHER -> LET to == (IF p.at \in Pages THEN Leads[p.at, s.what] ELSE {})
                  IN [p EXCEPT !.at = IF to = {} THEN @ ELSE CHOOSE page \in to : TRUE]

Walked(steps) ==
    LET after[n \in 0 .. Len(steps)] ==
            IF n = 0 THEN [at |-> NoPage, held |-> steps # <<>> => steps[1].step = "Visit"]
            ELSE Played(after[n - 1], steps[n])
    IN after[Len(steps)]

Plays(steps) == Walked(steps).held

\* A journey that was reported as created is there, opens a page before it does
\* anything and, run against the application it was recorded on, is at every
\* address it expects: the names it gives the routes lead back to the pages, and
\* a page is expected only where a gesture led to it.  Excepted are an address
\* typed after a gesture that led nowhere (no time is looked at, e2erecord.go:175)
\* and a file that came meanwhile (the answer of gen.Write is not, e2erecord.go:358).
JourneyReplays ==
    rAnswer = "created" /\ ~ strayed /\ ~ others => \A steps \in file : steps = recordedSteps(events) /\ Plays(steps)
=============================================================================
