----------------------------- MODULE MCJourneys -----------------------------
(***************************************************************************)
(* For TLC, the commands around a running application: the view compiler   *)
(* it is built with, `aru test`, `aru e2e:record` and the browser of       *)
(* `aru mcp`.  A behaviour is of one of them: they share no state.         *)
(***************************************************************************)
EXTENDS ViewCompile, Sequences, FiniteSets, TLC

CONSTANTS
    page, base, reader,                                  \* views
    Suite, Lines, Faults, MaxMachines, E2E, Root,        \* TestRun
    RouteTable, Pages, Gestures, Leads, MaxGestures,     \* Recorder
    Calls, MaxErrors                                     \* BrowserSession

VARIABLES
    of,                                                  \* the part this behaviour is of
    typed, machines, broken, tPc, calls, red, ran, tAnswer,
    rPc, force, window, at, wire, events, enter, done, strayed, idle, file, others, rAnswer,
    serving, holder, driver, drives, errs, cPc, tool, steps, cAnswer, started, alive, reported, told

Tests == INSTANCE TestRun WITH todo <- calls
Recording == INSTANCE Recorder
Browser == INSTANCE BrowserSession WITH page <- drives

testRun == <<typed, machines, broken, tPc, calls, red, ran, tAnswer>>
recorder == <<rPc, force, window, at, wire, events, enter, done, strayed, idle, file, others, rAnswer>>
browser == <<serving, holder, driver, drives, errs, cPc, tool, steps, cAnswer, started, alive, reported, told>>
all == <<of, vars, testRun, recorder, browser>>

Off == "not in this behaviour"

NoViews == Init /\ project /\ src = Untyped /\ \A r \in Revisions : form[r] = "sound"
NoTests ==
    /\ typed = Off /\ machines = 0 /\ broken = Off /\ tPc = Off /\ calls = Off /\ red = Off
    /\ ran = Off /\ tAnswer = Off
NoRecording ==
    /\ rPc = Off /\ force = Off /\ window = Off /\ at = Off /\ wire = Off /\ events = Off
    /\ enter = Off /\ done = Off /\ strayed = Off /\ idle = Off /\ file = Off /\ others = Off
    /\ rAnswer = Off
NoBrowser ==
    /\ serving = Off /\ holder = Off /\ driver = 0 /\ drives = 0 /\ errs = {} /\ cPc = Off
    /\ tool = Off /\ steps = Off /\ cAnswer = Off /\ started = Off /\ alive = {} /\ reported = Off
    /\ told = <<>>

MCInit ==
    /\ of \in {"views", "tests", "recording", "browser"}
    /\ IF of = "views"     THEN Init           ELSE NoViews
    /\ IF of = "tests"     THEN Tests!Init     ELSE NoTests
    /\ IF of = "recording" THEN Recording!Init ELSE NoRecording
    /\ IF of = "browser"   THEN Browser!Init   ELSE NoBrowser

MCNext ==
    /\ UNCHANGED of
    /\ IF of = "views"     THEN Next           ELSE UNCHANGED vars
    /\ IF of = "tests"     THEN Tests!Next     ELSE UNCHANGED testRun
    /\ IF of = "recording" THEN Recording!Next ELSE UNCHANGED recorder
    /\ IF of = "browser"   THEN Browser!Next   ELSE UNCHANGED browser

MCSpec == MCInit /\ [][MCNext]_all

\* The tests, each with a name of its own in its package, and what is typed.
ASSUME SuiteAssumption ==
    /\ IsFiniteSet(Suite) /\ Suite \subseteq [pkg : Nat, name : Nat, smoke : BOOLEAN]
    /\ \A s, t \in Suite : s.pkg = t.pkg /\ s.name = t.name => s = t
    /\ E2E \in Nat /\ Root \in Nat /\ MaxMachines \in Nat
ASSUME LinesAssumption ==
    /\ Lines \subseteq Seq(Tests!Argument)
    /\ \A line \in Lines : \A i \in DOMAIN line : line[i].flag # "packages"
    \* A word is the value of the flag before it, never a package.
    /\ \A line \in Lines : \A i \in DOMAIN line :
          Tests!Word(line[i]) => i > 1 /\ ~ Tests!Word(line[i - 1]) /\ ~ line[i - 1].joined
\* The provers do not know of a string that is written out that it is one.
ASSUME StringsAssumption == {Tests!Empty, "run", "tags", "packages", "e2e", "args"} \subseteq STRING

\* The application that is recorded: its named routes, each of a name of its own
\* and with a "{...}" at the end if at all.
ASSUME RoutesAssumption ==
    /\ RouteTable \in Seq([name : STRING, pattern : Seq(STRING)])
    /\ \A i, j \in DOMAIN RouteTable : RouteTable[i].name = RouteTable[j].name => i = j
    /\ \A i \in DOMAIN RouteTable :
          /\ RouteTable[i].name # Recording!Nothing
          /\ \A k \in DOMAIN RouteTable[i].pattern :
                RouteTable[i].pattern[k] = Recording!TheRest => k = Len(RouteTable[i].pattern)

\* Its pages, and what leads to them.  A click on a field leads nowhere.
ASSUME PagesAssumption ==
    /\ Pages \subseteq [segs : Seq(STRING), query : BOOLEAN, other : BOOLEAN]
    /\ Leads \in [Pages \X Gestures -> SUBSET Pages]
    /\ \A g \in Gestures : g.kind # "load" /\ \A p \in Pages : g.kind = Recording!ClickField => Leads[p, g] = {}

-----------------------------------------------------------------------------
\* The machines of a pipeline run the suite once; see TestRun.
SuiteIsRunOnce == of = "tests" => Tests!SuiteIsRunOnce

\* The journey that was recorded leads where the person went; see Recorder.
JourneyReplays == of = "recording" => Recording!JourneyReplays

\* No browser is left behind and no error of its page unsaid; see BrowserSession.
BrowserIsKept ==
    [](Browser!BrowserHasItsSession /\ Browser!ToldOnce) /\ [][Browser!ToldWithItsPage]_(Browser!session)

-----------------------------------------------------------------------------
(* A layout and two pages that take its type: one that sorts before it, and *)
(* one that reads a field of its data.                                     *)

MCPath == (page :> 1) @@ (base :> 2) @@ (reader :> 3)
MCExtends == (page :> base) @@ (base :> NoView) @@ (reader :> base)

-----------------------------------------------------------------------------
(* Three packages of tests, and what is typed after `aru test`.            *)

test(pkg, name, smoke) == [pkg |-> pkg, name |-> name, smoke |-> smoke]
exactly(tests) == [selects |-> tests, lists |-> tests]
MCSuite ==
    {test(0, 1, FALSE), test(1, 1, FALSE), test(1, 2, FALSE), test(2, 1, FALSE), test(2, 3, TRUE), test(2, 4, TRUE)}
MCFaults == {{}, {test(2, 4, TRUE)}}

Says(value) == [flag |-> "none", value |-> value, joined |-> FALSE, run |-> exactly({}), tags |-> {}, packages |-> {}]
On(flag) == [Says("none") EXCEPT !.flag = flag]
With(flag, value) == [On(flag) EXCEPT !.value = value, !.joined = TRUE]
Naming(flag, names) == [With(flag, "x") EXCEPT ![flag] = names]

\* Names that begin so, a subtest of them, and that or one test by its name.
Ones == {t \in MCSuite : t.name = 1}
SubtestsOfOnes == [selects |-> Ones, lists |-> {}]
OneAndSubtests == [selects |-> Ones, lists |-> {t \in Ones : t.pkg = 1}]
Sharded == <<With("shard", "i/n")>>
Narrowing ==
    {<<On("e2e")>>, <<On("smoke")>>, <<Naming("run", exactly(Ones))>>, <<Naming("tags", {"slow"})>>, <<On("--")>>,
     <<On("tags"), [Says("e2e") EXCEPT !.tags = {"e2e"}]>>}
Phrases ==
    Narrowing \cup
    {Sharded, <<On("shard"), Says("i/n")>>, <<On("shard")>>, <<With("shard", "3/2")>>, <<On("timeout"), Says("30s")>>,
     <<With("driver", "cdp")>>, <<On("browser")>>, <<On("browser"), Says("firefox")>>, <<On("list")>>, <<On("json")>>,
     <<On("run"), [Says("Test") EXCEPT !.run = exactly({t \in MCSuite : t.name # 2})]>>,
     <<Naming("run", SubtestsOfOnes)>>, <<On("run"), [Says("A|B/x") EXCEPT !.run = OneAndSubtests]>>,
     <<On("args"), Says("x")>>}
MCLines ==
    {<<>>} \cup Phrases \cup {a \o b : a, b \in Phrases} \cup {Sharded \o a \o b : a, b \in Narrowing}

-----------------------------------------------------------------------------
(* A site of four routes, and a bank it sends its customers to.            *)

address(segs) == [segs |-> segs, query |-> FALSE, other |-> FALSE]
new == address(<<"invoices", "new">>)
seven == address(<<"invoices", "7">>)
paid == [seven EXCEPT !.query = TRUE]
bank == [address(<<"pay">>) EXCEPT !.other = TRUE]
document == address(<<"files", "a", "b">>)
MCPages == {new, seven, paid, bank, document}

route(name, pattern) == [name |-> name, pattern |-> pattern]
MCRoutes ==
    <<route("files", <<"files", "{...}">>), route("show", <<"invoices", "{}">>), route("index", <<"invoices">>),
      route("create", <<"invoices", "new">>)>>

gesture(kind, on) == [kind |-> kind, on |-> on]
link == gesture("click", "link")
save == gesture("click submit", "save")
MCGestures == {link, save, gesture("fill", "card"), gesture("click field", "card")}
MCLeads == [pair \in MCPages \X MCGestures |->
    CASE pair \in {<<new, link>>, <<paid, save>>} -> {seven}
      [] pair = <<seven, link>> -> {document}
      [] pair = <<seven, save>> -> {paid}
      [] pair = <<paid, link>> -> {bank}
      [] pair \in {<<new, save>>, <<document, link>>} -> {new}
      [] OTHER -> {}]
=============================================================================
