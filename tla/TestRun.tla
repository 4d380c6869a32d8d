------------------------------ MODULE TestRun -------------------------------
(***************************************************************************)
(* `aru test` (runtests.go): what it makes of its arguments, and the tests *)
(* it has go test run.  With --shard i/n the machines of a pipeline type   *)
(* the same line, each with its own i, and divide one suite.               *)
(*                                                                         *)
(* An argument is a record: the name of a flag (Empty when it is a word,   *)
(* End when it is a bare "--"), its value, whether the value is joined to  *)
(* it by a sign, and what that value means to each flag: the pattern it is *)
(* after -run, the tags after -tags, the packages aru itself puts on a     *)
(* line.  A pattern selects tests after -run, which reads it up to its     *)
(* first "/" and leaves the rest to the subtests, and lists tests after    *)
(* -list, which holds it as a whole against their names.  A test is a      *)
(* record: its package and name, each by its place in the order of         *)
(* strings, and whether the name begins with TestSmoke.                    *)
(***************************************************************************)
EXTENDS Naturals, Sequences, FiniteSets, SequencesExt

CONSTANTS
    Suite,         \* the tests of the project
    Lines,         \* what is typed after `aru test`, without the number of a machine
    Faults,        \* the sets of tests that may fail
    MaxMachines,   \* bound: machines that share a suite
    E2E, Root      \* the packages tests/E2E, whose files carry the tag e2e, and .

VARIABLES
    typed,         \* the line
    machines,      \* how many machines there are
    broken,        \* the tests that fail
    tPc,           \* where the command of each machine is
    todo,          \* the calls of go test it has left
    red,           \* failed: a call of go test has failed
    ran,           \* observation: how often each test was run
    tAnswer

testRun == <<typed, machines, broken, tPc, todo, red, ran, tAnswer>>

-----------------------------------------------------------------------------
(* parseTestArgs.                                                          *)

Empty == "none"
End == "--"
Pattern == [selects : SUBSET Suite, lists : SUBSET Suite]
Exactly(tests) == [selects |-> tests, lists |-> tests]
Argument == [flag : STRING, value : STRING, joined : BOOLEAN, run : Pattern, tags : SUBSET STRING,
             packages : SUBSET Nat]
Word(a) == a.flag = Empty
Engines == {"chromium", "firefox"}
Number == "i/n"         \* the number of a machine, as it is typed
OtherText == "-"        \* a flag, read as text

\* An argument taken as the value of the flag before it.
Text(a) == IF Word(a) THEN a.value ELSE OtherText

Nothing == [e2e |-> FALSE, smoke |-> FALSE, sharded |-> FALSE, driver |-> FALSE, engine |-> FALSE,
            deprecated |-> FALSE, list |-> FALSE, rest |-> <<>>,
            wants |-> Empty, over |-> FALSE, wrong |-> FALSE]

Rest(run, a) == [run EXCEPT !.rest = Append(@, a)]

\* --shard, --driver and --browser with their values.
Valued(run, flag, value) ==
    CASE flag = "shard" -> IF value = Number THEN [run EXCEPT !.sharded = TRUE] ELSE [run EXCEPT !.wrong = TRUE]
      [] flag = "driver" -> IF value = Empty THEN [run EXCEPT !.wrong = TRUE] ELSE [run EXCEPT !.driver = TRUE, !.e2e = TRUE]
      [] OTHER -> IF value \in Engines THEN [run EXCEPT !.engine = TRUE, !.e2e = TRUE] ELSE [run EXCEPT !.wrong = TRUE]

Bare(run) == [run EXCEPT !.e2e = TRUE, !.deprecated = TRUE]

\* One argument that is not the value of the one before it.
Read(run, a) ==
    IF run.over \/ Word(a) THEN Rest(run, a) ELSE
    CASE a.flag = End -> [Rest(run, a) EXCEPT !.over = TRUE]
      [] a.flag = "list" /\ ~ a.joined -> [run EXCEPT !.list = TRUE]
      [] a.flag = "e2e" -> [run EXCEPT !.e2e = TRUE]
      [] a.flag = "smoke" -> [run EXCEPT !.e2e = TRUE, !.smoke = TRUE]
      [] a.flag \in {"shard", "driver", "browser"} ->
            IF a.joined THEN Valued(run, a.flag, a.value) ELSE [run EXCEPT !.wants = a.flag]
      [] OTHER -> Rest(run, a)

\* --shard and --driver take whatever follows; --browser takes an engine.
Taken(run, a) ==
    LET now == [run EXCEPT !.wants = Empty]
        engine == Word(a) /\ a.value \in Engines
    IN IF run.wrong THEN run ELSE
       CASE run.wants \in {"shard", "driver"} -> Valued(now, run.wants, Text(a))
         [] run.wants = "browser" /\ engine -> Valued(now, "browser", a.value)
         [] run.wants = "browser" /\ ~ engine -> Read(Bare(now), a)
         [] OTHER -> Read(run, a)

\* --json is aru's beside --list, and go test's otherwise.
WithoutJSON(run) ==
    LET terminated == {i \in DOMAIN run.rest : run.rest[i].flag = End}
        kept == SelectSeq([i \in DOMAIN run.rest |-> i],
                          LAMBDA i : \/ run.rest[i].flag # "json" \/ run.rest[i].joined
                                     \/ \E e \in terminated : e < i)
    IN [run EXCEPT !.rest = [i \in DOMAIN kept |-> run.rest[kept[i]]]]

Scanned(args) ==
    LET after[n \in 0 .. Len(args)] == IF n = 0 THEN Nothing ELSE Taken(after[n - 1], args[n]) IN after[Len(args)]

Finished(run) ==
    CASE run.wants \in {"shard", "driver"} -> [run EXCEPT !.wrong = TRUE]
      [] run.wants = "browser" -> Bare(run)
      [] OTHER -> run
parseTestArgs(args) == LET run == Finished(Scanned(args)) IN IF run.list THEN WithoutJSON(run) ELSE run

listConflict(run) ==
    run.smoke \/ run.sharded \/ run.driver \/ run.engine \/ run.deprecated \/ run.e2e \/ run.rest # <<>>

-----------------------------------------------------------------------------
(* The flags of go test among the rest, up to a bare "--".  An -args, where *)
(* go test ends its own as well, is to aru a flag like any other.          *)

Scan == [over |-> FALSE, wants |-> FALSE, named |-> <<>>, rest |-> <<>>]

Means(flag, a) == IF flag = "run" THEN a.run ELSE a.tags
TakenFlag(flag, s, a) ==
    IF s.over \/ (~ s.wants /\ a.flag \notin {flag, End}) THEN [s EXCEPT !.rest = Append(@, a)]
    ELSE IF ~ s.wants /\ a.flag = End THEN [s EXCEPT !.over = TRUE, !.rest = Append(@, a)]
    ELSE IF s.wants \/ a.joined THEN [s EXCEPT !.wants = FALSE, !.named = Append(@, Means(flag, a))]
    ELSE [s EXCEPT !.wants = TRUE]
takeFlag(flag, args) ==
    LET after[n \in 0 .. Len(args)] == IF n = 0 THEN Scan ELSE TakenFlag(flag, after[n - 1], args[n]) IN after[Len(args)]

\* Every tag named, so that e2e joins them; and the last -run, which may say nothing.
takeTags(args) == LET s == takeFlag("tags", args) IN [tags |-> UNION ToSet(s.named), rest |-> s.rest]
takeRun(args) ==
    LET s == takeFlag("run", args)
    IN [pattern |-> IF s.wants \/ s.named = <<>> THEN Exactly(Suite) ELSE Last(s.named), rest |-> s.rest]
hasFlag(args, flag) ==
    \E i \in DOMAIN args : args[i].flag = flag /\ \A j \in 1 .. i : args[j].flag # End

NoArgument == [flag |-> Empty, value |-> Empty, joined |-> FALSE, run |-> Exactly({}), tags |-> {}, packages |-> {}]
TagsFlag(tags) == <<[NoArgument EXCEPT !.flag = "tags", !.joined = TRUE, !.tags = tags]>>
RunFlag(tests) == <<[NoArgument EXCEPT !.flag = "run", !.joined = TRUE, !.run = Exactly(tests)]>>
PackagesFlag(pkgs) == <<[NoArgument EXCEPT !.flag = "packages", !.joined = TRUE, !.packages = pkgs]>>
Smoke == {t \in Suite : t.smoke}

-----------------------------------------------------------------------------
(* go test, as far as it is used: the tests of the packages named, with    *)
(* the last -tags and the last -run.  What follows a bare "--" or an -args *)
(* is for the tests themselves, the packages too, and . is tested then.    *)

Terminated(args) == \E i \in DOMAIN args : args[i].flag \in {End, "args"}

\* The arguments that come before an -args.
Heard(args) ==
    LET at == {i \in DOMAIN args : args[i].flag = "args"} IN IF at = {} THEN args ELSE SubSeq(args, 1, Min(at) - 1)

\* The tests that are compiled, those that -list prints and those that are run.
Compiled(args) ==
    LET tags == takeFlag("tags", Heard(args)).named
        read == {a \in ToSet(args) : a.flag = "packages"}
        named == IF Terminated(args) THEN {Root} ELSE UNION {a.packages : a \in read}
    IN {t \in Suite : t.pkg \in named /\ (t.pkg = E2E => tags # <<>> /\ "e2e" \in Last(tags))}
Listed(pattern, args) == Compiled(args) \cap pattern.lists
Tests(args) == Compiled(args) \cap takeRun(Heard(args)).pattern.selects

-----------------------------------------------------------------------------
(* runTests.                                                               *)

Run == parseTestArgs(typed)

Packages == PackagesFlag(IF Run.e2e THEN {E2E} ELSE {t.pkg : t \in Suite} \cup {Root})

\* The tags, and the rest with the smoke tests chosen.
Tagged == takeTags(Run.rest)
TagArgs ==
    LET tags == Tagged.tags \cup (IF Run.e2e THEN {"e2e"} ELSE {}) IN IF tags = {} THEN <<>> ELSE TagsFlag(tags)
RestArgs == Tagged.rest \o (IF Run.smoke THEN RunFlag(Smoke) ELSE <<>>)

Refused ==
    \/ Run.wrong
    \/ Run.e2e /\ ~ \E t \in Suite : t.pkg = E2E
    \/ Run.smoke /\ hasFlag(Tagged.rest, "run")

Before(s, t) == s.pkg < t.pkg \/ (s.pkg = t.pkg /\ s.name < t.name)

\* How many tests come before one.
Place(t, all) == Cardinality({s \in all : Before(s, t)})

\* Mutant: the places are counted from one.
sliceFromOne(m, all) == {t \in all : (Place(t, all) + 1) % machines = m - 1 /\ Place(t, all) > 0}

\* The slice of machine m: sorted, every n-th from the m-th.
slice(m, all) == {t \in all : Place(t, all) % machines = m - 1}

\* Numbers in order.
Sorted(S) == [i \in 1 .. Cardinality(S) |-> CHOOSE p \in S : Cardinality({q \in S : q < p}) = i - 1]

\* The value of -run is given to -list; then one call of go test for each package
\* of the slice, in order.
shardTests(m) ==
    LET taken == takeRun(RestArgs)
        mine == slice(m, Listed(taken.pattern, TagArgs \o Packages))
        pkgs == Sorted({t.pkg : t \in mine})
        names(p) == {t \in Suite : \E s \in mine : s.pkg = p /\ s.name = t.name}
    IN [i \in DOMAIN pkgs |-> TagArgs \o taken.rest \o RunFlag(names(pkgs[i])) \o PackagesFlag({pkgs[i]})]

Machines == 1 .. machines

Init ==
    /\ typed \in Lines /\ broken \in Faults
    /\ machines \in IF Run.sharded THEN 1 .. MaxMachines ELSE {1}
    /\ tPc = [m \in Machines |-> "parse"] /\ todo = [m \in Machines |-> <<>>]
    /\ red = [m \in Machines |-> FALSE] /\ ran = [t \in Suite |-> 0]
    /\ tAnswer = [m \in Machines |-> "none"]

constant == <<typed, machines, broken>>
TestGoto(m, from, to) == tPc[m] = from /\ tPc' = [tPc EXCEPT ![m] = to]
Answers(m, answer) == tAnswer' = [tAnswer EXCEPT ![m] = answer]

\* --list reads the sources and runs nothing; a line that cannot be meant is
\* refused before anything is built.
Parse(m) ==
    /\ TestGoto(m, "parse", IF Refused \/ Run.list THEN "returned" ELSE "views")
    /\ Answers(m, CASE Run.wrong -> "error"
                    [] ~ Run.wrong /\ Run.list -> IF listConflict(Run) THEN "error" ELSE "listed"
                    [] OTHER -> IF Refused THEN "error" ELSE "none")
    /\ UNCHANGED <<constant, todo, red, ran>>

ensureViews(m) ==
    /\ TestGoto(m, "views", "test")
    /\ todo' = [todo EXCEPT ![m] = IF Run.sharded THEN shardTests(m) ELSE <<TagArgs \o RestArgs \o Packages>>]
    /\ UNCHANGED <<constant, red, ran, tAnswer>>

\* There is no project or no go; the views do not build; with --list the sources
\* cannot be read, and with --shard the tests cannot be listed.
NothingToRun(m) ==
    /\ \E from \in {"parse", "views"} : TestGoto(m, from, "returned")
    /\ Answers(m, "error")
    /\ UNCHANGED <<constant, todo, red, ran>>

\* A call of go test; one that could not start counts as failed, and the next
\* package is tested all the same.
goTest(m, starts) ==
    /\ tPc[m] = "test" /\ todo[m] # <<>>
    /\ LET tests == IF starts THEN Tests(Head(todo[m])) ELSE {} IN
       /\ ran' = [t \in Suite |-> IF t \in tests THEN ran[t] + 1 ELSE ran[t]]
       /\ red' = [red EXCEPT ![m] = @ \/ ~ starts \/ tests \cap broken # {}]
    /\ todo' = [todo EXCEPT ![m] = Tail(@)]
    /\ UNCHANGED <<constant, tPc, tAnswer>>

Return(m) ==
    /\ todo[m] = <<>> /\ TestGoto(m, "test", "returned")
    /\ Answers(m, IF red[m] THEN "error" ELSE "ok")
    /\ UNCHANGED <<constant, todo, red, ran>>

Next ==
    \E m \in Machines :
        Parse(m) \/ ensureViews(m) \/ NothingToRun(m) \/ Return(m) \/ \E starts \in BOOLEAN : goTest(m, starts)

Spec == Init /\ [][Next]_testRun
-----------------------------------------------------------------------------
(* What the line asks for: the journeys or the rest of the suite, and of   *)
(* those the smoke tests or the ones a -run matches.                       *)

Wanted ==
    {t \in takeRun(typed).pattern.selects :
        /\ Run.e2e => t.pkg = E2E
        /\ t.pkg = E2E => Run.e2e \/ "e2e" \in takeTags(typed).tags
        /\ Run.smoke => t.smoke}

\* A flag that takes a value has one, which is not a flag.
Complete(args) ==
    \A i \in DOMAIN args :
        args[i].flag \in {"run", "tags", "driver"} /\ ~ args[i].joined => i < Len(args) /\ Word(args[i + 1])

\* A -run whose subtests are named lists other tests than it selects.
NamesSubtests(args) == takeRun(args).pattern.selects # takeRun(args).pattern.lists

\* When every machine says the tests passed, every test the line asks for was
\* run, by exactly one of them, no other was, and none of them fails.  The code
\* breaks this, and the statement leaves them out, on
\* - a line that is divided and whose -run names subtests: its whole value is given
\*   to -list, which does not split it at "/" (runtests.go:202-209).  With TestA/sub
\*   nothing is listed, every machine says its shard has no test to run and answers
\*   ok, and the tests asked for run nowhere;
\* - a line with a bare "--" or an -args: -run and the packages are put after it, and
\*   go test hands them to the tests (runtests.go:131, 151, 171);
\* - a line that leaves out the value of a flag, which then takes what was typed or is
\*   put next.
SuiteIsRunOnce ==
    /\ \A m \in Machines : tAnswer[m] = "ok"
    /\ Run.sharded => ~ NamesSubtests(typed)
    /\ ~ Terminated(typed) /\ Complete(typed)
    =>
    /\ \A t \in Suite : ran[t] = IF t \in Wanted THEN 1 ELSE 0
    /\ Wanted \cap broken = {}
=============================================================================
