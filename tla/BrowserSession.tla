--------------------------- MODULE BrowserSession ---------------------------
(***************************************************************************)
(* The one browser of `aru mcp` (mcpbrowser.go): the session the browser   *)
(* tools share, the page it drives, and the reports of the page that come  *)
(* at any moment.  Calls may arrive while another is answered; the server  *)
(* returns once the calls it took are answered.                            *)
(***************************************************************************)
EXTENDS Naturals

CONSTANTS
    Calls,          \* the calls an assistant makes
    MaxErrors       \* bound: errors the pages report

VARIABLES
    serving,        \* serveMCP: "serving", "returned"
    holder,         \* s.mu
    driver, page,   \* s.driver and s.page, 0 for nil; s.t is there when the driver is
    errs,           \* t.errs
    cPc, tool,      \* where a call is, and what it asks for
    steps,          \* the steps of the page its handler has left
    cAnswer,        \* what it answered
    started,        \* observation: how many browsers were ever launched
    alive,          \* those whose process runs
    reported,       \* observation: errors reported so far
    told            \* observation: for each error, the answers that name it

session == <<serving, holder, driver, page, errs, cPc, tool, steps, cAnswer, started, alive, reported, told>>

Nobody == "nobody"
Tools == {"open", "click", "expect", "capture", "trace", "close"}

\* The steps a tool takes on the page: e2e_open, e2e_click and e2e_fill read the
\* tree after they acted.
StepsOf(t) == IF t \in {"open", "click"} THEN 2 ELSE IF t \in {"expect", "capture"} THEN 1 ELSE 0

-----------------------------------------------------------------------------
\* What a handler returns, and the deferred unlock of Handle.
AnswerWith(c, answer) ==
    /\ cAnswer' = [cAnswer EXCEPT ![c] = answer]
    /\ cPc' = [cPc EXCEPT ![c] = "done"]
    /\ holder' = Nobody

\* closeLocked: the clean-ups, each with its panic recovered, then the browser;
\* what was reported and not yet drained goes with the page.
closeLocked ==
    /\ alive' = alive \ {driver}
    /\ driver' = 0 /\ page' = 0 /\ errs' = {}

-----------------------------------------------------------------------------
Call(c, t) ==
    /\ serving = "serving" /\ cPc[c] = "none"
    /\ cPc' = [cPc EXCEPT ![c] = "waiting"] /\ tool' = [tool EXCEPT ![c] = t]
    /\ steps' = [steps EXCEPT ![c] = StepsOf(t)]
    /\ UNCHANGED <<serving, holder, driver, page, errs, cAnswer, started, alive, reported, told>>

\* Handle, and needPage: every tool but e2e_open and e2e_read_trace wants a page,
\* and e2e_close says that none was open.
Handle(c) ==
    /\ cPc[c] = "waiting" /\ holder = Nobody
    /\ IF page = 0 /\ tool[c] # "open"
       THEN AnswerWith(c, CASE tool[c] = "close" -> "no page was open"
                            [] tool[c] = "trace" -> "trace"
                            [] OTHER -> "no page is open")
       ELSE /\ holder' = c
            /\ cPc' = [cPc EXCEPT ![c] = CASE tool[c] = "open" -> "open" [] tool[c] = "close" -> "close"
                                           [] tool[c] = "trace" -> "trace" [] OTHER -> "step"]
            /\ UNCHANGED cAnswer
    /\ UNCHANGED <<serving, driver, page, errs, tool, steps, started, alive, reported, told>>

\* open: nothing to do while there is a page.
openAgain(c) ==
    /\ cPc[c] = "open" /\ page # 0
    /\ cPc' = [cPc EXCEPT ![c] = "step"]
    /\ UNCHANGED <<serving, holder, driver, page, errs, tool, steps, cAnswer, started, alive, reported, told>>

launchFails(c) ==
    /\ cPc[c] = "open" /\ page = 0
    /\ AnswerWith(c, "opening the browser")
    /\ UNCHANGED <<serving, driver, page, errs, tool, steps, started, alive, reported, told>>

launch(c) ==
    /\ cPc[c] = "open" /\ page = 0
    /\ started' = started + 1 /\ driver' = started' /\ alive' = alive \cup {started'}
    /\ errs' = {}
    /\ cPc' = [cPc EXCEPT ![c] = "new"]
    /\ UNCHANGED <<serving, holder, page, tool, steps, cAnswer, reported, told>>

newPage(c) ==
    /\ cPc[c] = "new"
    /\ page' = driver
    /\ cPc' = [cPc EXCEPT ![c] = "step"]
    /\ UNCHANGED <<serving, holder, driver, errs, tool, steps, cAnswer, started, alive, reported, told>>

\* browser.New fails the test it believes to be in.
newPageFails(c) ==
    /\ cPc[c] = "new"
    /\ closeLocked /\ AnswerWith(c, "opening the browser")
    /\ UNCHANGED <<serving, tool, steps, started, reported, told>>

-----------------------------------------------------------------------------
\* Mutant: the reports are read only when fn did not fail.
FailedByItself(c, stopped) == stopped

\* step: what fn failed with and what the page reported meanwhile, together.
Failed(c, stopped) == stopped \/ errs # {}

Drained(c) ==
    /\ told' = [e \in DOMAIN told |-> IF e \in errs THEN told[e] \cup {c} ELSE told[e]]
    /\ errs' = {}

\* A page whose browser is gone fails every step.
step(c, stopped) ==
    /\ cPc[c] = "step" /\ steps[c] > 0
    /\ page \notin alive => stopped
    /\ Drained(c)
    /\ steps' = [steps EXCEPT ![c] = @ - 1]
    /\ IF Failed(c, stopped) THEN AnswerWith(c, "failed") ELSE UNCHANGED <<holder, cPc, cAnswer>>
    /\ UNCHANGED <<serving, driver, page, tool, started, alive, reported>>

\* All steps held: e2e_capture goes on to take its picture and write two files.
held(c) ==
    /\ cPc[c] = "step" /\ steps[c] = 0
    /\ \/ AnswerWith(c, "held")
       \/ tool[c] = "capture" /\ AnswerWith(c, "failed")
    /\ UNCHANGED <<serving, driver, page, errs, tool, steps, started, alive, reported, told>>

\* e2e_read_trace: the trace of the open page is written and explained; its errors
\* stay for the next step.
readTrace(c) ==
    /\ cPc[c] = "trace"
    /\ AnswerWith(c, "trace")
    /\ UNCHANGED <<serving, driver, page, errs, tool, steps, started, alive, reported, told>>

closeTool(c) ==
    /\ cPc[c] = "close"
    /\ closeLocked /\ AnswerWith(c, "closed")
    /\ UNCHANGED <<serving, tool, steps, started, reported, told>>

-----------------------------------------------------------------------------
\* Errorf from the page, at any moment: an uncaught exception, a console error, a
\* response of 500.
Report ==
    /\ driver \in alive /\ reported < MaxErrors
    /\ reported' = reported + 1
    /\ errs' = errs \cup {reported'}
    /\ UNCHANGED <<serving, holder, driver, page, cPc, tool, steps, cAnswer, started, alive, told>>

\* The browser ends by itself.
Dies ==
    /\ driver \in alive
    /\ alive' = alive \ {driver}
    /\ UNCHANGED <<serving, holder, driver, page, errs, cPc, tool, steps, cAnswer, started, reported, told>>

\* serveMCP returns when the input ends, and closes the session on its way.
Return ==
    /\ serving = "serving" /\ holder = Nobody
    /\ \A c \in Calls : cPc[c] \in {"none", "done"}
    /\ serving' = "returned"
    /\ closeLocked
    /\ UNCHANGED <<holder, cPc, tool, steps, cAnswer, started, reported, told>>

Init ==
    /\ serving = "serving" /\ holder = Nobody /\ driver = 0 /\ page = 0 /\ errs = {}
    /\ cPc = [c \in Calls |-> "none"] /\ tool = [c \in Calls |-> "none"] /\ steps = [c \in Calls |-> 0]
    /\ cAnswer = [c \in Calls |-> "none"]
    /\ started = 0 /\ alive = {} /\ reported = 0 /\ told = [e \in 1 .. MaxErrors |-> {}]

Next ==
    \/ \E c \in Calls :
        \/ \E t \in Tools : Call(c, t)
        \/ Handle(c) \/ openAgain(c) \/ launchFails(c) \/ launch(c) \/ newPage(c) \/ newPageFails(c)
        \/ \E stopped \in BOOLEAN : step(c, stopped)
        \/ held(c) \/ readTrace(c) \/ closeTool(c)
    \/ Report \/ Dies \/ Return

Spec == Init /\ [][Next]_session

-----------------------------------------------------------------------------
\* Every browser that runs is the one the session can still close, while somebody
\* waits for a page there is none without its browser, and when the server has
\* returned none runs.
BrowserHasItsSession ==
    /\ alive \subseteq {driver} \ {0}
    /\ holder = Nobody => driver = page
    /\ serving = "returned" => alive = {}

\* What a page reported is told in one answer, and that one says failed.
ToldOnce ==
    \A e \in DOMAIN told :
        /\ \A c, d \in told[e] : c = d
        /\ \A c \in told[e] : cPc[c] = "done" => cAnswer[c] = "failed"

\* It is forgotten untold only with the page itself.
ToldWithItsPage == errs # {} /\ driver' = driver => \A e \in errs \ errs' : told'[e] # {}
=============================================================================
