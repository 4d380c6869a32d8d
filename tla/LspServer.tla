----------------------------- MODULE LspServer ------------------------------
(***************************************************************************)
(* aru lsp (internal/lsp): one loop reads a frame, handles it to its end   *)
(* and only then reads the next.  Beside it an editor, which sends requests *)
(* and edits without waiting, and a disk anybody changes while the server  *)
(* reads it.  A diagnostic is a document and who reports it: the view      *)
(* compiler on the text the editor holds, the doctor's rules on the files, *)
(* the doctor's rule about the project's pipelines.                        *)
(***************************************************************************)
EXTENDS Naturals, Sequences

CONSTANTS
    Documents, NoDocument,
    Views,         \* those the view compiler reads; the others are Go
    Journey,       \* the document the pipeline rule reports on
    MaxRequests,   \* bound: requests of one session
    MaxInbox,      \* bound: frames written and not yet read
    MaxChanges     \* bound: changes of the files

ASSUME DocumentNames == NoDocument \notin Documents /\ Journey \in Documents /\ Views \subseteq Documents
ASSUME Bounds == MaxRequests \in Nat /\ MaxInbox \in Nat \ {0} /\ MaxChanges \in Nat

VARIABLES
    folder, wanted,  \* the editor opened a folder; it asks for the doctor's findings
    buffer,          \* the editor: the text of each document it has open
    leaving,         \* it has sent shutdown or exit
    sent, answers,   \* the requests it sent; the answers to each, 0 for no id
    shown,           \* the diagnostics it shows
    inbox,           \* what it wrote and the server has not read
    initialized, shutdown, workspace, enabled, documents, published,
    pc, doing, serving,        \* what the loop is in the middle of, and for whom
    cache, stamp, unread, reading,  \* project.analysis
    changes, flawed, readable, runs, \* the disk: its stamp, what rules find, the pipelines
    ever, always     \* observed: reported at some, at every moment of this refresh

editor == <<folder, wanted, buffer, leaving, sent>>
output == <<answers, shown>>
session == <<initialized, shutdown, workspace, enabled>>
loop == <<pc, doing, serving>>
analysis == <<cache, stamp, unread, reading>>
disk == <<changes, flawed, readable, runs>>
observed == <<ever, always>>
vars == <<editor, output, inbox, session, documents, published, loop, analysis, disk, observed>>

Texts == {"fine", "faulty"}
Ids == 0 .. MaxRequests       \* 0: a notification
RequestOnly == {"initialize", "shutdown", "ask", "navigate", "projectGraph"}
Methods == RequestOnly \cup {"unknown", "malformed", "initialized", "didSave", "didOpen", "didClose", "exit"}
Diagnostics == Documents \X {"compiler", "rule", "pipeline"}

Message(method, id, ok, d, text) == [method |-> method, id |-> id, ok |-> ok, doc |-> d, text |-> text]
Messages == [method : Methods, id : Ids, ok : BOOLEAN, doc : Documents \cup {NoDocument}, text : Texts \cup {"none"}]

RuleFindings == IF readable THEN flawed \X {"rule"} ELSE {}
PipelineFindings == IF runs THEN {} ELSE {<<Journey, "pipeline">>}
Compiler(d, text) == IF d \in Views /\ text = "faulty" THEN {<<d, "compiler">>} ELSE {}
About(D, findings) == {f \in findings : f[1] \in D}
OfFiles(findings) == {f \in findings : f[2] = "rule"}

SwitchTypes ==
    /\ folder \in BOOLEAN /\ wanted \in BOOLEAN /\ leaving \in BOOLEAN
    /\ initialized \in BOOLEAN /\ shutdown \in BOOLEAN /\ workspace \in BOOLEAN /\ enabled \in BOOLEAN
    /\ readable \in BOOLEAN /\ runs \in BOOLEAN
    /\ doing # "nothing" => workspace
PipeTypes == sent \in Ids /\ answers \in [Ids -> Nat] /\ inbox \in Seq(Messages)
LoopTypes ==
    /\ pc \in {"idle", "stamp", "read", "done", "failed", "ended"}
    /\ doing \in {"nothing", "navigate", "graph", "refresh"} /\ serving \in Ids
    /\ doing = "nothing" <=> pc \in {"idle", "ended"}
TextTypes ==
    /\ buffer \in [Documents -> Texts \cup {"none"}]
    /\ documents \in [Documents -> Texts \cup {"none"}]
FindingTypes ==
    /\ cache \in [stamp : 0 .. MaxChanges + 1, findings : SUBSET Diagnostics]
    /\ stamp \in 0 .. MaxChanges + 1 /\ unread \subseteq Documents /\ reading \subseteq Diagnostics
    /\ changes \in 1 .. MaxChanges + 1 /\ flawed \subseteq Documents
    /\ ever \subseteq Diagnostics /\ always \subseteq Diagnostics
    /\ shown \subseteq Diagnostics /\ published \subseteq Diagnostics
TypeOK == SwitchTypes /\ PipeTypes /\ LoopTypes /\ TextTypes /\ FindingTypes

Init ==
    /\ folder \in BOOLEAN /\ wanted \in BOOLEAN /\ leaving = FALSE
    /\ buffer = [d \in Documents |-> "none"] /\ documents = buffer
    /\ sent = 0 /\ answers = [i \in Ids |-> 0] /\ shown = {} /\ inbox = <<>>
    /\ initialized = FALSE /\ shutdown = FALSE /\ workspace = FALSE /\ enabled = FALSE
    /\ published = {}
    /\ pc = "idle" /\ doing = "nothing" /\ serving = 0
    /\ cache = [stamp |-> 0, findings |-> {}] /\ stamp = 0 /\ unread = {} /\ reading = {}
    /\ changes = 1 /\ flawed \in SUBSET Documents /\ readable \in BOOLEAN /\ runs \in BOOLEAN
    /\ ever = {} /\ always = {}

(***************************************************************************)
(* The editor.  It waits for the answer to initialize before it says       *)
(* anything of a document, and says nothing of one after it asked to leave. *)
(***************************************************************************)
Write(x) == pc # "ended" /\ Len(inbox) < MaxInbox /\ inbox' = Append(inbox, x)
Server == <<session, documents, published, loop, analysis>>

Ask(method, ok) ==
    /\ sent < MaxRequests /\ sent' = sent + 1
    /\ ok \/ method \in {"initialize", "projectGraph"}
    /\ Write(Message(method, sent + 1, ok, NoDocument, "none"))
    /\ leaving' = (leaving \/ method = "shutdown")
    /\ UNCHANGED <<folder, wanted, buffer, output, Server, disk, observed>>

Notify(method) ==  \* the last two are requests that lost their id
    /\ method \in {"initialized", "didSave"} => initialized /\ ~leaving
    /\ Write(Message(method, 0, TRUE, NoDocument, "none"))
    /\ leaving' = (leaving \/ method = "exit")
    /\ UNCHANGED <<folder, wanted, buffer, sent, output, Server, disk, observed>>

Edit(d, text) ==
    /\ initialized /\ ~leaving /\ buffer[d] # text
    /\ text = "faulty" => d \in Views  \* one text is as good as another in Go
    /\ Write(Message(IF text = "none" THEN "didClose" ELSE "didOpen", 0, TRUE, d, text))
    /\ buffer' = [buffer EXCEPT ![d] = text]
    /\ UNCHANGED <<folder, wanted, leaving, sent, output, Server, disk, observed>>

Editor ==
    \/ \E method \in RequestOnly \cup {"unknown", "malformed"}, ok \in BOOLEAN : Ask(method, ok)
    \/ \E method \in {"initialized", "didSave", "exit", "ask", "shutdown"} : Notify(method)
    \/ \E d \in Documents, text \in Texts \cup {"none"} : Edit(d, text)

(***************************************************************************)
(* The disk.  A change of a file the stamp covers changes the stamp; a     *)
(* change of a pipeline does not.                                          *)
(***************************************************************************)
Refreshing == doing = "refresh"

Change ==
    /\ changes <= MaxChanges /\ changes' = changes + 1
    /\ flawed' \in SUBSET Documents /\ readable' \in BOOLEAN
    /\ ever' = IF Refreshing THEN ever \cup RuleFindings' ELSE ever
    /\ always' = always \cap RuleFindings'
    /\ UNCHANGED <<editor, output, inbox, Server, runs>>

EditPipeline ==
    /\ runs' = ~runs
    /\ UNCHANGED <<editor, output, inbox, Server, changes, flawed, readable, observed>>

(***************************************************************************)
(* The loop: what is refused before the method is looked at, in order.     *)
(***************************************************************************)
m == Head(inbox)
Take == pc = "idle" /\ inbox # <<>> /\ inbox' = Tail(inbox)
Answer(i) == answers' = [answers EXCEPT ![i] = @ + 1]
IfRequest(i) == answers' = IF i # 0 THEN [answers EXCEPT ![i] = @ + 1] ELSE answers
Show(D, findings) == shown' = (shown \ About(D, shown)) \cup findings

Dropped(x) == x.id = 0 /\ x.method \in RequestOnly
Refused(x) == shutdown \/ initialized = (x.method = "initialize")
Admitted(x) == x.method \notin {"malformed", "exit"} /\ ~Dropped(x) /\ ~Refused(x)

Reject ==
    /\ Take /\ m.method = "malformed" /\ Answer(m.id)
    /\ UNCHANGED <<editor, shown, Server, disk, observed>>

Drop ==
    /\ Take /\ Dropped(m)
    /\ UNCHANGED <<editor, output, Server, disk, observed>>

Exit ==
    /\ Take /\ m.method = "exit" /\ pc' = "ended"
    /\ UNCHANGED <<editor, output, session, documents, published, doing, serving, analysis, disk, observed>>

HangUp ==  \* the editor closed its end
    /\ pc = "idle" /\ inbox = <<>> /\ leaving /\ pc' = "ended"
    /\ UNCHANGED <<editor, output, inbox, session, documents, published, doing, serving, analysis, disk, observed>>

Refuse ==
    /\ Take /\ m.method \notin {"malformed", "exit"} /\ ~Dropped(m) /\ Refused(m) /\ IfRequest(m.id)
    /\ UNCHANGED <<editor, shown, Server, disk, observed>>

Initialize ==
    /\ Take /\ Admitted(m) /\ m.method = "initialize" /\ Answer(m.id)
    /\ initialized' = m.ok
    /\ workspace' = (m.ok /\ folder) /\ enabled' = (m.ok /\ wanted)
    /\ UNCHANGED <<editor, shown, shutdown, documents, published, loop, analysis, disk, observed>>

Shutdown ==
    /\ Take /\ Admitted(m) /\ m.method = "shutdown" /\ Answer(m.id)
    /\ shutdown' = TRUE
    /\ UNCHANGED <<editor, shown, initialized, workspace, enabled, documents, published, loop, analysis, disk, observed>>

\* The rest of the methods that keep nothing: completion, the catalogue, the
\* first schema of the map, one the server does not know, invalid params.
Stateless(x) ==
    \/ x.method \in {"ask", "unknown"}
    \/ x.method \in {"navigate", "projectGraph"} /\ (~workspace \/ ~x.ok)

Reply ==
    /\ Take /\ Admitted(m) /\ Stateless(m) /\ IfRequest(m.id)
    /\ UNCHANGED <<editor, shown, Server, disk, observed>>

(***************************************************************************)
(* Documents: each publication replaces all a document shows.              *)
(***************************************************************************)
ForDocument_None(d) == {}
ForDocument(d) == IF enabled THEN About({d}, published) ELSE {}

DidOpen ==  \* and didChange, which differs in nothing
    /\ Take /\ Admitted(m) /\ m.method = "didOpen"
    /\ documents' = [documents EXCEPT ![m.doc] = m.text]
    /\ Show({m.doc}, Compiler(m.doc, m.text) \cup ForDocument(m.doc))
    /\ UNCHANGED <<editor, answers, session, published, loop, analysis, disk, observed>>

DidClose ==
    /\ Take /\ Admitted(m) /\ m.method = "didClose"
    /\ documents' = [documents EXCEPT ![m.doc] = "none"]
    /\ Show({m.doc}, {})
    /\ UNCHANGED <<editor, answers, session, published, loop, analysis, disk, observed>>

(***************************************************************************)
(* The analysis: the stamp, then the files one by one, then the pipelines  *)
(* a rule reads; kept with the stamp taken before the first.               *)
(***************************************************************************)
Refreshes == enabled /\ workspace

BeginRefresh ==
    /\ doing' = "refresh" /\ pc' = "stamp" /\ serving' = 0
    /\ ever' = RuleFindings /\ always' = RuleFindings

DidSave ==  \* and initialized
    /\ Take /\ Admitted(m) /\ m.method \in {"didSave", "initialized"}
    /\ IF Refreshes THEN BeginRefresh ELSE UNCHANGED <<loop, observed>>
    /\ UNCHANGED <<editor, output, session, documents, published, analysis, disk>>

Analyse ==
    /\ Take /\ Admitted(m) /\ m.method \in {"navigate", "projectGraph"} /\ ~Stateless(m)
    /\ doing' = (IF m.method = "navigate" THEN "navigate" ELSE "graph")
    /\ pc' = "stamp" /\ serving' = m.id
    /\ UNCHANGED <<editor, output, session, documents, published, analysis, disk, observed>>

Outside == <<editor, output, inbox, session, documents, published, disk, observed, doing, serving>>

Reuse ==
    /\ pc = "stamp" /\ cache.stamp = changes
    /\ reading' = cache.findings /\ pc' = "done"
    /\ UNCHANGED <<Outside, cache, stamp, unread>>

Stamp ==
    /\ pc = "stamp" /\ cache.stamp # changes
    /\ stamp' = changes /\ unread' = Documents /\ reading' = {} /\ pc' = "read"
    /\ UNCHANGED <<Outside, cache>>

Read(d) ==
    /\ pc = "read" /\ d \in unread /\ readable
    /\ reading' = reading \cup (RuleFindings \cap {<<d, "rule">>})
    /\ unread' = unread \ {d}
    /\ UNCHANGED <<Outside, pc, cache, stamp>>

Remember_StampedAfter ==
    /\ pc = "read" /\ unread = {} /\ pc' = "done"
    /\ reading' = reading \cup PipelineFindings
    /\ cache' = [stamp |-> changes, findings |-> reading']
    /\ UNCHANGED <<Outside, stamp, unread>>
Remember ==
    /\ pc = "read" /\ unread = {} /\ pc' = "done"
    /\ reading' = reading \cup PipelineFindings
    /\ cache' = [stamp |-> stamp, findings |-> reading']
    /\ UNCHANGED <<Outside, stamp, unread>>

Fail ==
    /\ pc = "read" /\ unread # {} /\ ~readable
    /\ reading' = {} /\ unread' = {} /\ pc' = "failed"
    /\ UNCHANGED <<Outside, cache, stamp>>

Rest == pc' = "idle" /\ doing' = "nothing" /\ serving' = 0

AnswerNavigation ==
    /\ pc \in {"done", "failed"} /\ doing = "navigate" /\ Answer(serving) /\ Rest
    /\ UNCHANGED <<editor, shown, inbox, session, documents, published, analysis, disk, observed>>

AnswerGraph_FallsThrough ==
    /\ pc \in {"done", "failed"} /\ doing = "graph"
    /\ answers' = [answers EXCEPT ![serving] = @ + (IF pc = "failed" THEN 2 ELSE 1)]
    /\ IF Refreshes THEN BeginRefresh ELSE Rest /\ UNCHANGED observed
    /\ UNCHANGED <<editor, shown, inbox, session, documents, published, analysis, disk>>
AnswerGraph ==
    /\ pc \in {"done", "failed"} /\ doing = "graph" /\ Answer(serving)
    /\ IF pc = "done" /\ Refreshes THEN BeginRefresh ELSE Rest /\ UNCHANGED observed
    /\ UNCHANGED <<editor, shown, inbox, session, documents, published, analysis, disk>>

\* The documents to publish: those with findings, and those that had some.
Touched_Found == {f[1] : f \in reading}
Touched == {f[1] : f \in reading \cup published}

Publish ==
    /\ pc \in {"done", "failed"} /\ Refreshing /\ Rest
    /\ published' = reading
    /\ Show(Touched, reading \cup UNION {Compiler(d, documents[d]) : d \in Touched})
    /\ ever' = {} /\ always' = {}
    /\ UNCHANGED <<editor, answers, inbox, session, documents, analysis, disk>>

Handle ==
    \/ Reject \/ Drop \/ Exit \/ HangUp \/ Refuse \/ Initialize \/ Shutdown \/ Reply
    \/ DidOpen \/ DidClose \/ DidSave \/ Analyse
    \/ Reuse \/ Stamp \/ (\E d \in Documents : Read(d)) \/ Remember \/ Fail
    \/ AnswerNavigation \/ AnswerGraph \/ Publish

Next == Editor \/ Change \/ EditPipeline \/ Handle
Spec == Init /\ [][Next]_vars

(***************************************************************************)
(* Properties                                                              *)
(***************************************************************************)

\* A request is answered once, by the time it is behind the loop, whatever
\* gate or error path it left by, and what is no request never (lsp.go:48-425).
Queued == {inbox[i].id : i \in DOMAIN inbox}
Waiting == Queued \cup (IF doing \in {"navigate", "graph"} THEN {serving} ELSE {})
AnsweredOnce == \A i \in Ids : answers[i] = IF 0 < i /\ i <= sent /\ i \notin Waiting THEN 1 ELSE 0

\* When the loop has caught up, an open document shows both what the compiler
\* says of the text the editor has now and the findings last published, and a
\* closed one nothing else, in whatever order edits, saves and closes came
\* (publishDiagnostics: "the two sources go out together or one erases the other").
CaughtUp == pc = "idle" /\ inbox = <<>> /\ initialized /\ ~shutdown
ShownMatches ==
    CaughtUp => \A d \in Documents :
        IF buffer[d] = "none" THEN About({d}, shown) \subseteq published
        ELSE About({d}, shown) = Compiler(d, buffer[d]) \cup About({d}, published)

\* A rule's finding is published only if the files had it at some moment of
\* that refresh, and left out only if they lacked it at some moment, though
\* they change under the read and an earlier analysis may be reused
\* (projectmap.go:71-86, doctordiagnostics.go:107-134).
FindingsWereThere ==
    [][Refreshing /\ ~Refreshing' => OfFiles(published') \subseteq ever /\ always \subseteq published']_vars

\* An analysis is reused only for the files it was made of (projectmap.go:71-86).
CacheIsHonest == cache.stamp = changes => readable /\ OfFiles(cache.findings) = RuleFindings

\* Nothing is published before the session has begun or after shutdown was
\* answered, whatever is still in the pipe (lsp.go:81-111).
OnlyInSession == [][shown' # shown => initialized /\ ~shutdown]_vars
=============================================================================
