--------------------------- MODULE LspServerProofs ---------------------------
(* The language server, for any number of documents, requests, pending      *)
(* frames and changes of the files.                                         *)
EXTENDS LspServer, TLAPS

LEMMA HeadTail ==
    ASSUME NEW S, NEW s \in Seq(S), s # <<>>
    PROVE  /\ Head(s) \in S /\ Tail(s) \in Seq(S) /\ Head(s) = s[1] /\ 1 \in DOMAIN s
           /\ \A i \in DOMAIN Tail(s) : i + 1 \in DOMAIN s /\ i + 1 # 1 /\ Tail(s)[i] = s[i + 1]
           /\ \A i \in DOMAIN s : i # 1 => i - 1 \in DOMAIN Tail(s) /\ Tail(s)[i - 1] = s[i]
  OBVIOUS

LEMMA HeadIsMessage == PipeTypes /\ inbox # <<>> => m \in Messages /\ Tail(inbox) \in Seq(Messages)
  BY HeadTail DEF PipeTypes, m

LEMMA InitTyped == Init => PipeTypes /\ LoopTypes /\ FindingTypes
  <1> SUFFICES ASSUME Init PROVE PipeTypes /\ LoopTypes /\ FindingTypes
    OBVIOUS
  <1>1. PipeTypes
    BY Bounds DEF Init, PipeTypes, Ids
  <1>2. LoopTypes
    BY Bounds DEF Init, LoopTypes, Ids
  <1>4. FindingTypes
    BY Bounds DEF Init, FindingTypes, Diagnostics
  <1> QED
    BY <1>1, <1>2, <1>4

LEMMA PipeTyped == PipeTypes /\ [Next]_vars => PipeTypes'
  <1> SUFFICES ASSUME PipeTypes, [Next]_vars PROVE PipeTypes'
    OBVIOUS
  <1> USE DEF PipeTypes, editor
  <1>1. ASSUME NEW method \in RequestOnly \cup {"unknown", "malformed"}, NEW ok \in BOOLEAN, Ask(method, ok)
        PROVE PipeTypes'
    <2>1. sent + 1 \in Ids
      BY <1>1, Bounds DEF Ask, Ids
    <2>2. Message(method, sent + 1, ok, NoDocument, "none") \in Messages
      BY <2>1 DEF Message, Messages, Methods
    <2> QED
      BY <1>1, <2>1, <2>2 DEF Ask, Write, output
  <1>2. ASSUME NEW method \in {"initialized", "didSave", "exit", "ask", "shutdown"}, Notify(method)
        PROVE PipeTypes'
    <2>1. Message(method, 0, TRUE, NoDocument, "none") \in Messages
      BY Bounds DEF Message, Messages, Methods, RequestOnly, Ids
    <2>2. UNCHANGED <<sent, answers>> /\ inbox' = Append(inbox, Message(method, 0, TRUE, NoDocument, "none"))
      BY <1>2 DEF Notify, Write, output
    <2> QED
      BY <2>1, <2>2 DEF Message
  <1>3. ASSUME NEW d \in Documents, NEW text \in Texts \cup {"none"}, Edit(d, text)
        PROVE PipeTypes'
    <2>1. Message(IF text = "none" THEN "didClose" ELSE "didOpen", 0, TRUE, d, text) \in Messages
      BY Bounds DEF Message, Messages, Methods, RequestOnly, Ids
    <2>2. UNCHANGED <<sent, answers>>
          /\ inbox' = Append(inbox, Message(IF text = "none" THEN "didClose" ELSE "didOpen", 0, TRUE, d, text))
      BY <1>3 DEF Edit, Write, output
    <2> QED
      BY <2>1, <2>2 DEF Message
  <1>4. CASE Change \/ EditPipeline
    BY <1>4 DEF Change, EditPipeline, output
  <1>5. CASE Handle
    <2>1. UNCHANGED editor
      BY <1>5 DEF Handle, Reject, Drop, Exit, HangUp, Refuse, Initialize, Shutdown, Reply, DidOpen, DidClose,
         DidSave, Analyse, Reuse, Stamp, Read, Remember, Fail, AnswerNavigation, AnswerGraph, Publish, Outside
    <2>2. answers' \in [Ids -> Nat]
      BY <1>5 DEF Handle, Reject, Drop, Exit, HangUp, Refuse, Initialize, Shutdown, Reply, DidOpen, DidClose,
         DidSave, Analyse, Reuse, Stamp, Read, Remember, Fail, AnswerNavigation, AnswerGraph, Publish, Outside,
         output, Answer, IfRequest
    <2>3. inbox' = inbox \/ Take
      BY <1>5 DEF Handle, Reject, Drop, Exit, HangUp, Refuse, Initialize, Shutdown, Reply, DidOpen, DidClose,
         DidSave, Analyse, Reuse, Stamp, Read, Remember, Fail, AnswerNavigation, AnswerGraph, Publish, Outside
    <2>4. inbox' \in Seq(Messages)
      BY <2>3, HeadIsMessage DEF Take
    <2> QED
      BY <2>1, <2>2, <2>4
  <1>6. CASE UNCHANGED vars
    BY <1>6 DEF vars, output
  <1> QED
    BY <1>1, <1>2, <1>3, <1>4, <1>5, <1>6 DEF Next, Editor

LEMMA LoopTyped == PipeTypes /\ LoopTypes /\ [Next]_vars => LoopTypes'
  <1> SUFFICES ASSUME PipeTypes, LoopTypes, [Next]_vars PROVE LoopTypes'
    OBVIOUS
  <1> USE DEF LoopTypes, loop
  <1>1. CASE Editor \/ Change \/ EditPipeline \/ UNCHANGED vars
    BY <1>1 DEF Editor, Ask, Notify, Edit, Change, EditPipeline, Server, vars
  <1>2. CASE Reject \/ Drop \/ Refuse \/ Initialize \/ Shutdown \/ Reply \/ DidOpen \/ DidClose
    BY <1>2 DEF Reject, Drop, Refuse, Initialize, Shutdown, Reply, DidOpen, DidClose, Server
  <1>3. CASE Exit \/ HangUp
    BY <1>3 DEF Exit, HangUp, Take
  <1>4. CASE DidSave
    BY <1>4, Bounds DEF DidSave, BeginRefresh, Ids
  <1>5. CASE Analyse
    <2>1. m.id \in Ids
      BY <1>5, HeadIsMessage DEF Analyse, Take, Messages
    <2> QED
      BY <1>5, <2>1 DEF Analyse
  <1>6. CASE Reuse \/ Stamp \/ (\E d \in Documents : Read(d)) \/ Remember \/ Fail
    BY <1>6 DEF Reuse, Stamp, Read, Remember, Fail, Outside
  <1>7. CASE AnswerNavigation \/ AnswerGraph \/ Publish
    BY <1>7, Bounds DEF AnswerNavigation, AnswerGraph, Publish, Rest, BeginRefresh, Ids
  <1> QED
    BY <1>1, <1>2, <1>3, <1>4, <1>5, <1>6, <1>7 DEF Next, Handle

(***************************************************************************)
(* Every request is answered once.  What makes it so is that each frame of *)
(* a request has an id of its own and that of what the loop takes, all it  *)
(* leaves without an answer has none.                                      *)
(***************************************************************************)
Silent == {"initialized", "didSave", "didOpen", "didClose", "exit"}
Numbered ==
    /\ \A i \in DOMAIN inbox : inbox[i].id <= sent
    /\ \A i, j \in DOMAIN inbox : inbox[i].id = inbox[j].id /\ inbox[i].id # 0 => i = j
    /\ \A i \in DOMAIN inbox : /\ inbox[i].method = "malformed" => inbox[i].id # 0
                               /\ inbox[i].method \in Silent => inbox[i].id = 0
Attending == doing \in {"navigate", "graph"}
Served == Attending => serving # 0 /\ serving <= sent /\ serving \notin Queued
AInv == PipeTypes /\ LoopTypes /\ Numbered /\ Served /\ AnsweredOnce

LEMMA AnswersInit == Init => AInv
  <1> SUFFICES ASSUME Init PROVE AInv
    OBVIOUS
  <1>1. PipeTypes /\ LoopTypes
    BY InitTyped
  <1>2. Numbered /\ Served
    BY DEF Init, Numbered, Served, Attending
  <1>3. AnsweredOnce
    BY Bounds DEF Init, AnsweredOnce, Ids
  <1> QED
    BY <1>1, <1>2, <1>3 DEF AInv

\* What the loop takes off the pipe leaves every other request there.
LEMMA Taking ==
    ASSUME AInv, Take, UNCHANGED sent
    PROVE  /\ doing = "nothing" /\ Numbered'
           /\ m.id \in Ids /\ (m.id # 0 => m.id \in Queued /\ m.id <= sent)
           /\ m.method = "malformed" => m.id # 0
           /\ m.method \in Silent => m.id = 0
           /\ \A i \in Ids : i # 0 => (i \in Queued' <=> i \in Queued /\ i # m.id)
  <1>1. inbox # <<>> /\ inbox \in Seq(Messages) /\ inbox' = Tail(inbox) /\ m = inbox[1] /\ 1 \in DOMAIN inbox
    BY HeadTail DEF Take, AInv, PipeTypes, m
  <1>2. /\ \A i \in DOMAIN inbox' : i + 1 \in DOMAIN inbox /\ i + 1 # 1 /\ inbox'[i] = inbox[i + 1]
        /\ \A i \in DOMAIN inbox : i # 1 => i - 1 \in DOMAIN inbox' /\ inbox'[i - 1] = inbox[i]
    BY <1>1, HeadTail
  <1>3. doing = "nothing" /\ m.id \in Ids
    BY <1>1, HeadIsMessage DEF Take, AInv, LoopTypes, Messages
  <1>4. Numbered'
    <2>1. DOMAIN inbox' \subseteq Nat
      BY <1>1
    <2> QED
      BY <1>1, <1>2, <2>1 DEF AInv, Numbered
  <1>5. /\ m.id # 0 => m.id \in Queued /\ m.id <= sent
        /\ m.method = "malformed" => m.id # 0
        /\ m.method \in Silent => m.id = 0
    BY <1>1 DEF AInv, Numbered, Queued
  <1>6. ASSUME NEW i \in Ids, i # 0 PROVE i \in Queued' <=> i \in Queued /\ i # m.id
    <2>1. ASSUME i \in Queued' PROVE i \in Queued /\ i # m.id
      <3>1. PICK k \in DOMAIN inbox' : i = inbox'[k].id
        BY <2>1 DEF Queued
      <3>2. k + 1 \in DOMAIN inbox /\ k + 1 # 1 /\ i = inbox[k + 1].id
        BY <3>1, <1>2
      <3> QED
        BY <3>2, <1>1, <1>6 DEF AInv, Numbered, Queued
    <2>2. ASSUME i \in Queued, i # m.id PROVE i \in Queued'
      <3>1. PICK k \in DOMAIN inbox : i = inbox[k].id
        BY <2>2 DEF Queued
      <3>2. k # 1
        BY <3>1, <2>2, <1>1
      <3>3. k - 1 \in DOMAIN inbox' /\ inbox'[k - 1] = inbox[k]
        BY <3>1, <3>2, <1>2
      <3> QED
        BY <3>3, <3>1 DEF Queued
    <2> QED
      BY <2>1, <2>2
  <1> QED
    BY <1>3, <1>4, <1>5, <1>6

LEMMA TakenAndAnswered ==
    ASSUME AInv, PipeTypes', LoopTypes', Take, UNCHANGED <<sent, doing, serving>>, IfRequest(m.id)
    PROVE  AInv'
  <1> USE Taking
  <1>1. Served' /\ doing = "nothing" /\ doing' = "nothing"
    BY DEF Served, Attending
  <1>2. ASSUME NEW i \in Ids PROVE answers'[i] = IF 0 < i /\ i <= sent /\ i \notin Waiting' THEN 1 ELSE 0
    BY <1>1 DEF AInv, AnsweredOnce, Waiting, IfRequest, PipeTypes, Ids
  <1> QED
    BY <1>1, <1>2 DEF AInv, AnsweredOnce

LEMMA TakenInSilence ==
    ASSUME AInv, PipeTypes', LoopTypes', Take, UNCHANGED <<sent, answers>>, m.id = 0,
           doing' \notin {"navigate", "graph"}
    PROVE  AInv'
  <1> USE Taking
  <1>1. Served' /\ doing = "nothing"
    BY DEF Served, Attending
  <1>2. ASSUME NEW i \in Ids PROVE answers'[i] = IF 0 < i /\ i <= sent /\ i \notin Waiting' THEN 1 ELSE 0
    BY <1>1 DEF AInv, AnsweredOnce, Waiting, PipeTypes, Ids
  <1> QED
    BY <1>1, <1>2 DEF AInv, AnsweredOnce

LEMMA AnswersStep == AInv /\ [Next]_vars => AInv'
  <1> SUFFICES ASSUME AInv, [Next]_vars PROVE AInv'
    OBVIOUS
  <1>t. PipeTypes' /\ LoopTypes'
    BY PipeTyped, LoopTyped DEF AInv
  \* Nothing this invariant is about moves.
  <1>u. ASSUME UNCHANGED <<sent, answers, inbox, serving>>, Attending' = Attending PROVE AInv'
    BY <1>t, <1>u DEF AInv, Numbered, Served, AnsweredOnce, Waiting, Queued, Attending
  \* A frame is written, with a new id or none.
  <1>w. ASSUME NEW x \in Messages, inbox' = Append(inbox, x), UNCHANGED <<answers, doing, serving>>,
               \/ x.id = 0 /\ sent' = sent /\ x.method # "malformed"
               \/ x.id = sent + 1 /\ sent' = sent + 1 /\ x.method \notin Silent
        PROVE AInv'
    <2>0. inbox \in Seq(Messages) /\ sent \in Nat /\ sent' \in Ids /\ DOMAIN inbox = 1 .. Len(inbox)
      BY <1>t DEF AInv, PipeTypes, Ids
    <2>1. /\ DOMAIN inbox' = DOMAIN inbox \cup {Len(inbox) + 1} /\ Len(inbox) \in Nat
          /\ \A i \in DOMAIN inbox : inbox'[i] = inbox[i]
          /\ inbox'[Len(inbox) + 1] = x
      BY <1>w, <2>0
    <2>2. \A i \in DOMAIN inbox : inbox[i] \in Messages /\ inbox[i].id \in Nat
      <3>1. \A y \in Messages : y.id \in Nat
        BY Bounds DEF Messages, Ids
      <3> QED
        BY <2>0, <3>1
    <2>3. Numbered'
      BY <1>w, <2>0, <2>1, <2>2 DEF AInv, Numbered
    <2>4. Queued' = Queued \cup {x.id}
      BY <2>1 DEF Queued
    <2>5. Served'
      <3>1. serving \in Nat
        BY Bounds DEF AInv, LoopTypes, Ids
      <3> QED
        BY <1>w, <2>0, <2>4, <3>1 DEF AInv, Served, Attending
    <2>6. \A i \in Queued : i <= sent
      BY DEF AInv, Numbered, Queued
    <2>7. AnsweredOnce'
      <3> SUFFICES ASSUME NEW i \in Ids
                   PROVE  answers'[i] = IF 0 < i /\ i <= sent' /\ i \notin Waiting' THEN 1 ELSE 0
        BY DEF AnsweredOnce
      <3>1. answers[i] = IF 0 < i /\ i <= sent /\ i \notin Waiting THEN 1 ELSE 0
        BY DEF AInv, AnsweredOnce
      <3>2. Waiting' = Waiting \cup {x.id}
        BY <1>w, <2>4 DEF Waiting
      <3> QED
        BY <1>w, <2>0, <3>1, <3>2 DEF Ids
    <2> QED
      BY <1>t, <2>3, <2>5, <2>7 DEF AInv
  <1>1. ASSUME NEW method \in RequestOnly \cup {"unknown", "malformed"}, NEW ok \in BOOLEAN, Ask(method, ok)
        PROVE AInv'
    <2> DEFINE x == Message(method, sent + 1, ok, NoDocument, "none")
    <2>1. sent + 1 \in Ids
      BY <1>1, Bounds DEF Ask, Ids, AInv, PipeTypes
    <2>2. x \in Messages /\ x.id = sent + 1 /\ x.method \notin Silent
      BY <2>1 DEF Message, Messages, Methods, RequestOnly, Silent
    <2>3. inbox' = Append(inbox, x) /\ sent' = sent + 1 /\ UNCHANGED <<answers, doing, serving>>
      BY <1>1 DEF Ask, Write, output, Server, loop
    <2> HIDE DEF x
    <2> QED
      BY <2>2, <2>3, <1>w
  <1>2. ASSUME NEW method \in {"initialized", "didSave", "exit", "ask", "shutdown"}, Notify(method)
        PROVE AInv'
    <2> DEFINE x == Message(method, 0, TRUE, NoDocument, "none")
    <2>2. x \in Messages /\ x.id = 0 /\ x.method # "malformed"
      BY Bounds DEF Message, Messages, Methods, RequestOnly, Ids
    <2>3. inbox' = Append(inbox, x) /\ UNCHANGED <<sent, answers, doing, serving>>
      BY <1>2 DEF Notify, Write, output, Server, loop
    <2> HIDE DEF x
    <2> QED
      BY <2>2, <2>3, <1>w
  <1>3. ASSUME NEW d \in Documents, NEW text \in Texts \cup {"none"}, Edit(d, text)
        PROVE AInv'
    <2> DEFINE x == Message(IF text = "none" THEN "didClose" ELSE "didOpen", 0, TRUE, d, text)
    <2>2. x \in Messages /\ x.id = 0 /\ x.method # "malformed"
      BY Bounds DEF Message, Messages, Methods, RequestOnly, Ids
    <2>3. inbox' = Append(inbox, x) /\ UNCHANGED <<sent, answers, doing, serving>>
      BY <1>3 DEF Edit, Write, output, Server, loop
    <2> HIDE DEF x
    <2> QED
      BY <2>2, <2>3, <1>w
  <1>4. CASE Change \/ EditPipeline \/ UNCHANGED vars
    BY <1>4, <1>u DEF Change, EditPipeline, editor, output, Server, loop, vars, Attending
  <1>5. CASE Reject \/ Initialize \/ Shutdown \/ Refuse \/ Reply
    <2>1. Take /\ UNCHANGED <<sent, doing, serving>>
      BY <1>5 DEF Reject, Initialize, Shutdown, Refuse, Reply, editor, Server, loop
    <2>2. IfRequest(m.id)
      BY <1>5, <2>1, Taking DEF Reject, Initialize, Shutdown, Refuse, Reply, Answer, IfRequest,
         Admitted, Dropped, RequestOnly
    <2> QED
      BY <1>t, <2>1, <2>2, TakenAndAnswered
  <1>6. CASE Drop \/ Exit \/ DidOpen \/ DidClose \/ DidSave
    <2>1. Take /\ UNCHANGED <<sent, answers>>
      BY <1>6 DEF Drop, Exit, DidOpen, DidClose, DidSave, editor, output
    <2>2. m.id = 0
      BY <1>6, <2>1, Taking DEF Drop, Dropped, Exit, DidOpen, DidClose, DidSave, Silent
    <2>3. doing' \notin {"navigate", "graph"}
      BY <1>6, <2>1, Taking DEF Drop, Exit, DidOpen, DidClose, DidSave, Server, loop, BeginRefresh
    <2> QED
      BY <1>t, <2>1, <2>2, <2>3, TakenInSilence
  <1>7. CASE Analyse
    <2>1. Take /\ UNCHANGED <<sent, answers>> /\ serving' = m.id /\ Attending'
      BY <1>7 DEF Analyse, editor, output, Attending
    <2>2. m.id # 0
      BY <1>7 DEF Analyse, Admitted, Dropped, RequestOnly
    <2>3. Served'
      BY <2>1, <2>2, Taking DEF Served
    <2>4. ASSUME NEW i \in Ids PROVE answers'[i] = IF 0 < i /\ i <= sent /\ i \notin Waiting' THEN 1 ELSE 0
      BY <2>1, <2>2, Taking DEF AInv, AnsweredOnce, Waiting, Attending, Ids
    <2> QED
      BY <1>t, <2>1, <2>3, <2>4, Taking DEF AInv, AnsweredOnce
  <1>8. CASE AnswerNavigation \/ AnswerGraph
    <2>1. /\ Attending /\ ~Attending' /\ Answer(serving)
          /\ UNCHANGED <<sent, inbox>>
      BY <1>8 DEF AnswerNavigation, AnswerGraph, Attending, Rest, BeginRefresh, editor
    <2>2. Numbered' /\ Served' /\ Queued' = Queued
      BY <2>1 DEF AInv, Numbered, Served, Queued
    <2>3. ASSUME NEW i \in Ids PROVE answers'[i] = IF 0 < i /\ i <= sent /\ i \notin Waiting' THEN 1 ELSE 0
      BY <2>1, <2>2 DEF AInv, PipeTypes, LoopTypes, AnsweredOnce, Waiting, Attending, Served, Answer, Ids
    <2> QED
      BY <1>t, <2>1, <2>2, <2>3 DEF AInv, AnsweredOnce
  <1>9. CASE HangUp \/ Reuse \/ Stamp \/ (\E d \in Documents : Read(d)) \/ Remember \/ Fail
    BY <1>9, <1>u DEF HangUp, Reuse, Stamp, Read, Remember, Fail, Outside, editor, output, Attending
  <1>10. CASE Publish
    <2>1. UNCHANGED <<sent, answers, inbox>> /\ ~Attending /\ ~Attending'
      BY <1>10 DEF Publish, Rest, Refreshing, Attending, editor
    <2> QED
      BY <1>t, <2>1 DEF AInv, Numbered, Served, AnsweredOnce, Waiting, Queued, Attending
  <1> QED
    BY <1>1, <1>2, <1>3, <1>4, <1>5, <1>6, <1>7, <1>8, <1>9, <1>10 DEF Next, Editor, Handle

\* For any number of requests and any pipe, a request is answered once by the
\* time it is behind the loop, and a notification never.
THEOREM Answers == Spec => []AnsweredOnce
  <1>1. AInv => AnsweredOnce
    BY DEF AInv
  <1> QED
    BY <1>1, AnswersInit, AnswersStep, PTL DEF Spec

(***************************************************************************)
(* The findings published are those of the files.  While nothing changed   *)
(* since the stamp, what was read is what is there; and whatever changes,  *)
(* what a refresh has read was there at some moment of it.                 *)
(***************************************************************************)
Stamps == stamp \in Nat /\ changes \in Nat /\ cache.stamp \in Nat
          /\ stamp <= changes /\ cache.stamp <= changes
          /\ flawed \subseteq Documents
ReadSoFar == pc = "read" /\ stamp = changes =>
    /\ unread # Documents => readable
    /\ OfFiles(reading) = {f \in flawed \X {"rule"} : f[1] \notin unread}
Window == Refreshing => always \subseteq RuleFindings /\ RuleFindings \subseteq ever
Seen == Refreshing /\ pc \in {"read", "done", "failed"} =>
    /\ OfFiles(reading) \subseteq ever
    /\ \A f \in always : f \in reading \/ (pc = "read" /\ f[1] \in unread)
FInv == LoopTypes /\ Stamps /\ ReadSoFar /\ CacheIsHonest /\ Window /\ Seen

LEMMA OfFilesUnion == ASSUME NEW A, NEW B PROVE OfFiles(A \cup B) = OfFiles(A) \cup OfFiles(B)
  BY DEF OfFiles

LEMMA FindingsInit == Init => FInv
  <1> SUFFICES ASSUME Init PROVE FInv
    OBVIOUS
  <1>1. LoopTypes
    BY InitTyped
  <1>2. Stamps /\ CacheIsHonest
    BY DEF Init, Stamps, CacheIsHonest
  <1>3. ReadSoFar /\ Window /\ Seen
    BY DEF Init, ReadSoFar, Window, Seen, Refreshing
  <1> QED
    BY <1>1, <1>2, <1>3 DEF FInv

\* A step that neither reads nor writes the files, nor begins or ends a refresh.
LEMMA FindingsKept ==
    ASSUME FInv, LoopTypes', UNCHANGED <<cache, stamp, unread, reading, changes, flawed, readable, observed>>,
           pc' \in {"read", "done", "failed"} => pc' = pc,
           Refreshing' => Refreshing
    PROVE  FInv'
  <1>1. Stamps' /\ CacheIsHonest'
    BY DEF FInv, Stamps, CacheIsHonest, RuleFindings
  <1>2. ReadSoFar' /\ Window' /\ Seen'
    BY DEF FInv, ReadSoFar, Window, Seen, RuleFindings, observed
  <1> QED
    BY <1>1, <1>2 DEF FInv

LEMMA FindingsBegun ==
    ASSUME FInv, LoopTypes', UNCHANGED <<cache, stamp, unread, reading, changes, flawed, readable>>, BeginRefresh
    PROVE  FInv'
  <1>1. Stamps' /\ CacheIsHonest'
    BY DEF FInv, Stamps, CacheIsHonest, RuleFindings
  <1>2. ReadSoFar' /\ Window' /\ Seen'
    BY DEF BeginRefresh, ReadSoFar, Window, Seen, RuleFindings
  <1> QED
    BY <1>1, <1>2 DEF FInv

LEMMA FindingsStep == FInv /\ PipeTypes /\ [Next]_vars => FInv'
  <1> SUFFICES ASSUME FInv, PipeTypes, [Next]_vars PROVE FInv'
    OBVIOUS
  <1>t. LoopTypes /\ LoopTypes'
    BY LoopTyped DEF FInv
  <1>1. CASE Editor \/ EditPipeline \/ UNCHANGED vars
    <2>1. UNCHANGED <<cache, stamp, unread, reading, changes, flawed, readable, observed, pc, doing>>
      BY <1>1 DEF Editor, Ask, Notify, Edit, EditPipeline, Server, loop, analysis, disk, vars
    <2> QED
      BY <1>t, <2>1, FindingsKept DEF Refreshing
  <1>2. CASE Change
    <2>1. /\ changes \in Nat /\ changes' = changes + 1 /\ flawed' \in SUBSET Documents
          /\ UNCHANGED <<cache, stamp, unread, reading, pc, doing>>
          /\ ever' = (IF Refreshing THEN ever \cup RuleFindings' ELSE ever)
          /\ always' = always \cap RuleFindings'
      BY <1>2 DEF Change, Server, loop, analysis, FInv, Stamps
    <2>2. Stamps' /\ CacheIsHonest' /\ ReadSoFar'
      BY <2>1 DEF FInv, Stamps, CacheIsHonest, ReadSoFar
    <2>3. Window' /\ Seen'
      BY <2>1 DEF FInv, Window, Seen, Refreshing
    <2> QED
      BY <1>t, <2>2, <2>3 DEF FInv
  <1>3. CASE Reject \/ Drop \/ Refuse \/ Initialize \/ Shutdown \/ Reply \/ DidOpen \/ DidClose \/ Exit \/ HangUp \/ Analyse
    <2>1. UNCHANGED <<cache, stamp, unread, reading, changes, flawed, readable, observed>>
      BY <1>3 DEF Reject, Drop, Refuse, Initialize, Shutdown, Reply, DidOpen, DidClose, Exit, HangUp, Analyse,
         Server, analysis, disk
    <2>2. (pc' \in {"read", "done", "failed"} => pc' = pc) /\ (Refreshing' => Refreshing)
      BY <1>3 DEF Reject, Drop, Refuse, Initialize, Shutdown, Reply, DidOpen, DidClose, Exit, HangUp, Analyse,
         Server, loop, Refreshing
    <2> QED
      BY <1>t, <2>1, <2>2, FindingsKept
  <1>4. CASE DidSave
    <2>1. UNCHANGED <<cache, stamp, unread, reading, changes, flawed, readable>>
      BY <1>4 DEF DidSave, analysis, disk
    <2>2. BeginRefresh \/ UNCHANGED <<pc, doing, observed>>
      BY <1>4 DEF DidSave, loop
    <2> QED
      BY <1>t, <2>1, <2>2, FindingsKept, FindingsBegun DEF Refreshing
  <1>5. CASE AnswerNavigation \/ AnswerGraph
    <2>1. UNCHANGED <<cache, stamp, unread, reading, changes, flawed, readable>>
      BY <1>5 DEF AnswerNavigation, AnswerGraph, analysis, disk
    <2>2. BeginRefresh \/ (Rest /\ UNCHANGED observed)
      BY <1>5 DEF AnswerNavigation, AnswerGraph
    <2>3. CASE BeginRefresh
      BY <1>t, <2>1, <2>3, FindingsBegun
    <2>4. CASE Rest /\ UNCHANGED observed
      <3>1. pc' = "idle" /\ ~Refreshing'
        BY <2>4 DEF Rest, Refreshing
      <3>2. Stamps' /\ CacheIsHonest' /\ ReadSoFar' /\ Window' /\ Seen'
        BY <2>1, <3>1 DEF FInv, Stamps, CacheIsHonest, RuleFindings, ReadSoFar, Window, Seen
      <3> QED
        BY <1>t, <3>2 DEF FInv
    <2> QED
      BY <2>2, <2>3, <2>4
  <1>6. CASE Publish
    <2>1. UNCHANGED <<cache, stamp, unread, reading, changes, flawed, readable>> /\ pc' = "idle" /\ ~Refreshing'
      BY <1>6 DEF Publish, Rest, Refreshing, analysis, disk
    <2>2. Stamps' /\ CacheIsHonest'
      BY <2>1 DEF FInv, Stamps, CacheIsHonest, RuleFindings
    <2>3. ReadSoFar' /\ Window' /\ Seen'
      BY <2>1 DEF ReadSoFar, Window, Seen
    <2> QED
      BY <1>t, <2>2, <2>3 DEF FInv
  \* The files stay, and so do the bounds of what was there.
  <1>d. ASSUME UNCHANGED Outside
        PROVE  UNCHANGED <<changes, flawed, readable, ever, always>> /\ RuleFindings' = RuleFindings
               /\ Refreshing' = Refreshing /\ Window'
    BY <1>d DEF Outside, disk, observed, RuleFindings, Refreshing, FInv, Window
  <1>7. CASE Reuse
    <2>1. UNCHANGED <<Outside, cache, stamp>> /\ pc' = "done" /\ reading' = cache.findings /\ cache.stamp = changes
      BY <1>7 DEF Reuse
    <2>2. Stamps' /\ CacheIsHonest' /\ ReadSoFar'
      BY <2>1, <1>d DEF FInv, Stamps, CacheIsHonest, ReadSoFar
    <2>3. OfFiles(reading') = RuleFindings
      BY <2>1 DEF FInv, CacheIsHonest
    <2>4. Seen'
      BY <2>1, <2>3, <1>d DEF FInv, Seen, Window, OfFiles
    <2> QED
      BY <1>t, <1>d, <2>1, <2>2, <2>4 DEF FInv
  <1>8. CASE Stamp
    <2>1. UNCHANGED <<Outside, cache>> /\ pc' = "read" /\ reading' = {} /\ stamp' = changes /\ unread' = Documents
      BY <1>8 DEF Stamp
    <2>2. Stamps' /\ CacheIsHonest'
      BY <2>1, <1>d DEF FInv, Stamps, CacheIsHonest
    <2>3. ReadSoFar' /\ Seen'
      <3>1. \A f \in flawed \X {"rule"} : f[1] \in Documents
        BY DEF FInv, Stamps
      <3>2. RuleFindings \subseteq flawed \X {"rule"} /\ OfFiles({}) = {}
        BY DEF RuleFindings, OfFiles
      <3>3. ReadSoFar'
        BY <2>1, <3>1, <3>2, <1>d DEF ReadSoFar
      <3>4. Seen'
        BY <2>1, <3>1, <3>2, <1>d DEF Seen, FInv, Window
      <3> QED
        BY <3>3, <3>4
    <2> QED
      BY <1>t, <1>d, <2>1, <2>2, <2>3 DEF FInv
  <1>9. ASSUME NEW d \in Documents, Read(d) PROVE FInv'
    <2>1. /\ UNCHANGED <<Outside, pc, cache, stamp>> /\ pc = "read" /\ readable
          /\ reading' = reading \cup (RuleFindings \cap {<<d, "rule">>}) /\ unread' = unread \ {d}
      BY <1>9 DEF Read
    <2>2. Stamps' /\ CacheIsHonest'
      BY <2>1, <1>d DEF FInv, Stamps, CacheIsHonest
    <2>3. RuleFindings = flawed \X {"rule"}
      BY <2>1 DEF RuleFindings
    <2>4. OfFiles(reading') = OfFiles(reading) \cup (RuleFindings \cap {<<d, "rule">>})
      BY <2>1 DEF OfFiles
    <2>5. ReadSoFar'
      <3>1. SUFFICES ASSUME stamp = changes
                     PROVE  OfFiles(reading') = {f \in flawed \X {"rule"} : f[1] \notin unread'}
        BY <2>1, <1>d DEF ReadSoFar
      <3>2. OfFiles(reading) = {f \in flawed \X {"rule"} : f[1] \notin unread}
        BY <2>1, <3>1 DEF FInv, ReadSoFar
      <3> QED
        BY <2>1, <2>3, <2>4, <3>2
    <2>6. Seen'
      <3>1. SUFFICES ASSUME Refreshing
                     PROVE  /\ OfFiles(reading') \subseteq ever
                            /\ \A f \in always : f \in reading' \/ f[1] \in unread'
        BY <2>1, <1>d DEF Seen
      <3>2. /\ OfFiles(reading) \subseteq ever /\ always \subseteq RuleFindings /\ RuleFindings \subseteq ever
            /\ \A f \in always : f \in reading \/ f[1] \in unread
        BY <2>1, <3>1 DEF FInv, Seen, Window
      <3>3. \A f \in always : f[1] = d => f = <<d, "rule">>
        BY <2>3, <3>2
      <3>4. OfFiles(reading') \subseteq ever
        BY <2>4, <3>2
      <3>5. ASSUME NEW f \in always, f \notin reading' PROVE f[1] \in unread'
        BY <2>1, <3>2, <3>3, <3>5
      <3> QED
        BY <3>4, <3>5
    <2> QED
      BY <1>t, <1>d, <2>1, <2>2, <2>5, <2>6 DEF FInv
  <1>10. CASE Remember
    <2>1. /\ UNCHANGED <<Outside, stamp, unread>> /\ pc = "read" /\ pc' = "done" /\ unread = {}
          /\ reading' = reading \cup PipelineFindings
          /\ cache' = [stamp |-> stamp, findings |-> reading']
      BY <1>10 DEF Remember
    <2>2. OfFiles(reading') = OfFiles(reading)
      BY <2>1 DEF OfFiles, PipelineFindings
    <2>3. CacheIsHonest'
      <3>1. SUFFICES ASSUME stamp = changes PROVE readable /\ OfFiles(reading) = RuleFindings
        BY <2>1, <2>2, <1>d DEF CacheIsHonest
      <3>2. readable /\ OfFiles(reading) = {f \in flawed \X {"rule"} : f[1] \notin unread}
        BY <2>1, <3>1, DocumentNames DEF FInv, ReadSoFar
      <3> QED
        BY <2>1, <3>2 DEF RuleFindings
    <2>4. Stamps' /\ ReadSoFar'
      BY <2>1, <1>d DEF FInv, Stamps, ReadSoFar
    <2>5. Seen'
      BY <2>1, <2>2, <1>d DEF FInv, Seen
    <2> QED
      BY <1>t, <1>d, <2>1, <2>3, <2>4, <2>5 DEF FInv
  <1>11. CASE Fail
    <2>1. UNCHANGED <<Outside, cache, stamp>> /\ pc' = "failed" /\ reading' = {} /\ ~readable
      BY <1>11 DEF Fail
    <2>2. Stamps' /\ CacheIsHonest' /\ ReadSoFar'
      BY <2>1, <1>d DEF FInv, Stamps, CacheIsHonest, ReadSoFar
    <2>3. RuleFindings = {} /\ OfFiles({}) = {}
      BY <2>1 DEF RuleFindings, OfFiles
    <2>4. Seen'
      BY <2>1, <2>3, <1>d DEF FInv, Window, Seen
    <2> QED
      BY <1>t, <1>d, <2>1, <2>2, <2>4 DEF FInv
  <1> QED
    BY <1>1, <1>2, <1>3, <1>4, <1>5, <1>6, <1>7, <1>8, <1>9, <1>10, <1>11 DEF Next, Handle

LEMMA FindingsAlways == Spec => [](FInv /\ PipeTypes)
  <1>1. Init => FInv /\ PipeTypes
    BY FindingsInit, InitTyped
  <1>2. FInv /\ PipeTypes /\ [Next]_vars => (FInv /\ PipeTypes)'
    BY FindingsStep, PipeTyped
  <1> QED
    BY <1>1, <1>2, PTL DEF Spec

\* For any documents and any changes of the files, an analysis that would be
\* reused is the one of the files as they are.
THEOREM Reusable == Spec => []CacheIsHonest
  <1>1. FInv /\ PipeTypes => CacheIsHonest
    BY DEF FInv
  <1> QED
    BY <1>1, FindingsAlways, PTL

\* A refresh publishes what the files had at some moment of it, and leaves out
\* only what they lacked at some moment of it.
THEOREM Truthful == Spec => FindingsWereThere
  <1>1. ASSUME FInv /\ PipeTypes, [Next]_vars, Refreshing, ~Refreshing'
        PROVE  OfFiles(published') \subseteq ever /\ always \subseteq published'
    <2>1. LoopTypes /\ LoopTypes'
      BY <1>1, LoopTyped DEF FInv
    <2>2. doing = "refresh" /\ doing' # "refresh" /\ pc \notin {"idle", "ended"}
      BY <1>1, <2>1 DEF Refreshing, LoopTypes
    <2>3. Publish
      BY <1>1, <2>2 DEF Next, Editor, Ask, Notify, Edit, Change, EditPipeline, Handle, Reject, Drop, Exit, HangUp,
         Refuse, Initialize, Shutdown, Reply, DidOpen, DidClose, DidSave, Analyse, Take, Reuse, Stamp, Read,
         Remember, Fail, AnswerNavigation, AnswerGraph, Server, loop, Outside, vars
    <2> QED
      BY <1>1, <2>3 DEF Publish, FInv, Seen
  <1>2. FInv /\ PipeTypes /\ [Next]_vars =>
          [Refreshing /\ ~Refreshing' => OfFiles(published') \subseteq ever /\ always \subseteq published']_vars
    BY <1>1
  <1> QED
    BY <1>2, FindingsAlways, PTL DEF Spec, FindingsWereThere

(***************************************************************************)
(* What the editor shows is what is so.  The last frame about a document   *)
(* in the pipe carries the text the editor has; where there is none, the   *)
(* server has that text; and what is shown follows from what it has.       *)
(***************************************************************************)
Framed ==
    \A j \in DOMAIN inbox :
        /\ inbox[j].doc = NoDocument <=> inbox[j].method \notin {"didOpen", "didClose"}
        /\ inbox[j].method = "didOpen" => inbox[j].text \in Texts
        /\ inbox[j].method = "didClose" => inbox[j].text = "none"
        /\ inbox[j].doc # NoDocument => initialized

LastFrame(d, j) == inbox[j].doc = d /\ \A k \in DOMAIN inbox : k > j => inbox[k].doc # d
Follows(d) ==
    /\ \A j \in DOMAIN inbox : LastFrame(d, j) => inbox[j].text = buffer[d]
    /\ (\A j \in DOMAIN inbox : inbox[j].doc # d) => documents[d] = buffer[d]

Shows(d) ==
    IF documents[d] = "none" THEN About({d}, shown) \subseteq published
    ELSE About({d}, shown) = Compiler(d, documents[d]) \cup About({d}, published)

Enabled == (~enabled => published = {}) /\ (Refreshing => enabled) /\ (enabled => initialized)

VInv ==
    /\ PipeTypes /\ LoopTypes /\ Framed /\ Enabled
    /\ DOMAIN buffer = Documents /\ DOMAIN documents = Documents
    /\ ~shutdown => \A d \in Documents : Follows(d)
    /\ \A d \in Documents : Shows(d)

LEMMA ViewsInit == Init => VInv
  <1> SUFFICES ASSUME Init PROVE VInv
    OBVIOUS
  <1>1. PipeTypes /\ LoopTypes
    BY InitTyped
  <1>2. Framed /\ Enabled
    BY DEF Init, Framed, Enabled, Refreshing
  <1>3. ASSUME NEW d \in Documents PROVE Follows(d) /\ Shows(d)
    <2>1. inbox = <<>> /\ documents = buffer /\ documents[d] = "none" /\ shown = {}
      BY DEF Init
    <2>2. Follows(d)
      BY <2>1 DEF Follows
    <2>3. About({d}, {}) = {}
      BY DEF About
    <2> QED
      BY <2>1, <2>2, <2>3 DEF Shows
  <1> QED
    BY <1>1, <1>2, <1>3 DEF VInv, Init

\* A step that says nothing of a document.
LEMMA ViewsKept ==
    ASSUME VInv, PipeTypes', LoopTypes', Framed', Enabled',
           UNCHANGED <<buffer, documents, published, shown>>,
           ~shutdown' => ~shutdown /\ \A d \in Documents : Follows(d)'
    PROVE  VInv'
  <1>1. \A d \in Documents : Shows(d)'
    BY DEF VInv, Shows
  <1> QED
    BY <1>1 DEF VInv

\* Taking the head: a document it is not about is followed as before.
LEMMA ViewsTake ==
    ASSUME VInv, Take, NEW d \in Documents, Follows(d), UNCHANGED buffer,
           IF m.doc = d THEN documents'[d] = m.text ELSE documents'[d] = documents[d]
    PROVE  Follows(d)'
  <1>1. inbox # <<>> /\ inbox \in Seq(Messages) /\ inbox' = Tail(inbox) /\ m = inbox[1] /\ 1 \in DOMAIN inbox
    BY HeadTail DEF Take, VInv, PipeTypes, m
  <1>2. /\ \A i \in DOMAIN inbox' : i + 1 \in DOMAIN inbox /\ i + 1 # 1 /\ inbox'[i] = inbox[i + 1]
        /\ \A i \in DOMAIN inbox : i # 1 => i - 1 \in DOMAIN inbox' /\ inbox'[i - 1] = inbox[i]
    BY <1>1, HeadTail
  <1>3. DOMAIN inbox \subseteq Nat \ {0} /\ DOMAIN inbox' \subseteq Nat \ {0}
    BY <1>1
  <1>4. ASSUME NEW j \in DOMAIN inbox', LastFrame(d, j)' PROVE inbox'[j].text = buffer'[d]
    <2>1. j + 1 \in DOMAIN inbox /\ inbox[j + 1].doc = d
      BY <1>2, <1>4 DEF LastFrame
    <2>2. ASSUME NEW k \in DOMAIN inbox, k > j + 1 PROVE inbox[k].doc # d
      <3>1. k # 1 /\ k - 1 > j
        BY <1>3, <2>2
      <3>2. k - 1 \in DOMAIN inbox' /\ inbox'[k - 1] = inbox[k]
        BY <1>2, <3>1
      <3> QED
        BY <1>4, <3>1, <3>2 DEF LastFrame
    <2>3. LastFrame(d, j + 1)
      BY <2>1, <2>2 DEF LastFrame
    <2> QED
      BY <1>2, <2>1, <2>3 DEF Follows
  <1>5. ASSUME \A j \in DOMAIN inbox' : inbox'[j].doc # d PROVE documents'[d] = buffer'[d]
    <2>1. \A k \in DOMAIN inbox : k # 1 => inbox[k].doc # d
      BY <1>2, <1>5
    <2>2. CASE m.doc = d
      <3>1. LastFrame(d, 1)
        BY <1>1, <1>3, <2>1, <2>2 DEF LastFrame
      <3> QED
        BY <1>1, <2>2, <3>1 DEF Follows
    <2>3. CASE m.doc # d
      BY <1>1, <2>1, <2>3 DEF Follows
    <2> QED
      BY <2>2, <2>3
  <1> QED
    BY <1>4, <1>5 DEF Follows

LEMMA FramedTake ==
    ASSUME VInv, Take, initialized => initialized'
    PROVE  /\ Framed' /\ doing = "nothing" /\ pc = "idle" /\ m.doc \in Documents \cup {NoDocument}
           /\ m.doc = NoDocument <=> m.method \notin {"didOpen", "didClose"}
           /\ m.method = "didOpen" => m.text \in Texts
           /\ m.method = "didClose" => m.text = "none"
           /\ m.doc # NoDocument => initialized
  <1>1. inbox # <<>> /\ inbox \in Seq(Messages) /\ inbox' = Tail(inbox) /\ m = inbox[1] /\ 1 \in DOMAIN inbox
    BY HeadTail DEF Take, VInv, PipeTypes, m
  <1>2. \A i \in DOMAIN inbox' : i + 1 \in DOMAIN inbox /\ inbox'[i] = inbox[i + 1]
    BY <1>1, HeadTail
  <1>3. Framed'
    BY <1>2 DEF VInv, Framed
  <1>4. m.doc \in Documents \cup {NoDocument}
    BY <1>1, HeadIsMessage DEF VInv, Messages
  <1> QED
    BY <1>1, <1>3, <1>4 DEF VInv, Framed, Take, LoopTypes

\* Writing a frame x about no document, or with the text the editor now has.
LEMMA ViewsWrite ==
    ASSUME VInv, PipeTypes', NEW x \in Messages, inbox' = Append(inbox, x),
           UNCHANGED <<documents, published, shown, loop, session>>,
           /\ x.doc = NoDocument <=> x.method \notin {"didOpen", "didClose"}
           /\ x.method = "didOpen" => x.text \in Texts
           /\ x.method = "didClose" => x.text = "none"
           /\ x.doc # NoDocument => initialized,
           DOMAIN buffer' = Documents,
           \A d \in Documents : buffer'[d] = IF d = x.doc THEN x.text ELSE buffer[d]
    PROVE  VInv'
  <1>1. /\ DOMAIN inbox = 1 .. Len(inbox) /\ Len(inbox) \in Nat
        /\ DOMAIN inbox' = DOMAIN inbox \cup {Len(inbox) + 1}
        /\ \A i \in DOMAIN inbox : inbox'[i] = inbox[i]
        /\ inbox'[Len(inbox) + 1] = x
    BY DEF VInv, PipeTypes
  <1>2. Framed' /\ Enabled' /\ LoopTypes'
    <2>1. Framed'
      BY <1>1 DEF VInv, Framed, session
    <2>2. Enabled' /\ LoopTypes'
      BY DEF VInv, Enabled, LoopTypes, Refreshing, session, loop
    <2> QED
      BY <2>1, <2>2
  <1>3. ASSUME ~shutdown', NEW d \in Documents PROVE Follows(d)'
    <2>1. Follows(d)
      BY <1>3 DEF VInv, session
    <2>2. CASE d = x.doc
      <3>1. \A j \in DOMAIN inbox : Len(inbox) + 1 > j
        BY <1>1
      <3>2. \A j \in DOMAIN inbox' : LastFrame(d, j)' => j = Len(inbox) + 1
        BY <1>1, <2>2, <3>1 DEF LastFrame
      <3> QED
        BY <1>1, <2>2, <3>2 DEF Follows
    <2>3. CASE d # x.doc
      <3>1. ASSUME NEW j \in DOMAIN inbox', LastFrame(d, j)' PROVE j \in DOMAIN inbox /\ LastFrame(d, j)
        BY <1>1, <2>3, <3>1 DEF LastFrame
      <3>2. \A j \in DOMAIN inbox' : LastFrame(d, j)' => inbox'[j].text = buffer'[d]
        BY <1>1, <2>1, <2>3, <3>1 DEF Follows
      <3>3. (\A j \in DOMAIN inbox' : inbox'[j].doc # d) => documents'[d] = buffer'[d]
        BY <1>1, <2>1, <2>3 DEF Follows
      <3> QED
        BY <3>2, <3>3 DEF Follows
    <2> QED
      BY <2>2, <2>3
  <1> QED
    BY <1>2, <1>3 DEF VInv, Shows

\* What a publication about the documents D leaves of what another shows.
LEMMA ShowOthers ==
    ASSUME NEW D, NEW findings, Show(D, findings), NEW d, d \notin D, About({d}, findings) = {}
    PROVE  About({d}, shown') = About({d}, shown)
  BY DEF Show, About

LEMMA ShowThese ==
    ASSUME NEW D, NEW findings, Show(D, findings), NEW d \in D
    PROVE  About({d}, shown') = About({d}, findings)
  BY DEF Show, About

LEMMA CompilerIsAbout == \A d, text : \A f \in Compiler(d, text) : f[1] = d
  BY DEF Compiler

LEMMA ViewsPublish ==
    ASSUME VInv, Publish, NEW d \in Documents
    PROVE  Shows(d)'
  <1> DEFINE said == UNION {Compiler(e, documents[e]) : e \in Touched}
  <1>1. published' = reading /\ Show(Touched, reading \cup said) /\ documents' = documents
    BY DEF Publish
  <1>2. \A f \in said : f[1] \in Touched /\ f \in Compiler(f[1], documents[f[1]])
    BY CompilerIsAbout
  <1>3. \A f \in Compiler(d, documents[d]) : d \in Touched => f \in said
    OBVIOUS
  <1> HIDE DEF said
  <1>4. Shows(d)
    BY DEF VInv
  <1>5. CASE d \in Touched
    <2>1. About({d}, shown') = About({d}, reading \cup said)
      BY <1>1, <1>5, ShowThese
    <2>2. About({d}, said) = Compiler(d, documents[d])
      BY <1>2, <1>3, <1>5, CompilerIsAbout DEF About
    <2>3. About({d}, reading \cup said) = About({d}, reading) \cup Compiler(d, documents[d])
      BY <2>2 DEF About
    <2>4. documents[d] = "none" => Compiler(d, documents[d]) = {}
      BY DEF Compiler
    <2> QED
      BY <1>1, <2>1, <2>3, <2>4 DEF Shows, About
  <1>6. CASE d \notin Touched
    <2>1. \A f \in reading \cup published : f[1] # d
      BY <1>6 DEF Touched
    <2>2. About({d}, reading \cup said) = {}
      BY <1>2, <1>6, <2>1 DEF About
    <2>3. About({d}, shown') = About({d}, shown)
      BY <1>1, <1>6, <2>2, ShowOthers
    <2>4. About({d}, published) = {} /\ About({d}, published') = {}
      BY <1>1, <2>1 DEF About
    <2>5. documents[d] = "none" => About({d}, shown) = {}
      BY <1>4, <2>4 DEF Shows, About
    <2> QED
      BY <1>1, <1>4, <2>3, <2>4, <2>5 DEF Shows
  <1> QED
    BY <1>5, <1>6

LEMMA ViewsStep == VInv /\ [Next]_vars => VInv'
  <1> SUFFICES ASSUME VInv, [Next]_vars PROVE VInv'
    OBVIOUS
  <1>t. PipeTypes' /\ LoopTypes'
    BY PipeTyped, LoopTyped DEF VInv
  <1>1. ASSUME NEW method \in RequestOnly \cup {"unknown", "malformed"}, NEW ok \in BOOLEAN, Ask(method, ok)
        PROVE VInv'
    <2> DEFINE x == Message(method, sent + 1, ok, NoDocument, "none")
    <2>1. sent + 1 \in Ids
      BY <1>1, Bounds DEF Ask, Ids, VInv, PipeTypes
    <2>2. x \in Messages /\ x.doc = NoDocument /\ x.method \notin {"didOpen", "didClose"}
      BY <2>1 DEF Message, Messages, Methods, RequestOnly
    <2>3. inbox' = Append(inbox, x) /\ UNCHANGED <<buffer, documents, published, shown, loop, session>>
      BY <1>1 DEF Ask, Write, output, Server
    <2> HIDE DEF x
    <2> QED
      BY <1>t, <2>2, <2>3, ViewsWrite, DocumentNames DEF VInv
  <1>2. ASSUME NEW method \in {"initialized", "didSave", "exit", "ask", "shutdown"}, Notify(method)
        PROVE VInv'
    <2> DEFINE x == Message(method, 0, TRUE, NoDocument, "none")
    <2>2. x \in Messages /\ x.doc = NoDocument /\ x.method \notin {"didOpen", "didClose"}
      BY Bounds DEF Message, Messages, Methods, RequestOnly, Ids
    <2>3. inbox' = Append(inbox, x) /\ UNCHANGED <<buffer, documents, published, shown, loop, session>>
      BY <1>2 DEF Notify, Write, output, Server
    <2> HIDE DEF x
    <2> QED
      BY <1>t, <2>2, <2>3, ViewsWrite, DocumentNames DEF VInv
  <1>3. ASSUME NEW d \in Documents, NEW text \in Texts \cup {"none"}, Edit(d, text)
        PROVE VInv'
    <2> DEFINE x == Message(IF text = "none" THEN "didClose" ELSE "didOpen", 0, TRUE, d, text)
    <2>2. x \in Messages /\ x.doc = d /\ x.text = text /\ x.method = IF text = "none" THEN "didClose" ELSE "didOpen"
      BY Bounds DEF Message, Messages, Methods, RequestOnly, Ids
    <2>3. /\ inbox' = Append(inbox, x) /\ UNCHANGED <<documents, published, shown, loop, session>>
          /\ buffer' = [buffer EXCEPT ![d] = text] /\ initialized
      BY <1>3 DEF Edit, Write, output, Server
    <2> HIDE DEF x
    <2>4. x.doc # NoDocument /\ (x.method = "didOpen" => x.text \in Texts) /\ (x.method = "didClose" => x.text = "none")
          /\ x.method \in {"didOpen", "didClose"}
      BY <2>2, DocumentNames
    <2>5. DOMAIN buffer' = Documents /\ \A e \in Documents : buffer'[e] = IF e = x.doc THEN x.text ELSE buffer[e]
      BY <2>2, <2>3 DEF VInv
    <2> QED
      BY <1>t, <2>2, <2>3, <2>4, <2>5, ViewsWrite
  <1>4. CASE \/ Change \/ EditPipeline \/ Reuse \/ Stamp \/ (\E d \in Documents : Read(d)) \/ Remember \/ Fail \/ HangUp
             \/ AnswerNavigation \/ AnswerGraph \/ UNCHANGED vars
    <2>1. UNCHANGED <<buffer, documents, published, shown, inbox, session>>
      BY <1>4 DEF Change, EditPipeline, Reuse, Stamp, Read, Remember, Fail, HangUp, AnswerNavigation, AnswerGraph,
                  editor, output, Server, Outside, vars
    <2>2. Refreshing' => Refreshing \/ Refreshes
      BY <1>4 DEF Change, EditPipeline, Reuse, Stamp, Read, Remember, Fail, HangUp, AnswerNavigation, AnswerGraph,
                  Server, loop, Outside, vars, Refreshing, Rest, BeginRefresh
    <2>3. Framed' /\ Enabled'
      BY <2>1, <2>2 DEF VInv, Framed, Enabled, session, Refreshes
    <2>4. ~shutdown' => ~shutdown /\ \A d \in Documents : Follows(d)'
      BY <2>1 DEF VInv, Follows, LastFrame, session
    <2> QED
      BY <1>t, <2>1, <2>3, <2>4, ViewsKept
  <1>5. CASE Reject \/ Drop \/ Exit \/ Refuse \/ Initialize \/ Shutdown \/ Reply \/ DidSave \/ Analyse
    <2>1. Take /\ UNCHANGED <<buffer, documents, published, shown>>
      BY <1>5 DEF Reject, Drop, Exit, Refuse, Initialize, Shutdown, Reply, DidSave, Analyse, editor, output, Server
    <2>2. UNCHANGED <<initialized, enabled>> \/ (Initialize /\ ~initialized)
      BY <1>5 DEF Reject, Drop, Exit, Refuse, Initialize, Shutdown, Reply, DidSave, Analyse, Server, session,
                  Admitted, Refused
    <2>3. Framed' /\ doing = "nothing"
      BY <2>1, <2>2, FramedTake
    <2>4. Refreshing' => Refreshes /\ UNCHANGED <<initialized, enabled>>
      BY <1>5, <2>3 DEF Reject, Drop, Exit, Refuse, Initialize, Shutdown, Reply, DidSave, Analyse, Server, session, loop,
                  Refreshing, BeginRefresh
    <2>5. Enabled'
      <3>1. CASE UNCHANGED <<initialized, enabled>>
        BY <2>1, <2>4, <3>1 DEF VInv, Enabled, Refreshes
      <3>2. CASE Initialize /\ ~initialized
        BY <2>1, <2>4, <3>2 DEF VInv, Enabled, Initialize, Refreshes
      <3> QED
        BY <2>2, <3>1, <3>2
    <2>6. ASSUME ~shutdown' PROVE ~shutdown /\ \A d \in Documents : Follows(d)'
      <3>1. ~shutdown
        BY <1>5, <2>6 DEF Reject, Drop, Exit, Refuse, Initialize, Shutdown, Reply, DidSave, Analyse, Server, session
      <3>2. m.doc = NoDocument
        <4>1. m.method \notin {"didOpen", "didClose"} \/ ~initialized
          BY <1>5, <3>1 DEF Reject, Drop, Dropped, Exit, Refuse, Refused, Initialize, Shutdown, Reply, Stateless,
                            DidSave, Analyse, RequestOnly
        <4> QED
          BY <2>1, <2>2, <4>1, FramedTake
      <3> QED
        BY <2>1, <3>1, <3>2, ViewsTake, DocumentNames DEF VInv
    <2> QED
      BY <1>t, <2>1, <2>3, <2>5, <2>6, ViewsKept
  <1>6. CASE DidOpen \/ DidClose
    <2>1. /\ Take /\ UNCHANGED <<buffer, published, session, loop>>
          /\ documents' = [documents EXCEPT ![m.doc] = IF m.method = "didOpen" THEN m.text ELSE "none"]
          /\ m.method \in {"didOpen", "didClose"}
          /\ Show({m.doc}, IF m.method = "didOpen" THEN Compiler(m.doc, m.text) \cup ForDocument(m.doc) ELSE {})
      BY <1>6 DEF DidOpen, DidClose, editor
    <2>2. /\ Framed' /\ m.doc \in Documents
          /\ m.method = "didOpen" => m.text \in Texts
          /\ m.method = "didClose" => m.text = "none"
      BY <2>1, FramedTake DEF session
    <2>3. Enabled' /\ DOMAIN documents' = Documents /\ DOMAIN buffer' = Documents
      BY <2>1 DEF VInv, Enabled, session, loop, Refreshing
    <2>4. \A d \in Documents : documents'[d] = IF m.doc = d THEN m.text ELSE documents[d]
      BY <2>1, <2>2 DEF VInv
    <2>5. ~shutdown' => \A d \in Documents : Follows(d)'
      BY <2>1, <2>4, ViewsTake DEF VInv, session
    <2>6. ASSUME NEW d \in Documents PROVE Shows(d)'
      <3> DEFINE findings == IF m.method = "didOpen" THEN Compiler(m.doc, m.text) \cup ForDocument(m.doc) ELSE {}
      <3>1. \A f \in findings : f[1] = m.doc
        BY CompilerIsAbout DEF ForDocument, About
      <3>2. ForDocument(m.doc) = About({m.doc}, published)
        BY DEF VInv, Enabled, ForDocument, About
      <3>3. Show({m.doc}, findings) /\ published' = published
        BY <2>1
      <3>6. m.method = "didOpen" => m.text # "none" /\ findings = Compiler(m.doc, m.text) \cup About({m.doc}, published)
        BY <2>2, <3>2 DEF Texts
      <3>7. m.method = "didClose" => findings = {}
        OBVIOUS
      <3> HIDE DEF findings
      <3>4. CASE d = m.doc
        <4>1. About({d}, shown') = About({d}, findings)
          BY <3>3, <3>4, ShowThese
        <4>2. About({d}, findings) = findings
          BY <3>1, <3>4 DEF About
        <4> QED
          BY <2>1, <2>2, <2>4, <3>3, <3>4, <3>6, <3>7, <4>1, <4>2 DEF Shows
      <3>5. CASE d # m.doc
        <4>1. About({d}, findings) = {}
          BY <3>1, <3>5 DEF About
        <4>2. About({d}, shown') = About({d}, shown)
          BY <3>3, <3>5, <4>1, ShowOthers
        <4> QED
          BY <2>4, <3>3, <3>5, <4>2 DEF VInv, Shows
      <3> QED
        BY <3>4, <3>5
    <2> QED
      BY <1>t, <2>2, <2>3, <2>5, <2>6 DEF VInv
  <1>7. CASE Publish
    <2>1. UNCHANGED <<buffer, documents, inbox, session>> /\ doing' = "nothing" /\ Refreshing
      BY <1>7 DEF Publish, Rest, editor
    <2>2. Framed' /\ Enabled'
      BY <2>1 DEF VInv, Framed, Enabled, session, Refreshing
    <2>3. ~shutdown' => \A d \in Documents : Follows(d)'
      BY <2>1 DEF VInv, Follows, LastFrame, session
    <2>4. \A d \in Documents : Shows(d)'
      BY <1>7, ViewsPublish
    <2> QED
      BY <1>t, <2>1, <2>2, <2>3, <2>4 DEF VInv
  <1> QED
    BY <1>1, <1>2, <1>3, <1>4, <1>5, <1>6, <1>7 DEF Next, Editor, Handle

\* For any documents, and whatever the order of edits, saves, closes and refreshes,
\* with any number of frames in the pipe: when the loop has caught up, the editor
\* shows what the compiler says of its text and what was last published.
THEOREM Shown == Spec => []ShownMatches
  <1>1. VInv => ShownMatches
    <2> SUFFICES ASSUME VInv, inbox = <<>>, ~shutdown, NEW d \in Documents
                 PROVE  IF buffer[d] = "none" THEN About({d}, shown) \subseteq published
                        ELSE About({d}, shown) = Compiler(d, buffer[d]) \cup About({d}, published)
      BY DEF ShownMatches, CaughtUp
    <2>1. documents[d] = buffer[d]
      BY DEF VInv, Follows
    <2> QED
      BY <2>1 DEF VInv, Shows
  <1> QED
    BY <1>1, ViewsInit, ViewsStep, PTL DEF Spec
=============================================================================
