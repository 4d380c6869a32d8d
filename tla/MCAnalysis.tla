----------------------------- MODULE MCAnalysis -----------------------------
(***************************************************************************)
(* `aru doctor` and the project map for TLC: two readings of one tree by   *)
(* one package, which share nothing but the files.  A behaviour is of one. *)
(* For doctor, a small application in the shape the skeleton gives it,     *)
(* which has no finding, and edits that each break one rule or put a file  *)
(* where it does not belong; for the map, a tree whose files come and go.  *)
(***************************************************************************)
EXTENDS Doctor, TLC

CONSTANTS LabelsByLength, Base, Library, Orders, MaxTreeEdits   \* of ProjectMap

VARIABLES
    drawn,                     \* this behaviour is of the map
    tree, visit, treeEdits     \* see ProjectMap

Map == INSTANCE ProjectMap WITH MaxEdits <- MaxTreeEdits, edits <- treeEdits

ASSUME TreeAssumption == Map!FilesOfAProject

map == <<tree, visit, treeEdits>>

AnalysisInit ==
    /\ Init /\ Map!Init
    /\ drawn \in BOOLEAN
    /\ ~drawn => visit = CHOOSE order \in Orders : TRUE

Judged(A) == ~drawn /\ A /\ UNCHANGED <<drawn, map>>
Mapped(A) == drawn /\ A /\ UNCHANGED <<drawn, vars>>

AnalysisNext == Judged(Next) \/ Mapped(Map!Next)

\* As for Doctor: the author keeps following the report.
AnalysisSpec ==
    /\ AnalysisInit /\ [][AnalysisNext]_<<drawn, vars, map>>
    /\ WF_vars(Judged(RunDoctor \/ WriteBaseline)) /\ WF_vars(Judged(Fix))

-----------------------------------------------------------------------------
\* Whatever is analysed again shows a route of its own for every registration; see
\* ProjectMap.
EveryRegistrationIsShown == [][drawn => Map!EveryRegistrationIsShown]_<<drawn, map>>

\* The map is of the code: two analyses of one tree differ only where the order in
\* which Go walks its maps decides, between two events of one name and two models of
\* one table, and a test that comes or goes changes nothing of the code on the map;
\* see ProjectMap.
OneMapOfTheCode == [][drawn => Map!SameMapAgain /\ Map!TestsOnlyAdd]_<<drawn, map>>

\* Following the report leads somewhere: no rule sends back what another asked
\* for, and fixing warnings never fails a run that passed (Doctor's
\* EndsWithNothingToDo and LessNeverFails).
ReportCanBeFollowed == EndsWithNothingToDo /\ LessNeverFails

-----------------------------------------------------------------------------
At(dir, stem, suffix) == [dir |-> dir, stem |-> stem, suffix |-> suffix, test |-> FALSE]
TestAt(dir, stem)     == [dir |-> dir, stem |-> stem, suffix |-> "", test |-> TRUE]

Imp(path)  == [kind |-> "import", path |-> path]
Pkg(dir)   == [kind |-> "package", dir |-> dir]
Note(says) == [kind |-> "note", says |-> says]
Typ(stem, suffix, marks) == [kind |-> "type", stem |-> stem, suffix |-> suffix, marks |-> marks]
Met(stem, suffix, name, marks, body) ==
    [kind |-> "func", stem |-> stem, suffix |-> suffix, name |-> name, marks |-> marks,
     body |-> body, sql |-> {}]
Fun(name, body)      == Met("", "", name, {}, body)
SQL(fn, statements)  == [fn EXCEPT !.sql = statements]
Stmt(verb, tables, tenant, marks) ==
    [verb |-> verb, tables |-> tables, tenant |-> tenant, marks |-> marks]
Cmd(dir, name)       == [kind |-> "command", dir |-> dir, name |-> name]

Controllers  == <<"app", "Http", "Controllers">>
Repositories == <<"app", "Repositories">>
Services     == <<"app", "Services">>
Migrated     == <<"database", "migrations">>

\* The files of the application, in the order doctor walks them.
backfill == 1   client == 2   status == 3   controller == 4   request == 5   rules == 6
invoice == 7    redaction == 8  policy == 9  writes == 10     provider == 11
repository == 12  service == 13  app == 14   up == 15        down == 16
console == 17   web == 18      journey == 19  second == 20     feature == 21  testcase == 22
spare == 23     spareTest == 24
Skeleton == 1..22

MCPath ==
    [f \in 1..24 |->
        CASE f = backfill   -> At(Commands, "Backfill", "")
          [] f = client     -> At(<<"app", "Clients">>, "Bank", "Client")
          [] f = status     -> At(<<"app", "Enums">>, "Status", "")
          [] f = controller -> At(Controllers, "Invoice", "Controller")
          [] f = request    -> At(<<"app", "Http", "Requests">>, "Invoice", "Request")
          [] f = rules      -> At(<<"app", "Http", "Requests">>, "Rules", "")
          [] f = invoice    -> At(<<"app", "Models">>, "Invoice", "")
          [] f = redaction  -> At(<<"app", "Models">>, "Redaction", "")
          [] f = policy     -> At(<<"app", "Policies">>, "Invoice", "Policy")
          [] f = writes     -> At(<<"app", "Policies">>, "Writes", "")
          [] f = provider   -> At(<<"app", "Providers">>, "App", "ServiceProvider")
          [] f = repository -> At(Repositories, "Invoice", "Repository")
          [] f = service    -> At(Services, "Invoice", "Service")
          [] f = app        -> At(<<"bootstrap">>, "app", "")
          [] f = up         -> At(Migrated, "M1", "")
          [] f = down       -> At(Migrated, "M1Down", "")
          [] f = console    -> At(<<"routes">>, "console", "")
          [] f = web        -> At(<<"routes">>, "web", "")
          [] f = journey    -> TestAt(<<"tests", "E2E">>, "invoice")
          [] f = second     -> TestAt(<<"tests", "E2E">>, "login")
          [] f = feature    -> TestAt(<<"tests", "Feature">>, "invoice")
          [] f = testcase   -> At(<<"tests">>, "TestCase", "")
          [] f = spare      -> At(Services, "Spare", "")
          [] f = spareTest  -> TestAt(<<"tests", "Unit">>, "spare")]

Receive == Met("Invoice", "Controller", "Receive", {"exported", "action"}, <<"webhook.Verify">>)
Writes  == Met("Invoice", "Policy", "Writes", {}, <<>>)
NewModule == Fun("Modules", <<"events.NewModule">>)

MCText ==
    [f \in 1..24 |->
        CASE f = backfill   -> {Imp("hesape/auth"), Fun("Backfill", <<"grant_of_session_with_a_reason">>)}
          [] f = client     -> {Imp("net/http"), Met("Bank", "Client", "Pay", {"exported"}, <<"http.Client", "http.Get">>)}
          [] f = status     -> {Typ("Status", "", {"string", "case_sent"})}
          [] f = controller -> {Imp("app/models"), Imp("hesape/webhook"), Imp("encoding/json"), Imp("net/http"),
                                Typ("Invoice", "Controller", {}), Receive,
                                Met("Invoice", "Controller", "Store", {"exported", "action"},
                                    <<"model_conversion", "View_invoice.show", "Fragment_partials.row">>),
                                Met("", "", "NewInvoiceController", {"constructor"}, <<>>)}
          [] f = request    -> {Typ("Invoice", "Request", {"field_status_Status"}),
                                Met("Invoice", "Request", "Validate", {}, <<"Add_under_an_if">>)}
          [] f = rules      -> {Met("Invoice", "Request", "Rules", {}, <<>>)}
          [] f = invoice    -> {Imp("hesape/database/model"), Typ("Invoice", "", {"TenantID", "secret", "entity"}),
                                Met("Invoice", "", "Total", {"custom_block"}, <<>>)}
          [] f = redaction  -> {Imp("hesape/database/model"), Typ("Status", "", {}),
                                Met("Invoice", "", "LogValue", {}, <<>>),
                                Met("Invoice", "Query", "Paid", {"custom_block"}, <<"model_core">>)}
          [] f = policy     -> {Typ("Invoice", "Policy", {}), Met("Invoice", "Policy", "Can", {}, <<"return_nil">>)}
          [] f = writes     -> {Writes, Typ("Customer", "Policy", {})}
          [] f = provider   -> {Imp("hesape/events"), Imp("pgx"), Pkg(Migrated), NewModule,
                                Fun("NewAppServiceProvider", <<"names_NewInvoiceController", "names_NewInvoiceService">>)}
          [] f = repository -> {Typ("Invoice", "Repository", {}), Typ("Customer", "Repository", {}),
                                SQL(Met("Invoice", "Repository", "List", {"exported", "Grant"}, <<"Check", "db.Query">>),
                                    {Stmt("SELECT", {"invoices"}, "in_the_predicate", {})})}
          [] f = service    -> {Imp("hesape/events"),
                                Typ("Invoice", "Service", {"field_of_a_cache", "holds_Invoice", "holds_Customer"}),
                                Met("", "", "NewInvoiceService", {"constructor"}, <<>>),
                                Met("Invoice", "Service", "Pay", {"exported"},
                                    <<"Authorize", "Find", "Authorize", "field.Find", "events.NewOutbox", "log_Invoice">>)}
          [] f = app        -> {Fun("New", <<"CSRFExcept_/hooks/">>)}
          [] f = up         -> {Imp("hesape/database/migrations"), Typ("M1", "", {"BaseMigration"}),
                                Met("M1", "", "Up", {}, <<"creates_a_table">>)}
          [] f = down       -> {Met("M1", "", "Down", {}, <<"drops_a_table">>)}
          [] f = console    -> {Pkg(Commands), Cmd(Commands, "Backfill")}
          [] f = web        -> {Fun("Register", <<"POST_/hooks/_to_Receive">>)}
          [] f = journey    -> {Imp("test/browser"), Met("", "", "TestInvoice", {"runnable_test"}, <<"Fill_.button">>)}
          [] f = second     -> {Met("", "", "TestLogin", {"runnable_test"}, <<>>)}
          [] f = feature    -> {Imp("hesape/auth"), Met("", "", "TestCan", {"runnable_test"}, <<"Subject_literal", "subject.Can">>)}
          [] f = testcase   -> {Imp("test/browser/cdp"), Fun("Drivers", <<>>)}
          [] OTHER          -> {}]

Skill(name, origin, source, same) == [name |-> name, origin |-> origin, source |-> source, same |-> same]

MCProject ==
    [files |-> Skeleton, bad |-> {}, path |-> MCPath, text |-> MCText,
     profile |-> "conventional", module |-> TRUE,
     manifest |-> [name |-> "shop", declares |-> {"network", "migrations"}, profiles |-> {"conventional", "performance"}],
     env |-> {"pgx"}, ci |-> TRUE, stale |-> {}, catalog |-> {"framework/http"},
     views |-> [v \in ViewNames |-> {}],
     skills |-> {Skill("model", "skeleton", "skeleton", TRUE), Skill("pay", "module", "module", TRUE),
                 Skill("own", "none", "", FALSE)}]

----------------------------------------------------------------------------
Rewrite(f, decls) == [path |-> <<>>, text |-> (f :> decls), field |-> <<>>]
Add(f, decls)     == Rewrite(f, MCText[f] \cup decls)
Put(f, path, decls) == [path |-> (f :> path), text |-> (f :> decls), field |-> <<>>]
Set(field)        == [path |-> <<>>, text |-> <<>>, field |-> field]

In(stem, suffix, name, body) == Met(stem, suffix, name, {"exported"}, body)

AccessEdits ==
    {Add(repository, {SQL(In("Invoice", "Repository", "All", <<"db.Query">>), {Stmt("SELECT", {"invoices"}, "no", {})}),
                      Met("Invoice", "Repository", "One", {"exported", "Grant"}, <<"db.Begin">>),
                      Met("Invoice", "Repository", "Two", {"exported", "Grant"}, <<"__=_Check", "db.Query">>)}),
     Add(repository, {SQL(Met("Invoice", "Repository", "Both", {"exported", "Grant"}, <<"Check", "db.Query">>),
                          {Stmt("SELECT", {"invoices", "customers"}, "in_the_predicate", {})}),
                      SQL(Met("Invoice", "Repository", "Report", {"exported", "Grant"}, <<"Check", "db.Query">>),
                          {Stmt("SELECT", {"invoices"}, "no", {"reason"})})}),
     Add(service, {Imp("hesape/auth"), Imp("app/models"),
                   Met("Invoice", "Service", "Sum", {"exported", "Grant"}, <<"model_query", "passes_the_Grant">>),
                   In("Invoice", "Service", "Act", <<"assembled_action">>),
                   In("Invoice", "Service", "Org", <<"org_:=_request", "grant_of_org">>),
                   In("Invoice", "Service", "None", <<"grant_of_nothing", "header_tenant">>),
                   In("Invoice", "Service", "Login", <<"Authenticate">>),
                   In("Invoice", "Service", "Late", <<"Authorize", "Find">>),
                   In("Invoice", "Service", "Old", <<"grant_of_session", "request_tenant">>)}),
     Rewrite(policy, {Typ("Invoice", "Policy", {}), Met("Invoice", "Policy", "Can", {}, <<>>)}),
     Rewrite(writes, {}), Rewrite(redaction, {Typ("Status", "", {})}),
     Set([files |-> Skeleton \ {policy}]), Rewrite(rules, {}),
     Rewrite(controller, (MCText[controller] \ {Receive})
                         \cup {Met("Invoice", "Controller", "Receive", {"exported", "action"}, <<>>)}),
     Add(controller, {Imp("framework/data"), Imp("app/repositories"),
                      Met("Invoice", "Controller", "Raw", {}, <<"data_package", "model_query">>)})}

DataEdits ==
    {Add(service, {In("Invoice", "Service", "Built", <<"Sprintf_of_SQL">>),
                   Met("Invoice", "Service", "Joined", {"named_parameters"}, <<"SQL_+_parameter">>),
                   Met("Invoice", "Service", "Tx", {}, <<"tx_calls_Invoice", "tx_calls_Customer">>)}),
     Add(service, {SQL(Met("Invoice", "Service", "Two", {}, <<>>),
                       {Stmt("UPDATE", {"invoices"}, "in_the_predicate", {"in_a_transaction"}),
                        Stmt("INSERT", {"customers"}, "named", {"in_a_transaction"})})}),
     Rewrite(provider, MCText[provider] \ {NewModule}), Rewrite(provider, MCText[provider] \ {Pkg(Migrated)}),
     Add(up, {Met("M1", "", "Up", {}, <<"adds_a_column_not_null">>)}), Rewrite(down, {}),
     Set([env |-> {"pgx", "redis"}, stale |-> {invoice}]),
     Add(service, {Imp("hesape/database/model"), Imp("framework/http"), Imp("arandu-io/kv"),
                   In("Invoice", "Service", "Core", <<"model_core", "moved_name">>)}),
     Set([views |-> [v \in ViewNames |-> IF v = "partials.row" THEN {"x-data", "raw_value", "moved_name"}
                                         ELSE {"raw_value", "does_not_parse"}]]),
     Set([views |-> [v \in {"invoice.show"} |-> {}]]),
     Add(controller, {Met("Invoice", "Controller", "Map", {}, <<"View_of_a_map">>)}),
     Add(service, {Imp("os/exec"), In("Invoice", "Service", "Run", <<"os.WriteFile">>)}),
     Set([manifest |-> [name |-> "shop", declares |-> {"network", "migrations", "exec"}, profiles |-> {"conventional"}]]),
     Set([skills |-> {Skill("model", "skeleton", "skeleton", FALSE), Skill("view", "skeleton", "absent", FALSE),
                      Skill("pay", "module", "", FALSE), Skill("invoices", "none", "aru", FALSE)}]),
     Add(request, {Imp("hesape/validation"), Met("Invoice", "Request", "Enum", {}, <<"enum:sent", "enum:lost">>)}),
     Put(spare, At(<<"app", "Enums">>, "Paid", ""), {Typ("Paid", "", {"int"}), Typ("Row", "", {"field_status_Paid"})})}

PlaceEdits ==
    {Add(controller,
         {Imp("hesape/validation"), Imp("hesape/session"),
          Met("Invoice", "Controller", "Read", {}, <<"ParseForm", "json.NewDecoder", "in.Validate", "session.Load">>),
          Met("Invoice", "Controller", "Say", {}, <<"application/json", "WriteHeader", "422", "Redirect_/invoices">>),
          Met("Invoice", "Controller", "Pick", {}, <<"op_:=_ctx.Input", "switch_op", "case_1_Store", "case_2_Destroy">>),
          Met("Invoice", "Controller", "More", {"exported", "action"}, <<"OrderBy_request">>)}),
     Add(invoice, {Imp("time"), Met("Invoice", "", "Overdue", {"custom_block"}, <<"time.Now">>), Fun("Slugify", <<>>)}),
     Add(web, {Imp("hesape/auth"), Fun("Who", <<"Subject_literal_of_an_admin", "sort_:=_request", "OrderBy_sort", "Fragment_invoice.show">>)}),
     Add(service, {Imp("net/http"), Imp("html/template"), Note("more_than_600_lines"),
                   In("Invoice", "Service", "Serve", <<"http.ResponseWriter">>)}),
     Put(spare, At(Services, "Spare", "Service"), {Met("", "", "NewSpare", {"constructor"}, <<>>)}),
     Put(spare, At(<<"app", "Services", "Bank">>, "Spare", ""), {Imp("hesape/http/client"), Fun("Call", <<>>)}),
     Put(spare, At(<<"app", "Services", "Billing">>, "Spare", ""), {Fun("Bill", <<>>)}),
     Put(spare, At(<<"app", "Support">>, "Spare", ""), {Imp("net/http"), Fun("Call", <<"http.NewRequest">>)}),
     Put(spare, At(<<"app", "Support">>, "Spare", ""),
         {SQL(Fun("Totals", <<"db.Query">>), {Stmt("SELECT", {"invoices"}, "in_the_predicate", {})})}),
     Put(spare, At(<<"bootstrap">>, "backfill", ""), {Imp("hesape/auth"), Fun("Fill", <<"grant_of_session_with_a_reason">>)}),
     Put(spare, At(<<"bootstrap">>, "events", ""), {Fun("Wire", <<>>)}),
     Put(spare, At(<<"bootstrap">>, "console", ""), {Fun("Wire", <<>>)}),
     Put(spare, At(<<"cmd", "import">>, "main", ""), {Pkg(Services), Imp("hesape/auth"), Fun("main", <<"grant_of_session_with_a_reason">>)}),
     Put(spare, At(<<"cmd", "openapi">>, "main", ""), {Imp("openapi"), Fun("main", <<>>)}),
     Put(spare, At(<<"scripts", "smoke">>, "main", ""), {Imp("chromedp"), Fun("main", <<"Click_.button">>)}),
     Put(spare, At(<<"scripts", "load">>, "main", ""), {Pkg(Services), Fun("main", <<>>)}),
     Put(spare, At(<<"scripts", "tool">>, "main", ""), {Fun("main", <<>>)}),
     Rewrite(console, {Fun("Sync", <<>>), Cmd(<<"routes">>, "Sync"), Cmd(Commands, "Backfill")})}

SuiteEdits ==
    {Add(feature, {Imp("time"), Met("", "", "TestWait", {"runnable_test"}, <<"time.Sleep", "ActingAs", "t.SkipNow">>)}),
     Add(feature, {Met("", "", "TestForge", {"runnable_test"}, <<"Subject_literal", "subject.Can", "handler(subject)">>)}),
     Add(journey, {Imp("chromedp"), Met("", "", "TestCSS", {}, <<"browser.CSS_no_reason", "page.Driver().(T)">>)}),
     Rewrite(journey, {Met("", "", "TestInvoice", {"runnable_test"}, <<"Fill_.button">>)}),
     Set([ci |-> FALSE]),
     Put(spareTest, TestAt(<<"tests", "AuthSchema">>, "schema"), {}),
     Put(spareTest, TestAt(Services, "spare"), {Met("", "", "TestSpare", {"runnable_test"}, <<>>)}),
     Put(spareTest, At(<<"tests", "Unit">>, "Spare", "Test"), {}),
     Add(service, {Pkg(<<"tests", "Factories">>), Note("capitalised_package"), Met("", "", "TestIt", {"runnable_test"}, <<>>)})}

\* Files whose declarations another file's rule looks for, and a journey.
MCBreakable == {status, redaction, policy, writes, provider, down, journey}

MCEdits == AccessEdits \cup DataEdits \cup PlaceEdits \cup SuiteEdits

-----------------------------------------------------------------------------
(* The tree of the map: an application with invoices, and two models of one *)
(* table, two events of one name and tests beside the code and under tests/ *)
(* that may come to it.                                                    *)

W(w) == [w |-> w, s |-> FALSE]
Invoice == <<W("Invoice")>>
Payment == <<W("Payment")>>
InvoiceLine == <<W("Invoice"), W("Line")>>

MCLabels == <<InvoiceLine, <<W("Invoice"), W("Paid")>>, <<W("Send"), W("Invoice")>>, Invoice, Payment>>

Decl(name, line, uses) ==
    [name |-> name, recv |-> "", action |-> FALSE, line |-> line, field |-> <<"", "">>, draws |-> FALSE, uses |-> uses]
Method(type, name, line, uses) == [Decl(name, line, uses) EXCEPT !.recv = type, !.action = TRUE]

Ref(dir, name, use, line) ==
    [op |-> "ref", dir |-> dir, name |-> name, use |-> use, line |-> line, dispatches |-> FALSE, named |-> FALSE]
Bare(name, line) == [Ref("", name, "call", line) EXCEPT !.op = "bare"]
Names(op, name, line) == [op |-> op, name |-> name, line |-> line]
Typed(type, dir) == [form |-> "type", type |-> type, dir |-> dir, of |-> "", field |-> ""]
Field(of, field, dir) == [form |-> "field", type |-> "", dir |-> dir, of |-> of, field |-> field]
Route(method, http, prefix, name, to, handler, line) ==
    [op |-> "route", method |-> method, http |-> http, prefix |-> prefix, name |-> name,
     controller |-> to, handler |-> handler, line |-> line]

File(rank, rel, dir, place, category, entity, decls) ==
    [rel |-> rel, rank |-> rank, dir |-> dir, place |-> place, category |-> category, entity |-> entity,
     test |-> FALSE, generated |-> FALSE, source |-> "", owner |-> <<>>, asserts |-> <<>>, shapes |-> {},
     decls |-> decls, capabilities |-> {}, imports |-> <<>>, built |-> <<>>]

Http == "app/Http/Controllers"
Models == "app/Models"

Controller(rank, rel, dir, uses) ==
    [File(rank, rel, dir, "app", "Controllers", Invoice,
          <<Decl("InvoiceController", 3, <<>>), Method("InvoiceController", "Index", 5, uses),
            Method("InvoiceController", "Update", 9, <<Ref("app/Http/Requests", "InvoiceRequest", "reference", 10)>>)>>)
        EXCEPT !.asserts = <<"Indexer", "Updater">>]

invoiceController == Controller(6, "app/Http/Controllers/InvoiceController.go", Http,
    <<Names("view", "invoices.index", 6), Ref("app/Policies", "InvoicePolicy", "reference", 7),
      Ref("app/Services", "NewInvoiceService", "call", 7)>>)
invokable == File(5, "app/Http/Controllers/HealthController.go", Http, "app", "Controllers", <<W("Health")>>,
    <<Decl("HealthController", 3, <<>>), Method("HealthController", "Invoke", 4, <<>>)>>)
controllerTest == [File(7, "app/Http/Controllers/InvoiceController_test.go", Http, "app", "Controllers",
    <<W("Invoice"), W("Controller")>>,
    <<Decl("TestIndex", 3, <<Bare("InvoiceController", 4), Ref(Models, "Invoices", "call", 5)>>),
      Decl("HealthController", 8, <<>>)>>) EXCEPT !.test = TRUE]
invoiceRequest == [File(8, "app/Http/Requests/InvoiceRequest.go", "app/Http/Requests", "app", "Requests", Invoice,
    <<Decl("InvoiceRequest", 3, <<>>)>>) EXCEPT !.asserts = <<"Validatable">>]
job == [File(10, "app/Jobs/SendInvoice.go", "app/Jobs", "app", "Jobs", <<W("Send"), W("Invoice")>>,
    <<Decl("SendInvoice", 3, <<>>), Decl("SendInvoiceName", 4, <<>>)>>) EXCEPT !.asserts = <<"Unknown", "Handler">>]
event == [File(2, "app/Events/InvoicePaid.go", "app/Events", "app", "Events", <<W("Invoice"), W("Paid")>>,
    <<Decl("InvoicePaidName", 3, <<Names("event-name", "paid", 3)>>), Decl("InvoicePaid", 5, <<>>)>>)
    EXCEPT !.shapes = {"event"}]
otherEvent == [File(3, "app/Events/PaymentReceived.go", "app/Events", "app", "Events", <<W("Payment"), W("Received")>>,
    <<Decl("PaymentReceivedName", 3, <<Names("event-name", "paid", 3)>>)>>) EXCEPT !.shapes = {"event"}]
listener == [File(11, "app/Listeners/MarkPaid.go", "app/Listeners", "app", "Listeners", <<W("Mark"), W("Paid")>>,
    <<Decl("MarkPaid", 3, <<Names("string", "paid", 4)>>)>>) EXCEPT !.asserts = <<"Publisher">>]
model == [File(12, "app/Models/Invoice.go", Models, "app", "Models", Invoice,
    <<Decl("Invoice", 3, <<Names("table-spec", "invoices", 4)>>)>>) EXCEPT !.shapes = {"model"}]
query == [File(13, "app/Models/InvoiceQuery.go", Models, "app", "Models", <<W("Invoice"), W("Query")>>,
    <<Decl("Invoices", 3, <<>>)>>) EXCEPT !.generated = TRUE, !.source = "app/Models/Invoice.go", !.owner = Invoice]
payment == [File(14, "app/Models/Payment.go", Models, "app", "Models", Payment,
    <<Decl("Payment", 3, <<Names("table-spec", "payments", 4)>>)>>) EXCEPT !.shapes = {"model"}]
archive == [File(15, "app/Models/PaymentArchive.go", Models, "app", "Models", <<W("Payment"), W("Archive")>>,
    <<Decl("PaymentArchive", 3, <<Names("table-spec", "invoices", 4)>>)>>) EXCEPT !.shapes = {"model"}]
invoicePolicy == [File(16, "app/Policies/InvoicePolicy.go", "app/Policies", "app", "Policies", Invoice,
    <<Decl("InvoicePolicy", 3, <<>>)>>) EXCEPT !.asserts = <<"Policy">>]
invoiceService == File(17, "app/Services/InvoiceService.go", "app/Services", "app", "Services", Invoice,
    <<Decl("InvoiceService", 3, <<>>),
      Decl("NewInvoiceService", 4,
        <<Ref(Models, "Invoices", "call", 5), Ref("app/Jobs", "SendInvoice", "composite", 6),
          Ref("app/Events", "InvoicePaid", "composite", 7)>>)>>)
jobTest == [File(9, "app/Jobs/Fakes_test.go", "app/Jobs", "app", "Jobs",
    <<W("Invoice"), W("Line")>>, <<Decl("TestQueue", 3, <<Bare("SendInvoiceName", 4)>>),
     Decl("SendInvoice", 6, <<>>)>>) EXCEPT !.test = TRUE]
bankClient == [File(1, "app/Clients/Bank.go", "app/Clients", "app", "Clients", <<W("Bank")>>,
    <<Decl("Bank", 3, <<>>)>>) EXCEPT !.shapes = {"client"}, !.imports = [bank |-> [path |-> "x.dev/bank/v2", module |-> "x.dev/bank"]], !.capabilities = {"http"}]
bootstrap == [File(18, "bootstrap/app.go", "bootstrap", "bootstrap", "", <<>>,
    <<Decl("Boot", 3, <<Ref("app/Jobs", "SendInvoice", "composite", 4),
      [op |-> "register", on |-> <<"kernel", "Use">>, line |-> 6,
       args |-> <<[form |-> "variable", name |-> "trail"], [form |-> "built here", alias |-> "sql"]>>]>>)>>)
    EXCEPT !.imports = [audit |-> [path |-> "x.dev/audit", module |-> "x.dev/audit"],
                        sql |-> [path |-> "app/sql", module |-> "app"]], !.built = [trail |-> "audit"]]
screen == File(19, "cmd/native/main.go", "cmd/native", "native", "", <<>>,
    <<Decl("main", 3, <<>>), [Decl("layoutHome", 5, <<>>) EXCEPT !.draws = TRUE]>>)
migration == [File(20, "database/migrations/0001_create_invoices.go", "database/migrations", "migrations", "", <<>>,
    <<Decl("init", 3, <<Names("table", "payments", 5), Names("table", "invoices", 4)>>)>>) EXCEPT !.shapes = {"migration"}]
seeder == [File(21, "database/seeders/InvoiceSeeder.go", "database/seeders", "seeders", "", Invoice,
    <<Decl("InvoiceSeeder", 3, <<>>)>>) EXCEPT !.asserts = <<"Seeder">>]
webRoutes == File(22, "routes/web.go", "routes", "routes", "", <<>>,
    <<[Decl("Handlers", 2, <<>>) EXCEPT !.field = <<"Invoices", "InvoiceController">>],
      Decl("Web", 3,
        <<Route("Resource", "", <<>>, <<"invoices">>, Typed("InvoiceController", Http), "", 4),
          Route("Get", "GET", <<>>, <<"invoices">>, Field("Handlers", "Invoices", Http), "Index", 5),
          Route("Invokable", "GET", <<"up">>, <<>>, Typed("HealthController", Http), "", 6),
          Route("Resource", "", <<"admin">>, <<"invoices">>, Typed("InvoiceController", Http), "", 7),
          Route("ResourceAction", "POST", <<>>, <<"teams", "invoices">>, Typed("InvoiceController", Http), "Update", 8)>>)>>)
singleton == File(23, "routes/zero.go", "routes", "routes", "", <<>>,
    <<Decl("Zero", 3, <<Route("Singleton", "", <<>>, <<"invoices">>, Typed("InvoiceController", Http), "", 4)>>)>>)
featureTest == [File(24, "tests/Feature/InvoiceTest_test.go", "tests/Feature", "other", "", <<W("Invoice"), W("Test")>>,
    <<Decl("TestPays", 3, <<Ref("app/Services", "InvoiceService", "composite", 4)>>)>>) EXCEPT !.test = TRUE]

index == [rel |-> "invoices/index", name |-> "invoices.index", segment |-> [w |-> "Invoice", s |-> TRUE], uses |-> {"layouts.app"}]
layout == [rel |-> "layouts/app", name |-> "layouts.app", segment |-> [w |-> "Layout", s |-> TRUE], uses |-> {"layouts.app"}]

Whole ==
    {invoiceController, invokable, invoiceRequest, job, event, listener, model, query, payment, invoicePolicy, invoiceService, bankClient,
     bootstrap, screen, migration, seeder, webRoutes}

MCBase == [files |-> Whole, views |-> {index, layout}, findings |-> <<"a", "b", "a">>, own |-> {"app/sql"}, manifests |-> {"x.dev/bank"}]
MCLibrary == {controllerTest, jobTest, featureTest, otherEvent, archive, singleton, invokable, payment}

Rels == {f.rel : f \in Whole \cup MCLibrary}
Forward == [rel \in Rels |-> (CHOOSE f \in Whole \cup MCLibrary : f.rel = rel).rank]
MCOrders == {Forward, [rel \in Rels |-> 100 - Forward[rel]]}
=============================================================================
