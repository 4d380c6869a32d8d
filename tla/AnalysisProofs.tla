--------------------------- MODULE AnalysisProofs ---------------------------
(***************************************************************************)
(* Doctor's rule about absence, for every project, every set of edits and   *)
(* every file: a file that stops parsing adds nothing to the report but its *)
(* own finding and those of the rules that do not ask.  And the project     *)
(* map, for every application whose files come and go: how it is walked     *)
(* decides between two events of one name and two models of one table, and  *)
(* nothing else, and tests change nothing of the code on it.                *)
(***************************************************************************)
EXTENDS MCAnalysis, WellFoundedInduction, FiniteSetTheorems, TLAPS

----------------------------------------------------------------------------
(* The rules, one at a time.                                                *)

\* A project with a file that does not parse gets no answer from the rules that
\* look at all of it.
LEMMA NothingFromTheWhole ==
    ASSUME NEW q, q.bad # {}
    PROVE  /\ TheOutboxTableTravels(q) = {}
           /\ MigrationsMustReachTheBinary(q) = {}
           /\ ConfiguredEnginesAreLinked(q) = {}
           /\ PermissionsNotUsed(q) = {}
<1>1. TheOutboxTableTravels(q) = {}  BY DEF TheOutboxTableTravels
<1>2. MigrationsMustReachTheBinary(q) = {}  BY DEF MigrationsMustReachTheBinary
<1>3. ConfiguredEnginesAreLinked(q) = {}  BY DEF ConfiguredEnginesAreLinked
<1>4. PermissionsNotUsed(q) = {}  BY DEF PermissionsNotUsed
<1> QED  BY <1>1, <1>2, <1>3, <1>4

\* Nor from the one about constructors, which asks at each of them.
LEMMA NoConstructor ==
    ASSUME NEW q, q.bad # {}
    PROVE  ConstructorsAreWired(q) = {}
  BY DEF ConstructorsAreWired, PerFunc

----------------------------------------------------------------------------
(* One more file that does not parse.                                       *)

LEMMA BrokenFields ==
    ASSUME NEW q, NEW f, IsProject(q)
    PROVE  /\ Broken(q, f).files = q.files \ {f}
           /\ Broken(q, f).bad = q.bad \cup {f}
           /\ Broken(q, f).path = q.path
           /\ Broken(q, f).text = q.text
  BY DEF Broken, IsProject

\* Whether a file is a request is in its path, so the requests of the project
\* are the same ones unless the file is one of them, and then the rule asks.
LEMMA RequestsAsk ==
    ASSUME NEW q, NEW f, IsProject(q), f \in q.files
    PROVE  RequestValidatesByHand(Broken(q, f)) \subseteq RequestValidatesByHand(q)
<1> DEFINE b == Broken(q, f)
           dir == <<"app", "Http", "Requests">>
           Blinded(r) == \E u \in r.bad : Under(r, u, dir)
           requests(r) == {g \in r.files : RequestFile(r, g)}
           Reported(r, g, fn, x) ==
               /\ IsMethod(fn) /\ fn.name = "Validate" /\ HandWrittenRules(fn) # {}
               /\ ~\E h \in requests(r) : \E m \in Funcs(r, h) :
                      NameOf(m) = NameOf(fn) /\ m.name = "Rules"
               /\ x = Finding("request-validates-by-hand", "warning", g, NameOf(fn) \o fn.name)
<1>1. /\ b.files = q.files \ {f} /\ b.bad = q.bad \cup {f} /\ b.path = q.path /\ b.text = q.text
  BY BrokenFields
<1>2. \A g : Under(b, g, dir) <=> Under(q, g, dir)
  BY <1>1 DEF Under
<1>3. \A g : RequestFile(b, g) <=> RequestFile(q, g)
  BY <1>1, <1>2 DEF RequestFile, IsTest
<1>4. CASE Under(q, f, dir)
  <2>1. Blinded(b)  BY <1>1, <1>2, <1>4
  <2> QED  BY <2>1 DEF RequestValidatesByHand
<1>5. CASE ~Under(q, f, dir)
  <2>1. Blinded(q) <=> Blinded(b)  BY <1>1, <1>2, <1>5
  <2>2. ~RequestFile(q, f)  BY <1>5 DEF RequestFile
  <2>3. requests(b) = requests(q)  BY <1>1, <1>3, <2>2
  <2>4. \A g : Funcs(b, g) = Funcs(q, g)  BY <1>1 DEF Funcs, Decls
  <2>5. SUFFICES ASSUME NEW x \in RequestValidatesByHand(b)
                 PROVE  x \in RequestValidatesByHand(q)
    OBVIOUS
  <2>6. /\ ~Blinded(b)
        /\ \E g \in requests(b) : \E fn \in Funcs(b, g) : Reported(b, g, fn, x)
    BY <2>5 DEF RequestValidatesByHand, PerFunc
  <2>7. \E g \in requests(q) : \E fn \in Funcs(q, g) : Reported(q, g, fn, x)
    BY <2>3, <2>4, <2>6
  <2> HIDE DEF b
  <2> QED  BY <2>1, <2>6, <2>7 DEF RequestValidatesByHand, PerFunc
<1> QED  BY <1>4, <1>5

\* Every rule that asks finds what it found before, or less.
LEMMA AskingFindsNothingNew ==
    ASSUME NEW q, NEW f, IsProject(q), f \in q.files
    PROVE  AskingFindings(Broken(q, f)) \subseteq AskingFindings(q)
<1> DEFINE b == Broken(q, f)
<1>1. b.bad # {}  BY BrokenFields
<1>2. TheOutboxTableTravels(b) = {} /\ MigrationsMustReachTheBinary(b) = {}
      /\ ConfiguredEnginesAreLinked(b) = {} /\ PermissionsNotUsed(b) = {}
  BY <1>1, NothingFromTheWhole
<1>3. ConstructorsAreWired(b) = {}  BY <1>1, NoConstructor
<1>4. RequestValidatesByHand(b) \subseteq RequestValidatesByHand(q)  BY RequestsAsk
<1> HIDE DEF b
<1> QED  BY <1>2, <1>3, <1>4 DEF AskingFindings, b

----------------------------------------------------------------------------
(* The profile.  A rule that reads everything of a project but its profile  *)
(* answers the same for two projects that differ in it alone.  Plain is a   *)
(* project with the profile taken out, and each rule is seen to answer for  *)
(* it what it answers for the project; the three that read the profile are  *)
(* not among them.                                                          *)

Plain(q) ==
    [files |-> q.files, bad |-> q.bad, path |-> q.path, text |-> q.text, profile |-> "conventional",
     module |-> q.module, manifest |-> q.manifest, env |-> q.env, views |-> q.views, ci |-> q.ci,
     stale |-> q.stale, catalog |-> q.catalog, skills |-> q.skills]

LEMMA AccessOfAnyProfile ==
    ASSUME NEW q
    PROVE  AccessFindings(Plain(q)) = AccessFindings(q)
<1> USE DEF Plain, Under, Category, IsTest, Code, Decls, Types, Funcs, Imports, PerFunc
<1>1. RepositoryNeedsPolicy(Plain(q)) = RepositoryNeedsPolicy(q)
  BY DEF Entity, Blind, DeclaresType, RepositoryOf, HasPolicy, Entities, RepositoryNeedsPolicy
<1>2. RepositoryMethodNeedsGrant(Plain(q)) = RepositoryMethodNeedsGrant(q)
  BY DEF OnRequestPath, ModelTypes, CallsTheModelPackage, ReachesApplicationData, AuditedMethod,
         RepositoryMethodNeedsGrant
<1>3. ActionsAreConstants(Plain(q)) = ActionsAreConstants(q)
  BY DEF ActionsAreConstants
<1>4. EnumRulesAreDerived(Plain(q)) = EnumRulesAreDerived(q)
  BY DEF EnumTypes, EnumOfStatus, EnumRulesAreDerived
<1>5. PolicyMustBeOpened(Plain(q)) = PolicyMustBeOpened(q)
  BY DEF PolicyFile, PolicyMustBeOpened
<1>6. PoliciesDeclareTheirWrites(Plain(q)) = PoliciesDeclareTheirWrites(q)
  BY DEF SameDir, PolicyFile, PoliciesDeclareTheirWrites
<1>7. ControllerMustNotReachData(Plain(q)) = ControllerMustNotReachData(q)
  BY DEF OnRequestPath, ModelTypes, CallsTheModelPackage, Requests, ControllerMustNotReachData
<1>8. ControllerMustNotReachTheRepository(Plain(q)) = ControllerMustNotReachTheRepository(q)
  BY DEF OnRequestPath, Requests, ControllerMustNotReachTheRepository
<1>9. TenantMustComeFromTheGrant(Plain(q)) = TenantMustComeFromTheGrant(q)
  BY DEF GrantsIn, TenantMustComeFromTheGrant
<1>10. SystemGrantIsAudited(Plain(q)) = SystemGrantIsAudited(q)
  BY DEF Segments, InASystemScope, GrantsIn, SystemGrantIsAudited
<1>11. NoBuiltSQL(Plain(q)) = NoBuiltSQL(q)
  BY DEF NoBuiltSQL
<1>12. SensitiveFieldNeedsRedaction(Plain(q)) = SensitiveFieldNeedsRedaction(q)
  BY DEF HasRedaction, SinkReaches, SensitiveFieldNeedsRedaction
<1>13. SessionMustRotateOnLogin(Plain(q)) = SessionMustRotateOnLogin(q)
  BY DEF SessionMustRotateOnLogin
<1>14. CsrfExemptionsVerifyASignature(Plain(q)) = CsrfExemptionsVerifyASignature(q)
  BY DEF ControllerFile, CsrfExemptionsVerifyASignature
<1>15. TenantMustScopeTheSQL(Plain(q)) = TenantMustScopeTheSQL(q)
  BY DEF Segments, InAMigration, MultiTenantTables, TenantMustScopeTheSQL
<1>16. ResourceNotReauthorized(Plain(q)) = ResourceNotReauthorized(q)
  BY DEF SameDir, FieldHoldsNoRows, ResourceNotReauthorized
<1> QED  BY <1>1, <1>2, <1>3, <1>4, <1>5, <1>6, <1>7, <1>8, <1>9, <1>10, <1>11, <1>12, <1>13,
    <1>14, <1>15, <1>16 DEF AccessFindings

LEMMA ShapeOfAnyProfile ==
    ASSUME NEW q
    PROVE  ShapeFindings(Plain(q)) = ShapeFindings(q)
<1> USE DEF Plain, Under, Category, IsTest, Code, Decls, Types, Funcs, Imports, PerFunc
<1>1. ViewDataMustBeAStruct(Plain(q)) = ViewDataMustBeAStruct(q)
  BY DEF ViewDataMustBeAStruct
<1>2. ViewMustExist(Plain(q)) = ViewMustExist(q)
  BY DEF ViewMustExist
<1>3. DeclaredPermissionsMatchTheCode(Plain(q)) = DeclaredPermissionsMatchTheCode(q)
  BY DEF UsedPermissions, PermissionsNotUsed, DeclaredPermissionsMatchTheCode
<1>4. ViewsKeepNoStateInTheBrowser(Plain(q)) = ViewsKeepNoStateInTheBrowser(q)
  BY DEF ViewFindings, ViewsKeepNoStateInTheBrowser
<1>5. RawOutputIsAComponent(Plain(q)) = RawOutputIsAComponent(q)
  BY DEF ViewFindings, RawOutputIsAComponent
<1>6. NoRetiredModuleIsImported(Plain(q)) = NoRetiredModuleIsImported(q)
  BY DEF NoRetiredModuleIsImported
<1>7. ImportsAreCanonical(Plain(q)) = ImportsAreCanonical(q)
  BY DEF ViewFindings, ImportsAreCanonical
<1>8. AddedColumnsMustBeNullable(Plain(q)) = AddedColumnsMustBeNullable(q)
  BY DEF SameDir, Migrations, MethodOf, AddedColumnsMustBeNullable
<1>9. MigrationsMustBeReversible(Plain(q)) = MigrationsMustBeReversible(q)
  BY DEF SameDir, Migrations, MethodOf, MigrationsMustBeReversible
<1>10. ModelQueryIsCurrent(Plain(q)) = ModelQueryIsCurrent(q)
  BY DEF ModelQueryIsCurrent
<1>11. ModelCoreStaysInTheModels(Plain(q)) = ModelCoreStaysInTheModels(q)
  BY DEF ImportsDir, ModelCoreStaysInTheModels
<1>12. SkillsFollowTheirOrigin(Plain(q)) = SkillsFollowTheirOrigin(q)
  BY DEF HandedOut, SkillsFollowTheirOrigin
<1>13. DistributedSkillsArePresent(Plain(q)) = DistributedSkillsArePresent(q)
  BY DEF HandedOut, DistributedSkillsArePresent
<1>14. GeneratedSkillsAreRetired(Plain(q)) = GeneratedSkillsAreRetired(q)
  BY DEF GeneratedSkillsAreRetired
<1> QED  BY <1>1, <1>2, <1>3, <1>4, <1>5, <1>6, <1>7, <1>8, <1>9, <1>10, <1>11, <1>12, <1>13,
    <1>14 DEF ShapeFindings

LEMMA PlaceOfAnyProfile ==
    ASSUME NEW q
    PROVE  PlaceFindings(Plain(q)) = PlaceFindings(q)
<1> USE DEF Plain, Under, Category, IsTest, Code, Decls, Types, Funcs, Imports, PerFunc
<1>1. InputIsBoundNotRead(Plain(q)) = InputIsBoundNotRead(q)
  BY DEF ControllerFile, InControllers, InputIsBoundNotRead
<1>2. TheServiceValidates(Plain(q)) = TheServiceValidates(q)
  BY DEF ControllerFile, InControllers, TheServiceValidates
<1>3. JSONIsWrittenByTheFramework(Plain(q)) = JSONIsWrittenByTheFramework(q)
  BY DEF ControllerFile, InControllers, WritesJSON, JSONIsWrittenByTheFramework
<1>4. ARejectedFormIsARedirect(Plain(q)) = ARejectedFormIsARedirect(q)
  BY DEF ControllerFile, InControllers, ARejectedFormIsARedirect
<1>5. TheSessionIsLoadedByTheGuard(Plain(q)) = TheSessionIsLoadedByTheGuard(q)
  BY DEF ControllerFile, InControllers, TheSessionIsLoadedByTheGuard
<1>6. RedirectsNameARoute(Plain(q)) = RedirectsNameARoute(q)
  BY DEF ControllerFile, InControllers, RedirectsNameARoute
<1>7. MarkupIsAView(Plain(q)) = MarkupIsAView(q)
  BY DEF MarkupIsAView
<1>8. ServicesSpeakNoHTTP(Plain(q)) = ServicesSpeakNoHTTP(q)
  BY DEF ServiceFile, Uses, CallsOut, ServicesSpeakNoHTTP
<1>9. ServicesAreFlat(Plain(q)) = ServicesAreFlat(q)
  BY DEF ServicesAreFlat
<1>10. ServiceFilesStayReadable(Plain(q)) = ServiceFilesStayReadable(q)
  BY DEF Notes, ServiceFile, ServiceFilesStayReadable
<1>11. ControllersStaySmall(Plain(q)) = ControllersStaySmall(q)
  BY DEF ControllerFile, ControllersStaySmall
<1>12. OperationsAreRoutes(Plain(q)) = OperationsAreRoutes(q)
  BY DEF ControllerFile, InControllers, OperationsAreRoutes
<1>13. ExternalCallsGoThroughAClient(Plain(q)) = ExternalCallsGoThroughAClient(q)
  BY DEF Uses, CallsOut, ExternalCallsGoThroughAClient
<1>14. EntityRulesArePure(Plain(q)) = EntityRulesArePure(q)
  BY DEF EntityRulesArePure
<1>15. FragmentsArePartials(Plain(q)) = FragmentsArePartials(q)
  BY DEF ApplicationFile, FragmentsArePartials
<1>16. HelpersComeFromTheCatalog(Plain(q)) = HelpersComeFromTheCatalog(q)
  BY DEF HelpersComeFromTheCatalog
<1>17. SQLLivesInRepositories(Plain(q)) = SQLLivesInRepositories(q)
  BY DEF ApplicationFile, SQLLivesInRepositories
<1>18. SubjectsComeFromStoredAccess(Plain(q)) = SubjectsComeFromStoredAccess(q)
  BY DEF ApplicationFile, SubjectsComeFromStoredAccess
<1>19. BootstrapIsOnlyApp(Plain(q)) = BootstrapIsOnlyApp(q)
  BY DEF BootstrapIsOnlyApp
<1>20. ProgramsAreNotUnderCmd(Plain(q)) = ProgramsAreNotUnderCmd(q)
  BY DEF DeclaresMain, EntryFile, NativeTarget, OpenAPIProgram, ProgramsAreNotUnderCmd
<1>21. CommandsLiveInConsoleCommands(Plain(q)) = CommandsLiveInConsoleCommands(q)
  BY DEF ApplicationFile, CommandsLiveInConsoleCommands
<1>22. ScriptsAreNotPrograms(Plain(q)) = ScriptsAreNotPrograms(q)
  BY DEF Uses, DeclaresMain, EntryFile, DrivesABrowser, ReachesTheApplication,
         ScriptsAreNotPrograms
<1>23. OrderIsNotChosenByTheRequest(Plain(q)) = OrderIsNotChosenByTheRequest(q)
  BY DEF ApplicationFile, OrderIsNotChosenByTheRequest
<1> QED  BY <1>1, <1>2, <1>3, <1>4, <1>5, <1>6, <1>7, <1>8, <1>9, <1>10, <1>11, <1>12, <1>13,
    <1>14, <1>15, <1>16, <1>17, <1>18, <1>19, <1>20, <1>21, <1>22, <1>23 DEF PlaceFindings

LEMMA SuiteOfAnyProfile ==
    ASSUME NEW q
    PROVE  SuiteFindings(Plain(q)) = SuiteFindings(q)
<1> USE DEF Plain, Under, Category, IsTest, Code, Decls, Types, Funcs, Imports, PerFunc
<1>1. TestsAreWhereTheyCanRun(Plain(q)) = TestsAreWhereTheyCanRun(q)
  BY DEF Notes, InvisibleTests, MisplacedTests, CapitalisedPackages, ScaffoldingInProduction,
         TestsAreWhereTheyCanRun
<1>2. TestsDoNotSleep(Plain(q)) = TestsDoNotSleep(q)
  BY DEF SuiteFile, InSuite, TestsDoNotSleep
<1>3. TestsSignInForReal(Plain(q)) = TestsSignInForReal(q)
  BY DEF RequestLayerFile, InSuite, TestsSignInForReal
<1>4. LocatorsSpeakAsTheUser(Plain(q)) = LocatorsSpeakAsTheUser(q)
  BY DEF JourneyFile, InSuite, LocatorsSpeakAsTheUser
<1>5. ConformanceIsCalledNotCopied(Plain(q)) = ConformanceIsCalledNotCopied(q)
  BY DEF ConformanceIsCalledNotCopied
<1>6. JourneysRunInCI(Plain(q)) = JourneysRunInCI(q)
  BY DEF JourneyFile, JourneysRunInCI
<1>7. SkipsSayWhy(Plain(q)) = SkipsSayWhy(q)
  BY DEF SuiteFile, InSuite, SkipsSayWhy
<1>8. TestsNameNoDriver(Plain(q)) = TestsNameNoDriver(q)
  BY DEF SuiteFile, InSuite, TestsNameNoDriver
<1> QED  BY <1>1, <1>2, <1>3, <1>4, <1>5, <1>6, <1>7, <1>8 DEF SuiteFindings

LEMMA AbsenceOfAnyProfile ==
    ASSUME NEW q
    PROVE  AskingFindings(Plain(q)) = AskingFindings(q)
<1> USE DEF Plain, Under, Category, IsTest, Code, Decls, Types, Funcs, Imports, PerFunc
<1>1. TheOutboxTableTravels(Plain(q)) = TheOutboxTableTravels(q)
  BY DEF TheOutboxTableTravels
<1>2. MigrationsMustReachTheBinary(Plain(q)) = MigrationsMustReachTheBinary(q)
  BY DEF Migrations, ImportsDir, MigrationsMustReachTheBinary
<1>3. ConfiguredEnginesAreLinked(Plain(q)) = ConfiguredEnginesAreLinked(q)
  BY DEF ConfiguredEnginesAreLinked
<1>4. ConstructorsAreWired(Plain(q)) = ConstructorsAreWired(q)
  BY DEF Notes, Uses, ConstructorsAreWired
<1>5. RequestValidatesByHand(Plain(q)) = RequestValidatesByHand(q)
  BY DEF RequestFile, RequestValidatesByHand
<1>6. PermissionsNotUsed(Plain(q)) = PermissionsNotUsed(q)
  BY DEF UsedPermissions, PermissionsNotUsed
<1> QED  BY <1>1, <1>2, <1>3, <1>4, <1>5, <1>6 DEF AskingFindings

\* Declaring the other profile leaves every finding where it was.
LEMMA ProfileAddsOnly ==
    ASSUME NEW q, IsProject(q), q.profile = "conventional"
    PROVE  Printed(q) \subseteq Printed([q EXCEPT !.profile = "performance"])
<1> DEFINE r == [q EXCEPT !.profile = "performance"]
<1>1. Plain(r) = Plain(q) /\ r.path = q.path /\ r.bad = q.bad
  BY DEF Plain, IsProject
<1> HIDE DEF r
<1>2. ProfileFindings(q) = {}
  <2>1. q.profile # "performance"
    OBVIOUS
  <2> QED  BY <2>1 DEF ProfileFindings, TheProfileIsDeclared, QueriesReachOneAggregate,
                       TransactionsStayInsideOneAggregate
<1>3. /\ UnreadableFiles(q) = UnreadableFiles(r) /\ AccessFindings(q) = AccessFindings(r)
      /\ AskingFindings(q) = AskingFindings(r) /\ ShapeFindings(q) = ShapeFindings(r)
      /\ PlaceFindings(q) = PlaceFindings(r) /\ SuiteFindings(q) = SuiteFindings(r)
  BY <1>1, AccessOfAnyProfile, AbsenceOfAnyProfile, ShapeOfAnyProfile, PlaceOfAnyProfile, SuiteOfAnyProfile
  DEF UnreadableFiles
<1>4. Findings(q) \subseteq Findings(r)
  BY <1>2, <1>3 DEF Findings
<1>5. \A x : Placed(q, x) = Placed(r, x)
  BY <1>1 DEF Placed, FileOf
<1> QED  BY <1>4, <1>5 DEF Printed, r

----------------------------------------------------------------------------
(* One more file that does not parse, and every rule.  Cut is a project with *)
(* some of its files among those that do not parse, and each rule is seen to *)
(* find nothing in it that it did not find in the project, but for the ones  *)
(* that do not ask and the ones that place their finding elsewhere.          *)

Cut(q, fs, u) ==
    [files |-> fs, bad |-> u, path |-> q.path, text |-> q.text, profile |-> q.profile,
     module |-> q.module, manifest |-> q.manifest, env |-> q.env, views |-> q.views, ci |-> q.ci,
     stale |-> q.stale, catalog |-> q.catalog, skills |-> q.skills]

LEMMA RuleOfFinding == \A rule, severity, f, about : Finding(rule, severity, f, about).rule = rule
  BY DEF Finding

LEMMA RuleOfPerFile ==
    ASSUME NEW rule, NEW severity, NEW fs
    PROVE  \A x \in PerFile(rule, severity, fs) : x.rule = rule
<1> SUFFICES ASSUME NEW x \in PerFile(rule, severity, fs) PROVE x.rule = rule
  OBVIOUS
<1>1. PICK f : x = Finding(rule, severity, f, "")
  BY Zenon DEF PerFile
<1> QED  BY <1>1, RuleOfFinding, Zenon

\* What these rules find carries one of the names of Unasked, whatever the project.
LEMMA FindingsOfUnaskedRules ==
    ASSUME NEW q
    PROVE  \A x \in RepositoryNeedsPolicy(q) \cup EnumRulesAreDerived(q)
                    \cup PoliciesDeclareTheirWrites(q) \cup SensitiveFieldNeedsRedaction(q)
                    \cup ResourceNotReauthorized(q) \cup MigrationsMustBeReversible(q)
                    \cup ModelCoreStaysInTheModels(q) : x.rule \in Unasked
<1> USE DEF Finding, Unasked, PerFile, PerFunc
<1>1. \A x \in RepositoryNeedsPolicy(q) : x.rule \in Unasked
  <2> SUFFICES ASSUME NEW x \in RepositoryNeedsPolicy(q) PROVE x.rule \in Unasked
    OBVIOUS
  <2>1. \E g, e : x = Finding("repository-without-policy", "error", g, e)
    BY Zenon DEF RepositoryNeedsPolicy
  <2> QED  BY <2>1
<1>2. \A x \in EnumRulesAreDerived(q) : x.rule \in Unasked
  <2> SUFFICES ASSUME NEW x \in EnumRulesAreDerived(q) PROVE x.rule \in Unasked
    OBVIOUS
  <2>1. \E g, s : x = Finding("enum-rule-not-derived", s, g, "")
    <3> DEFINE Known(w) == \E e \in EnumOfStatus(q) : w \in e.marks
               Lists(w) == {g \in Code(q) :
                              /\ Imports(q, g) \cap {"framework/validation", "hesape/validation"} # {}
                              /\ \E fn \in Funcs(q, g) : Does(fn, "enum:" \o w)}
               Of(w) == PerFile("enum-rule-not-derived", IF Known(w) THEN "warning" ELSE "error", Lists(w))
    <3>1. EnumRulesAreDerived(q) \in {{}, UNION {Of(w) : w \in {"sent", "lost"}}}
      BY Zenon DEF EnumRulesAreDerived
    <3>2. \A w, y : y \in Of(w) => \E g, s : y = Finding("enum-rule-not-derived", s, g, "")
      BY Zenon DEF PerFile
    <3> HIDE DEF Of
    <3>3. \E w : x \in Of(w)
      BY <3>1
    <3> QED  BY <3>2, <3>3, Zenon
  <2>2. x.rule = "enum-rule-not-derived"
    BY <2>1, RuleOfFinding, Zenon
  <2> QED  BY <2>2
<1>3. \A x \in PoliciesDeclareTheirWrites(q) : x.rule \in Unasked
  <2> SUFFICES ASSUME NEW x \in PoliciesDeclareTheirWrites(q) PROVE x.rule \in Unasked
    OBVIOUS
  <2>1. \E g, name : x = Finding("policy-declares-no-writes", "warning", g, name)
    BY Zenon DEF PoliciesDeclareTheirWrites, PerFunc
  <2> QED  BY <2>1
<1>4. \A x \in SensitiveFieldNeedsRedaction(q) : x.rule \in Unasked
  <2> SUFFICES ASSUME NEW x \in SensitiveFieldNeedsRedaction(q) PROVE x.rule \in Unasked
    OBVIOUS
  <2>1. \E g, t : x = Finding("sensitive-field-not-redacted", "warning", g, t)
    BY Zenon DEF SensitiveFieldNeedsRedaction
  <2> QED  BY <2>1
<1>5. \A x \in ResourceNotReauthorized(q) : x.rule \in Unasked  BY DEF ResourceNotReauthorized
<1>6. \A x \in MigrationsMustBeReversible(q) : x.rule \in Unasked  BY DEF MigrationsMustBeReversible
<1>7. \A x \in ModelCoreStaysInTheModels(q) : x.rule \in Unasked  BY DEF ModelCoreStaysInTheModels
<1> QED  BY <1>1, <1>2, <1>3, <1>4, <1>5, <1>6, <1>7

LEMMA AccessOfFewerFiles ==
    ASSUME NEW q, NEW fs, NEW u, fs \subseteq q.files, fs \cup u = q.files \cup q.bad, u # {}
    PROVE  \A x \in AccessFindings(Cut(q, fs, u)) : x \in AccessFindings(q) \/ x.rule \in Unasked
<1> DEFINE c == Cut(q, fs, u)
<1> USE DEF Cut, Under, Category, IsTest, Code, Decls, Types, Funcs, Imports, PerFunc
<1>1. ActionsAreConstants(c) \subseteq ActionsAreConstants(q)
  BY DEF ActionsAreConstants
<1>2. PolicyMustBeOpened(c) \subseteq PolicyMustBeOpened(q)
  BY DEF PolicyFile, PolicyMustBeOpened
<1>3. ControllerMustNotReachTheRepository(c) \subseteq ControllerMustNotReachTheRepository(q)
  BY DEF OnRequestPath, Requests, PerFile, ControllerMustNotReachTheRepository
<1>4. TenantMustComeFromTheGrant(c) \subseteq TenantMustComeFromTheGrant(q)
  BY DEF GrantsIn, TenantMustComeFromTheGrant
<1>5. SystemGrantIsAudited(c) \subseteq SystemGrantIsAudited(q)
  <2>1. \A g : InASystemScope(c, g) = InASystemScope(q, g)
    BY DEF InASystemScope, Segments
  <2>2. \A g, fn : GrantsIn(c, g, fn) = GrantsIn(q, g, fn)
    BY DEF GrantsIn
  <2> QED  BY <2>1, <2>2 DEF SystemGrantIsAudited
<1>6. NoBuiltSQL(c) \subseteq NoBuiltSQL(q)
  BY DEF NoBuiltSQL
<1>7. SessionMustRotateOnLogin(c) \subseteq SessionMustRotateOnLogin(q)
  BY DEF SessionMustRotateOnLogin
<1>8. CsrfExemptionsVerifyASignature(c) \subseteq CsrfExemptionsVerifyASignature(q)
  BY DEF ControllerFile, CsrfExemptionsVerifyASignature
<1>9. TenantMustScopeTheSQL(c) \subseteq TenantMustScopeTheSQL(q)
  BY DEF Segments, InAMigration, MultiTenantTables, TenantMustScopeTheSQL
<1>10. \A x \in RepositoryMethodNeedsGrant(c) :
          x \in RepositoryMethodNeedsGrant(q) \/ x.rule \in Unasked
  <2> DEFINE Open(pr, g, fn) == /\ AuditedMethod(pr, g, fn) /\ "Grant" \notin fn.marks
                               /\ ReachesTheDatabase(fn)
             Told(pr) == UNION {{Finding("grant-not-received", "error", g, NameOf(fn) \o fn.name) :
                                  fn \in {h \in Funcs(pr, g) : Open(pr, g, h)}} : g \in Code(pr)}
  <2>1. \A g, fn : Open(c, g, fn) => Open(q, g, fn)
    BY DEF AuditedMethod, ReachesApplicationData, OnRequestPath
  <2>2. \A x \in RepositoryMethodNeedsGrant(c) : x \in Told(c) \/ x.rule \in Unasked
    BY SMTT(60) DEF RepositoryMethodNeedsGrant, Finding, Unasked
  <2>3. Told(q) \subseteq RepositoryMethodNeedsGrant(q)
    BY DEF RepositoryMethodNeedsGrant
  <2>4. Told(c) \subseteq Told(q)
    <3> HIDE DEF Open
    <3> QED  BY <2>1
  <2> HIDE DEF Told
  <2> QED  BY <2>2, <2>3, <2>4
<1>11. \A x \in ControllerMustNotReachData(c) :
          x \in ControllerMustNotReachData(q) \/ x.rule \in Unasked
  <2> DEFINE Told(pr) == PerFile("handler-reaches-data", "error",
                {g \in Requests(pr) : /\ Imports(pr, g) \cap {"framework/data", "hesape/database"} # {}
                                     /\ \E fn \in Funcs(pr, g) : Does(fn, "data_package")})
             Kept(pr) == PerFile("handler-reaches-the-model", "error",
                {g \in Requests(pr) : \E fn \in Funcs(pr, g) : CallsTheModelPackage(pr, g, fn)})
  <2>1. ControllerMustNotReachData(c) = Told(c) \cup Kept(c)
    BY DEF ControllerMustNotReachData
  <2>2. ControllerMustNotReachData(q) = Told(q) \cup Kept(q)
    BY DEF ControllerMustNotReachData
  <2>3. Told(c) \subseteq Told(q)
    BY DEF OnRequestPath, Requests, PerFile
  <2>4. \A x \in Kept(c) : x.rule \in Unasked
    <3>2. \A x \in Kept(c) : x.rule = "handler-reaches-the-model"
      BY RuleOfPerFile
    <3> HIDE DEF Kept
    <3> QED  BY <3>2 DEF Unasked
  <2> HIDE DEF Told, Kept
  <2> QED  BY <2>1, <2>2, <2>3, <2>4
<1>12. \A x \in RepositoryNeedsPolicy(c) \cup EnumRulesAreDerived(c)
               \cup PoliciesDeclareTheirWrites(c) \cup SensitiveFieldNeedsRedaction(c)
               \cup ResourceNotReauthorized(c) : x.rule \in Unasked
  BY FindingsOfUnaskedRules
<1> HIDE DEF c
<1> QED  BY <1>1, <1>2, <1>3, <1>4, <1>5, <1>6, <1>7, <1>8, <1>9, <1>10, <1>11, <1>12 DEF AccessFindings, c

LEMMA ShapeOfFewerFiles ==
    ASSUME NEW q, NEW fs, NEW u, fs \subseteq q.files, fs \cup u = q.files \cup q.bad, u # {}
    PROVE  \A x \in ShapeFindings(Cut(q, fs, u)) : x \in ShapeFindings(q) \/ x.rule \in Unasked
<1> DEFINE c == Cut(q, fs, u)
<1> USE DEF Cut, Under, Category, IsTest, Code, Decls, Types, Funcs, Imports, PerFunc
<1>1. ViewDataMustBeAStruct(c) \subseteq ViewDataMustBeAStruct(q)
  BY DEF ViewDataMustBeAStruct
<1>2. ViewMustExist(c) \subseteq ViewMustExist(q)
  BY DEF ViewMustExist
<1>3. ViewsKeepNoStateInTheBrowser(c) \subseteq ViewsKeepNoStateInTheBrowser(q)
  BY DEF ViewFindings, ViewsKeepNoStateInTheBrowser
<1>4. RawOutputIsAComponent(c) \subseteq RawOutputIsAComponent(q)
  BY DEF ViewFindings, RawOutputIsAComponent
<1>5. NoRetiredModuleIsImported(c) \subseteq NoRetiredModuleIsImported(q)
  BY DEF NoRetiredModuleIsImported
<1>6. ImportsAreCanonical(c) \subseteq ImportsAreCanonical(q)
  BY DEF ViewFindings, ImportsAreCanonical
<1>7. AddedColumnsMustBeNullable(c) \subseteq AddedColumnsMustBeNullable(q)
  BY DEF SameDir, Migrations, MethodOf, AddedColumnsMustBeNullable
<1>8. ModelQueryIsCurrent(c) \subseteq ModelQueryIsCurrent(q)
  BY DEF ModelQueryIsCurrent
<1>9. SkillsFollowTheirOrigin(c) \subseteq SkillsFollowTheirOrigin(q)
  BY DEF HandedOut, SkillsFollowTheirOrigin
<1>10. DistributedSkillsArePresent(c) \subseteq DistributedSkillsArePresent(q)
  BY DEF HandedOut, DistributedSkillsArePresent
<1>11. GeneratedSkillsAreRetired(c) \subseteq GeneratedSkillsAreRetired(q)
  BY DEF GeneratedSkillsAreRetired
<1>12. DeclaredPermissionsMatchTheCode(c) \subseteq DeclaredPermissionsMatchTheCode(q)
  <2>1. UsedPermissions(c) \subseteq UsedPermissions(q)
    BY DEF UsedPermissions
  <2>2. PermissionsNotUsed(c) = {}
    BY DEF PermissionsNotUsed
  <2> QED  BY <2>1, <2>2 DEF DeclaredPermissionsMatchTheCode
<1>13. \A x \in MigrationsMustBeReversible(c) \cup ModelCoreStaysInTheModels(c) : x.rule \in Unasked
  BY FindingsOfUnaskedRules
<1> HIDE DEF c
<1> QED  BY <1>1, <1>2, <1>3, <1>4, <1>5, <1>6, <1>7, <1>8, <1>9, <1>10, <1>11, <1>12, <1>13 DEF ShapeFindings, c

\* A finding about several files is about some of them still.
Moves(x, found) == x.rule \in Relocated /\ \E y \in found : y.rule = x.rule

LEMMA PlaceOfFewerFiles ==
    ASSUME NEW q, NEW fs, NEW u, fs \subseteq q.files, fs \cup u = q.files \cup q.bad, u # {}
    PROVE  \A x \in PlaceFindings(Cut(q, fs, u)) :
              x \in PlaceFindings(q) \/ Moves(x, PlaceFindings(q))
<1> DEFINE c == Cut(q, fs, u)
<1> USE DEF Cut, Under, Category, IsTest, Code, Decls, Types, Funcs, Imports, PerFunc
<1>1. InputIsBoundNotRead(c) \subseteq InputIsBoundNotRead(q)
  BY DEF ControllerFile, InControllers, InputIsBoundNotRead
<1>2. TheServiceValidates(c) \subseteq TheServiceValidates(q)
  BY DEF ControllerFile, InControllers, TheServiceValidates
<1>3. JSONIsWrittenByTheFramework(c) \subseteq JSONIsWrittenByTheFramework(q)
  BY DEF ControllerFile, InControllers, WritesJSON, JSONIsWrittenByTheFramework
<1>4. ARejectedFormIsARedirect(c) \subseteq ARejectedFormIsARedirect(q)
  BY DEF ControllerFile, InControllers, ARejectedFormIsARedirect
<1>5. TheSessionIsLoadedByTheGuard(c) \subseteq TheSessionIsLoadedByTheGuard(q)
  BY DEF ControllerFile, InControllers, TheSessionIsLoadedByTheGuard
<1>6. RedirectsNameARoute(c) \subseteq RedirectsNameARoute(q)
  BY DEF ControllerFile, InControllers, RedirectsNameARoute
<1>7. MarkupIsAView(c) \subseteq MarkupIsAView(q)
  BY DEF PerFile, MarkupIsAView
<1>8. ServicesSpeakNoHTTP(c) \subseteq ServicesSpeakNoHTTP(q)
  BY DEF ServiceFile, Uses, CallsOut, ServicesSpeakNoHTTP
<1>9. ServiceFilesStayReadable(c) \subseteq ServiceFilesStayReadable(q)
  BY DEF Notes, ServiceFile, PerFile, ServiceFilesStayReadable
<1>10. OperationsAreRoutes(c) \subseteq OperationsAreRoutes(q)
  <2> DEFINE Chosen(fn) == \/ Does(fn, "switch_ctx.Input")
                           \/ Does(fn, "op_:=_ctx.Input") /\ Does(fn, "switch_op")
             Picks(fn) ==
                LET taken == {Clauses[k] : k \in Holds(fn) \cap DOMAIN Clauses}
                IN  /\ IsMethod(fn) /\ Chosen(fn)
                    /\ Cardinality({k.branch : k \in taken}) >= 2
                    /\ Cardinality({k.method : k \in taken}) >= 2
             Seat(g) == ControllerFile(q, g)
             Of(g) == {Finding("operation-chosen-by-form-field", "warning", g, NameOf(fn) \o fn.name) :
                         fn \in {h \in Funcs(q, g) : Picks(h)}}
  <2>1. OperationsAreRoutes(q) = UNION {Of(g) : g \in {h \in q.files : Seat(h)}}
    BY DEF ControllerFile, InControllers, OperationsAreRoutes
  <2>2. OperationsAreRoutes(c) = UNION {Of(g) : g \in {h \in fs : Seat(h)}}
    BY DEF ControllerFile, InControllers, OperationsAreRoutes
  <2> HIDE DEF c, Seat, Of, Picks
  <2> QED  BY <2>1, <2>2
<1>11. ExternalCallsGoThroughAClient(c) \subseteq ExternalCallsGoThroughAClient(q)
  BY DEF Uses, CallsOut, PerFile, ExternalCallsGoThroughAClient
<1>12. EntityRulesArePure(c) \subseteq EntityRulesArePure(q)
  BY DEF EntityRulesArePure
<1>13. FragmentsArePartials(c) \subseteq FragmentsArePartials(q)
  BY DEF ApplicationFile, FragmentsArePartials
<1>14. HelpersComeFromTheCatalog(c) \subseteq HelpersComeFromTheCatalog(q)
  BY DEF HelpersComeFromTheCatalog
<1>15. SQLLivesInRepositories(c) \subseteq SQLLivesInRepositories(q)
  BY DEF ApplicationFile, SQLLivesInRepositories
<1>16. SubjectsComeFromStoredAccess(c) \subseteq SubjectsComeFromStoredAccess(q)
  <2> DEFINE Seat(g) == ApplicationFile(q, g)
             Of(g) == {Finding("subject-built-by-hand", "warning", g, NameOf(fn) \o fn.name) :
                         fn \in {h \in Funcs(q, g) :
                            /\ Imports(q, g) \cap {"framework/security", "hesape/auth"} # {}
                            /\ Does(h, "Subject_literal_of_an_admin")}}
  <2>1. SubjectsComeFromStoredAccess(q) = UNION {Of(g) : g \in {h \in q.files : Seat(h)}}
    BY DEF ApplicationFile, SubjectsComeFromStoredAccess
  <2>2. SubjectsComeFromStoredAccess(c) = UNION {Of(g) : g \in {h \in fs : Seat(h)}}
    BY DEF ApplicationFile, SubjectsComeFromStoredAccess
  <2> HIDE DEF c, Seat, Of
  <2> QED  BY <2>1, <2>2
<1>17. BootstrapIsOnlyApp(c) \subseteq BootstrapIsOnlyApp(q)
  BY DEF BootstrapIsOnlyApp
<1>18. CommandsLiveInConsoleCommands(c) \subseteq CommandsLiveInConsoleCommands(q)
  BY DEF ApplicationFile, CommandsLiveInConsoleCommands
<1>19. OrderIsNotChosenByTheRequest(c) \subseteq OrderIsNotChosenByTheRequest(q)
  BY DEF ApplicationFile, OrderIsNotChosenByTheRequest
<1>20. \A x \in ServicesAreFlat(c) : Moves(x, ServicesAreFlat(q))
  <2> DEFINE Inside(pr) == {g \in pr.files : Under(pr, g, <<"app", "Services">>) /\ Len(pr.path[g].dir) > 2}
  <2>1. \A dir \in {q.path[g2].dir : g2 \in Inside(q)} :
          Warn("service-subpackage", Least({g2 \in Inside(q) : q.path[g2].dir = dir})) \in ServicesAreFlat(q)
    BY DEF ServicesAreFlat
  <2> SUFFICES ASSUME NEW x \in ServicesAreFlat(c) PROVE Moves(x, ServicesAreFlat(q))
    OBVIOUS
  <2>2. PICK dir, g : dir \in {c.path[g2].dir : g2 \in Inside(c)} /\ x = Warn("service-subpackage", g)
    BY Zenon DEF ServicesAreFlat
  <2>3. dir \in {q.path[g2].dir : g2 \in Inside(q)}
    BY <2>2
  <2>4. \E g2 : Warn("service-subpackage", g2) \in ServicesAreFlat(q)
    BY <2>1, <2>3
  <2> QED  BY <2>2, <2>4 DEF Moves, Relocated, Warn, Finding
<1>21. \A x \in ControllersStaySmall(c) : Moves(x, ControllersStaySmall(q))
  <2> DEFINE Small(pr) == {g \in pr.files : ControllerFile(pr, g)}
             Acts(pr, dir, name) ==
                UNION {{<<g, fn>> : fn \in {m \in Funcs(pr, g) : IsAction(m) /\ NameOf(m) = name}} :
                       g \in {h \in Small(pr) : pr.path[h].dir = dir}}
             Keys(pr) == UNION {{<<pr.path[g].dir, NameOf(fn)>> : fn \in {m \in Funcs(pr, g) : IsAction(m)}} :
                               g \in Small(pr)}
             Many(pr, dir, name) == \E some \in SUBSET Acts(pr, dir, name) :
                                      Cardinality(some) = ControllerActionLimit + 1
             Rule(g, name) == Finding("controller-too-many-actions", "warning", g, name)
  <2> DEFINE Stands(dir, name) ==
                {g \in Small(q) : q.path[g].dir = dir /\ \E t \in Types(q, g) : NameOf(t) = name}
             Where(dir, name) ==
                IF Stands(dir, name) # {}
                THEN CHOOSE g \in Stands(dir, name) : \A h \in Stands(dir, name) : h <= g
                ELSE Least({a[1] : a \in Acts(q, dir, name)})
  <2>9. \A k \in {y \in Keys(q) : Many(q, y[1], y[2])} :
          Rule(Where(k[1], k[2]), k[2]) \in ControllersStaySmall(q)
    BY Zenon DEF ControllersStaySmall
  <2> SUFFICES ASSUME NEW x \in ControllersStaySmall(c) PROVE Moves(x, ControllersStaySmall(q))
    OBVIOUS
  <2>1. PICK k, g : k \in {y \in Keys(c) : Many(c, y[1], y[2])} /\ x = Rule(g, k[2])
    BY Zenon DEF ControllersStaySmall
  <2>2. Small(c) \subseteq Small(q)
    BY DEF ControllerFile
  <2>3. Keys(c) \subseteq Keys(q)
    BY <2>2
  <2>4. Acts(c, k[1], k[2]) \subseteq Acts(q, k[1], k[2])
    BY <2>2
  <2>5. k \in {y \in Keys(q) : Many(q, y[1], y[2])}
    BY <2>1, <2>3, <2>4
  <2>6. \E g2 : Rule(g2, k[2]) \in ControllersStaySmall(q)
    <3> HIDE DEF Keys, Many, Rule, Where
    <3> QED  BY <2>5, <2>9
  <2> QED  BY <2>1, <2>6 DEF Moves, Relocated, Finding
<1>22. \A x \in ProgramsAreNotUnderCmd(c) : Moves(x, ProgramsAreNotUnderCmd(q))
  <2> DEFINE Below(pr) == {g \in Code(pr) : Under(pr, g, <<"cmd">>) /\ ~NativeTarget(pr, g)}
             Rule(g, name) == Finding("program-under-cmd", "warning", g, name)
  <2> DEFINE Key(g) == SubSeq(q.path[g].dir, 1, IF Len(q.path[g].dir) < 2 THEN 1 ELSE 2)
             Sits(k) == {g \in Below(q) : Key(g) = k}
             Sort(k) == IF OpenAPIProgram(q, Sits(k)) THEN "openapi" ELSE "command"
  <2>9. \A k \in {Key(g) : g \in Below(q)} :
          Rule(EntryFile(q, Sits(k)), Sort(k)) \in ProgramsAreNotUnderCmd(q)
    BY Zenon DEF ProgramsAreNotUnderCmd
  <2> SUFFICES ASSUME NEW x \in ProgramsAreNotUnderCmd(c) PROVE Moves(x, ProgramsAreNotUnderCmd(q))
    OBVIOUS
  <2>1. Below(c) \subseteq Below(q)
    BY DEF NativeTarget
  <2>2. PICK h, g, name : h \in Below(c) /\ x = Rule(g, name)
    <3> HIDE DEF c
    <3> USE ONLY x \in ProgramsAreNotUnderCmd(c)
    <3> QED  BY Zenon DEF ProgramsAreNotUnderCmd
  <2>3. \E g2, name2 : Rule(g2, name2) \in ProgramsAreNotUnderCmd(q)
    <3>1. h \in Below(q)
      BY <2>1, <2>2
    <3>2. Key(h) \in {Key(g2) : g2 \in Below(q)}
      BY <3>1
    <3> HIDE DEF Below, Rule, Key, Sits, Sort
    <3> QED  BY <3>2, <2>9
  <2> QED  BY <2>2, <2>3 DEF Moves, Relocated, Finding
<1>23. \A x \in ScriptsAreNotPrograms(c) : Moves(x, ScriptsAreNotPrograms(q))
  <2> DEFINE Below(pr) == {g \in Code(pr) : Under(pr, g, <<"scripts">>)}
             Sits(pr, dir) == {g \in Below(pr) : pr.path[g].dir = dir}
             Sort(pr, dir) == IF DrivesABrowser(pr, Sits(pr, dir)) THEN "journey"
                              ELSE IF ReachesTheApplication(pr, Sits(pr, dir)) THEN "command" ELSE "tool"
             Rule(g, name) == Finding("program-under-scripts", "warning", g, name)
  <2>9. \A dir : (\E h \in Sits(q, dir) : DeclaresMain(q, h)) /\ Sort(q, dir) # "tool"
                    => Rule(EntryFile(q, Sits(q, dir)), Sort(q, dir)) \in ScriptsAreNotPrograms(q)
    BY DEF ScriptsAreNotPrograms
  <2> SUFFICES ASSUME NEW x \in ScriptsAreNotPrograms(c) PROVE Moves(x, ScriptsAreNotPrograms(q))
    OBVIOUS
  <2>1. PICK dir, g, name : /\ \E h \in Sits(c, dir) : DeclaresMain(c, h)
                            /\ Sort(c, dir) # "tool"
                            /\ x = Rule(g, name)
    BY DEF ScriptsAreNotPrograms
  <2>2. Sits(c, dir) \subseteq Sits(q, dir)
    OBVIOUS
  <2>3. \E h \in Sits(q, dir) : DeclaresMain(q, h)
    BY <2>1, <2>2 DEF DeclaresMain
  <2>4. Sort(q, dir) # "tool"
    <3> HIDE DEF Sits
    <3>1. DrivesABrowser(c, Sits(c, dir)) => DrivesABrowser(q, Sits(q, dir))
      BY <2>2 DEF DrivesABrowser, Uses
    <3>2. ReachesTheApplication(c, Sits(c, dir)) => ReachesTheApplication(q, Sits(q, dir))
      BY <2>2 DEF ReachesTheApplication
    <3> HIDE DEF c
    <3> QED  BY <2>1, <3>1, <3>2
  <2>5. \E g2 : Rule(g2, Sort(q, dir)) \in ScriptsAreNotPrograms(q)
    <3> HIDE DEF Sits, Sort, Rule
    <3> QED  BY <2>3, <2>4, <2>9
  <2> QED  BY <2>1, <2>5 DEF Moves, Relocated, Finding
<1> HIDE DEF c
<1> QED  BY <1>1, <1>2, <1>3, <1>4, <1>5, <1>6, <1>7, <1>8, <1>9, <1>10, <1>11, <1>12, <1>13, <1>14, <1>15, <1>16, <1>17, <1>18, <1>19, <1>20, <1>21, <1>22, <1>23 DEF PlaceFindings, Moves, c

LEMMA SuiteOfFewerFiles ==
    ASSUME NEW q, NEW fs, NEW u, fs \subseteq q.files, fs \cup u = q.files \cup q.bad, u # {}
    PROVE  \A x \in SuiteFindings(Cut(q, fs, u)) :
              x \in SuiteFindings(q) \/ Moves(x, SuiteFindings(q))
<1> DEFINE c == Cut(q, fs, u)
<1> USE DEF Cut, Under, Category, IsTest, Code, Decls, Types, Funcs, Imports, PerFunc
<1>1. TestsDoNotSleep(c) \subseteq TestsDoNotSleep(q)
  BY DEF SuiteFile, InSuite, TestsDoNotSleep
<1>2. TestsSignInForReal(c) \subseteq TestsSignInForReal(q)
  <2> DEFINE Seat(g) == RequestLayerFile(q, g)
             Forges(g, fn) ==
                \/ Does(fn, "ActingAs")
                \/ /\ Imports(q, g) \cap {"framework/security", "hesape/auth"} # {}
                   /\ Does(fn, "Subject_literal")
                   /\ ~(Does(fn, "subject.Can") /\ ~Does(fn, "handler(subject)"))
             Of(g) == {Finding("test-forged-subject", "warning", g, NameOf(fn) \o fn.name) :
                         fn \in {h \in Funcs(q, g) : Forges(g, h)}}
  <2>1. TestsSignInForReal(q) = UNION {Of(g) : g \in {h \in q.files : Seat(h)}}
    BY DEF RequestLayerFile, InSuite, TestsSignInForReal
  <2>2. TestsSignInForReal(c) = UNION {Of(g) : g \in {h \in fs : Seat(h)}}
    BY SMTT(60) DEF RequestLayerFile, InSuite, TestsSignInForReal
  <2> HIDE DEF c, Seat, Of
  <2> QED  BY <2>1, <2>2
<1>3. LocatorsSpeakAsTheUser(c) \subseteq LocatorsSpeakAsTheUser(q)
  BY DEF JourneyFile, InSuite, LocatorsSpeakAsTheUser
<1>4. ConformanceIsCalledNotCopied(c) \subseteq ConformanceIsCalledNotCopied(q)
  BY DEF PerFile, ConformanceIsCalledNotCopied
<1>5. SkipsSayWhy(c) \subseteq SkipsSayWhy(q)
  BY DEF SuiteFile, InSuite, SkipsSayWhy
<1>6. TestsNameNoDriver(c) \subseteq TestsNameNoDriver(q)
  BY DEF SuiteFile, InSuite, TestsNameNoDriver
<1>7. InvisibleTests(c) \subseteq InvisibleTests(q)
  <2> DEFINE Source(all) == {g \in all : ~IsTest(q, g)}
             Named(all) == {g \in Source(all) : q.path[g].suffix = "Test"}
             Of(g) == {Finding("test-is-not-run", "warning", g, NameOf(fn) \o fn.name) :
                         fn \in {h \in Funcs(q, g) : RunnableTest(h) /\ q.path[g].suffix # "Test"}}
  <2>1. InvisibleTests(q) = PerFile("test-is-not-run", "warning", Named(q.files \cup q.bad))
                            \cup UNION {Of(g) : g \in Source(q.files \cup q.bad) \cap q.files}
    BY DEF InvisibleTests
  <2>2. InvisibleTests(c) = PerFile("test-is-not-run", "warning", Named(fs \cup u))
                            \cup UNION {Of(g) : g \in Source(fs \cup u) \cap fs}
    BY DEF InvisibleTests
  <2> HIDE DEF c, Source, Of, Named
  <2> QED  BY <2>1, <2>2
<1>8. MisplacedTests(c) \subseteq MisplacedTests(q)
  BY DEF PerFile, MisplacedTests
<1>9. CapitalisedPackages(c) \subseteq CapitalisedPackages(q)
  BY DEF Notes, PerFile, CapitalisedPackages
<1>10. ScaffoldingInProduction(c) \subseteq ScaffoldingInProduction(q)
  BY DEF PerFile, ScaffoldingInProduction
<1>11. TestsAreWhereTheyCanRun(c) \subseteq TestsAreWhereTheyCanRun(q)
  BY <1>7, <1>8, <1>9, <1>10 DEF TestsAreWhereTheyCanRun
<1>12. \A x \in JourneysRunInCI(c) : Moves(x, JourneysRunInCI(q))
  <2> DEFINE Journeys(pr) == {g \in pr.files : IsTest(pr, g) /\ JourneyFile(pr, g)}
             Rule(g) == Finding("e2e-not-run-in-ci", "warning", g, "")
             Chosen(fs2) == CHOOSE g \in fs2 : \A h \in fs2 : g <= h
             Drawn == IF Journeys(q) = {} \/ q.ci THEN {} ELSE {Rule(Chosen(Journeys(q)))}
  <2>9. Journeys(q) # {} /\ ~q.ci => Rule(Chosen(Journeys(q))) \in JourneysRunInCI(q)
    <3>1. JourneysRunInCI(q) = Drawn
      BY Zenon DEF JourneysRunInCI
    <3> HIDE DEF Rule, Chosen, Journeys
    <3> QED  BY <3>1
  <2> SUFFICES ASSUME NEW x \in JourneysRunInCI(c) PROVE Moves(x, JourneysRunInCI(q))
    OBVIOUS
  <2>1. Journeys(c) \subseteq Journeys(q) /\ c.ci = q.ci
    BY DEF JourneyFile
  <2>2. Journeys(c) # {} /\ ~c.ci /\ \E g : x = Rule(g)
    <3> HIDE DEF c
    <3> QED  BY Zenon DEF JourneysRunInCI
  <2>3. \E g : Rule(g) \in JourneysRunInCI(q)
    <3>1. Journeys(q) # {} /\ ~q.ci
      BY <2>1, <2>2
    <3> HIDE DEF Rule, Chosen, Journeys
    <3> QED  BY <3>1, <2>9
  <2>4. PICK g1, g2 : x = Rule(g1) /\ Rule(g2) \in JourneysRunInCI(q)
    BY <2>2, <2>3
  <2>5. x.rule = "e2e-not-run-in-ci" /\ Rule(g2).rule = "e2e-not-run-in-ci"
    BY <2>4, RuleOfFinding, Zenon
  <2> HIDE DEF Rule
  <2> QED  BY <2>4, <2>5 DEF Moves, Relocated
<1> HIDE DEF c
<1> QED  BY <1>1, <1>2, <1>3, <1>4, <1>5, <1>6, <1>7, <1>8, <1>9, <1>10, <1>11, <1>12 DEF SuiteFindings, Moves, c

LEMMA ProfileOfFewerFiles ==
    ASSUME NEW q, NEW fs, NEW u, fs \subseteq q.files, fs \cup u = q.files \cup q.bad, u # {}
    PROVE  ProfileFindings(Cut(q, fs, u)) \subseteq ProfileFindings(q)
<1> DEFINE c == Cut(q, fs, u)
<1> USE DEF Cut, Under, Category, IsTest, Code, Decls, Types, Funcs, Imports, PerFunc
<1>1. TheProfileIsDeclared(c) = TheProfileIsDeclared(q)
  BY DEF TheProfileIsDeclared
<1>2. QueriesReachOneAggregate(c) \subseteq QueriesReachOneAggregate(q)
  BY DEF QueriesReachOneAggregate
<1>3. TransactionsStayInsideOneAggregate(c) \subseteq TransactionsStayInsideOneAggregate(q)
  <2> DEFINE Tables(fn) == UNION {s.tables : s \in {y \in fn.sql : "in_a_transaction" \in y.marks}}
             Fields(g) == UNION {t.marks : t \in Types(q, g)}
             Called(g, fn) == {r \in {"Invoice", "Customer"} :
                                 "holds_" \o r \in Fields(g) /\ Does(fn, "tx_calls_" \o r)}
             Spans(g, fn) == \/ Cardinality(Tables(fn)) >= 2
                             \/ Tables(fn) = {} /\ Cardinality(Called(g, fn)) >= 2
             Of(g) == {Finding("transaction-across-aggregates", "error", g, NameOf(fn) \o fn.name) :
                         fn \in {h \in Funcs(q, g) : Spans(g, h)}}
             Sources(all) == {g \in all : ~IsTest(q, g)}
  <2>1. TransactionsStayInsideOneAggregate(q) =
          IF q.profile # "performance" THEN {} ELSE UNION {Of(g) : g \in Code(q)}
    BY DEF TransactionsStayInsideOneAggregate
  <2>2. TransactionsStayInsideOneAggregate(c) =
          IF q.profile # "performance" THEN {} ELSE UNION {Of(g) : g \in Code(c)}
    BY DEF TransactionsStayInsideOneAggregate
  <2>3. Code(c) \subseteq Code(q)
    OBVIOUS
  <2> HIDE DEF c, Of
  <2> QED  BY <2>1, <2>2, <2>3
<1> HIDE DEF c
<1> QED  BY <1>1, <1>2, <1>3 DEF ProfileFindings, c

\* Projects that agree in what the rules of a profile read have the same findings of it.
LEMMA SameProfileFindings ==
    ASSUME NEW a, NEW c, a.files = c.files, a.path = c.path, a.text = c.text,
           a.profile = c.profile, a.manifest = c.manifest
    PROVE  ProfileFindings(a) = ProfileFindings(c)
<1>1. Code(a) = Code(c)
  BY DEF Code, IsTest
<1>2. \A g, k : Decls(a, g, k) = Decls(c, g, k)
  BY DEF Decls
<1>3. \A g : Types(a, g) = Types(c, g) /\ Funcs(a, g) = Funcs(c, g)
  BY <1>2 DEF Types, Funcs
<1>4. TheProfileIsDeclared(a) = TheProfileIsDeclared(c)
  BY DEF TheProfileIsDeclared
<1>5. QueriesReachOneAggregate(a) = QueriesReachOneAggregate(c)
  BY <1>1, <1>3 DEF QueriesReachOneAggregate, PerFunc
<1>6. TransactionsStayInsideOneAggregate(a) = TransactionsStayInsideOneAggregate(c)
  <2> DEFINE Tables(fn) == UNION {s.tables : s \in {y \in fn.sql : "in_a_transaction" \in y.marks}}
             Fields(g) == UNION {t.marks : t \in Types(c, g)}
             Called(g, fn) == {r \in {"Invoice", "Customer"} :
                                 "holds_" \o r \in Fields(g) /\ Does(fn, "tx_calls_" \o r)}
             Spans(g, fn) == \/ Cardinality(Tables(fn)) >= 2
                             \/ Tables(fn) = {} /\ Cardinality(Called(g, fn)) >= 2
             Of(g) == {Finding("transaction-across-aggregates", "error", g, NameOf(fn) \o fn.name) :
                         fn \in {h \in Funcs(c, g) : Spans(g, h)}}
  <2>1. TransactionsStayInsideOneAggregate(a) =
          IF c.profile # "performance" THEN {} ELSE UNION {Of(g) : g \in Code(c)}
    BY SMTT(60) DEF TransactionsStayInsideOneAggregate, PerFunc, Code, IsTest, Types, Funcs, Decls
  <2>2. TransactionsStayInsideOneAggregate(c) =
          IF c.profile # "performance" THEN {} ELSE UNION {Of(g) : g \in Code(c)}
    BY SMTT(60) DEF TransactionsStayInsideOneAggregate, PerFunc, Code, IsTest, Types, Funcs, Decls
  <2> QED  BY <2>1, <2>2
<1> QED  BY <1>4, <1>5, <1>6 DEF ProfileFindings

\* After one more file stopped parsing there is nothing in the whole report that was
\* not there, but that the file does not parse, what the rules of Unasked find, and a
\* finding about several files that is placed on another of them.
LEMMA BreakFindsLittle ==
    ASSUME NEW q, NEW f, IsProject(q), f \in q.files
    PROVE  \A x \in Findings(Broken(q, f)) :
              \/ x \in Findings(q)
              \/ x.rule \in {"file-does-not-parse"} \cup Unasked
              \/ Moves(x, Findings(q))
<1> DEFINE b  == Broken(q, f)
           fs == q.files \ {f}
           u  == q.bad \cup {f}
           c  == Cut(q, fs, u)
<1>1. Plain(b) = Plain(c)
  BY DEF Plain, Cut, Broken, IsProject
<1>2. b.files = c.files /\ b.path = c.path /\ b.text = c.text /\ b.profile = c.profile /\ b.manifest = c.manifest
  BY DEF Cut, Broken, IsProject
<1>3. fs \subseteq q.files /\ fs \cup u = q.files \cup q.bad /\ u # {}
  OBVIOUS
<1> HIDE DEF b, c, fs, u
<1>4. AccessFindings(b) = AccessFindings(c)
  BY <1>1, AccessOfAnyProfile
<1>5. ShapeFindings(b) = ShapeFindings(c)
  BY <1>1, ShapeOfAnyProfile
<1>6. PlaceFindings(b) = PlaceFindings(c)
  BY <1>1, PlaceOfAnyProfile
<1>7. SuiteFindings(b) = SuiteFindings(c)
  BY <1>1, SuiteOfAnyProfile
<1>8. ProfileFindings(b) = ProfileFindings(c)
  BY <1>2, SameProfileFindings
<1>9. \A x \in AccessFindings(b) : x \in AccessFindings(q) \/ x.rule \in Unasked
  BY <1>3, <1>4, AccessOfFewerFiles DEF c
<1>10. \A x \in ShapeFindings(b) : x \in ShapeFindings(q) \/ x.rule \in Unasked
  BY <1>3, <1>5, ShapeOfFewerFiles DEF c
<1>11. \A x \in PlaceFindings(b) : x \in PlaceFindings(q) \/ Moves(x, PlaceFindings(q))
  BY <1>3, <1>6, PlaceOfFewerFiles DEF c
<1>12. \A x \in SuiteFindings(b) : x \in SuiteFindings(q) \/ Moves(x, SuiteFindings(q))
  BY <1>3, <1>7, SuiteOfFewerFiles DEF c
<1>13. ProfileFindings(b) \subseteq ProfileFindings(q)
  BY <1>3, <1>8, ProfileOfFewerFiles DEF c
<1>14. AskingFindings(b) \subseteq AskingFindings(q)
  BY AskingFindsNothingNew DEF b
<1>15. \A x \in UnreadableFiles(b) : x.rule = "file-does-not-parse"
  BY RuleOfPerFile DEF UnreadableFiles
<1> SUFFICES ASSUME NEW x \in Findings(b)
             PROVE  \/ x \in Findings(q)
                    \/ x.rule \in {"file-does-not-parse"} \cup Unasked
                    \/ Moves(x, Findings(q))
  BY DEF b
<1>16. Moves(x, PlaceFindings(q)) \/ Moves(x, SuiteFindings(q)) => Moves(x, Findings(q))
  BY DEF Moves, Findings
<1>17. CASE x \in UnreadableFiles(b)  BY <1>15, <1>17
<1>18. CASE x \in AccessFindings(b)  BY <1>9, <1>18 DEF Findings
<1>19. CASE x \in AskingFindings(b)  BY <1>14, <1>19 DEF Findings
<1>20. CASE x \in ShapeFindings(b)  BY <1>10, <1>20 DEF Findings
<1>21. CASE x \in PlaceFindings(b)  BY <1>11, <1>16, <1>21 DEF Findings
<1>22. CASE x \in SuiteFindings(b)  BY <1>12, <1>16, <1>22 DEF Findings
<1>23. CASE x \in ProfileFindings(b)  BY <1>13, <1>23 DEF Findings
<1> QED  BY <1>17, <1>18, <1>19, <1>20, <1>21, <1>22, <1>23 DEF Findings

----------------------------------------------------------------------------
(* The life of a project.                                                   *)

LEMMA ExceptIsProject ==
    ASSUME NEW q, IsProject(q), NEW k, NEW v
    PROVE  IsProject([q EXCEPT ![k] = v])
  BY DEF IsProject

LEMMA MergedIsProject ==
    ASSUME NEW q, IsProject(q), NEW g
    PROVE  IsProject(Over(g, q))
  BY DEF IsProject, Over

\* What an edit and a remedy leave is a project.
LEMMA EditedIsProject ==
    ASSUME NEW q, IsProject(q), NEW e
    PROVE  IsProject(Edited(q, e))
<1> DEFINE r == [q EXCEPT !.files = @ \cup DOMAIN e.text,
                          !.path = Over(e.path, @), !.text = Over(e.text, @)]
<1>1. IsProject(r)  BY DEF IsProject
<1> HIDE DEF r
<1> QED  BY <1>1, MergedIsProject DEF Edited, r

LEMMA DeclaredIsProject ==
    ASSUME NEW q, IsProject(q), NEW x
    PROVE  IsProject(Declared(q, x))
<1>1. IsProject(Asked(q))  BY MergedIsProject DEF Asked
<1>2. \A v : IsProject([q EXCEPT !.manifest = v])  BY ExceptIsProject
<1> QED  BY <1>1, <1>2 DEF Declared

LEMMA RemedyIsProject ==
    ASSUME NEW q, IsProject(q), NEW x, NEW r \in Remedies(q, x)
    PROVE  IsProject(r)
<1>1. IsProject(Declared(q, x))  BY DeclaredIsProject
<1>2. \A u, v : IsProject([q EXCEPT !.files = u, !.bad = v])  BY DEF IsProject
<1>3. \A v : /\ IsProject([q EXCEPT !.files = v])
             /\ IsProject([q EXCEPT !.path = v])
             /\ IsProject([q EXCEPT !.text = v])
  BY DEF IsProject
<1>4. IsProject(Remedy(q, x))  BY <1>1, <1>2, <1>3 DEF Remedy, Moved
<1>5. IsProject(Irreversible(q, x))  BY DEF IsProject, Irreversible
<1> QED  BY <1>4, <1>5 DEF Remedies

\* The report is that of the project as it is read, and after one file was
\* broken that of the project before, and after the other profile was asked for that of
\* the first.
Before == \E q : \E f \in q.files : /\ IsProject(q)
                                   /\ p = Broken(q, f)
                                   /\ report = Printed(q)

Conventional == \E q : /\ IsProject(q) /\ q.profile = "conventional"
                       /\ p = [q EXCEPT !.profile = "performance"]
                       /\ report = Printed(q)

Inv == /\ IsProject(p)
       /\ change = "read" => report = Printed(p)
       /\ change = "break" => Before
       /\ change = "profile" => Conventional

LEMMA InitInv == ASSUME Init PROVE Inv
  BY ProjectAssumption DEF Init, Inv

LEMMA NextInv == ASSUME Inv, [Next]_vars PROVE Inv'
<1> USE DEF Inv
<1>1. CASE RunDoctor  BY <1>1 DEF RunDoctor, Before, Conventional
<1>2. CASE RunRefused  BY <1>2 DEF RunRefused, Before, Conventional
<1>3. CASE WriteBaseline  BY <1>3 DEF WriteBaseline, Before, Conventional
<1>4. CASE Edit  BY <1>4, EditedIsProject DEF Edit
<1>5. CASE Break
  <2>1. PICK f \in p.files : p' = Broken(p, f)  BY <1>5 DEF Break
  <2>2. IsProject(p')  BY <2>1 DEF Broken, IsProject
  <2>3. CASE change = "read"
    <3>1. change' = "break" /\ report' = Printed(p)  BY <1>5, <2>3 DEF Break
    <3>2. Before'  BY <2>1, <3>1 DEF Before
    <3> QED  BY <2>2, <3>1, <3>2
  <2>4. CASE change # "read"
    <3>1. change' = "edit"  BY <1>5, <2>4 DEF Break
    <3> QED  BY <2>2, <3>1
  <2> QED  BY <2>3, <2>4
<1>6. CASE ChangeProfile
  <2>1. IsProject(p')  BY <1>6 DEF ChangeProfile, IsProject
  <2>2. change' \in {"profile", "edit"}  BY <1>6 DEF ChangeProfile
  <2>3. CASE change = "read"
    <3>1. Conventional'  BY <1>6, <2>3 DEF ChangeProfile, Conventional
    <3> QED  BY <2>1, <2>2, <3>1
  <2>4. CASE change # "read"
    <3>1. change' = "edit"  BY <1>6, <2>4 DEF ChangeProfile
    <3> QED  BY <2>1, <3>1
  <2> QED  BY <2>3, <2>4
<1>7. CASE Fix  BY <1>7, RemedyIsProject DEF Fix
<1>8. CASE UNCHANGED vars  BY <1>8 DEF vars, Before, Conventional
<1> QED  BY <1>1, <1>2, <1>3, <1>4, <1>5, <1>6, <1>7, <1>8 DEF Next

\* A behaviour is of doctor or of the map, and the map's steps leave doctor's alone.
LEMMA DoctorOrMap ==
    ASSUME [AnalysisNext]_<<drawn, vars, map>>
    PROVE  [Next]_vars
  BY DEF AnalysisNext, Judged, Mapped

LEMMA DoctorInvariance == AnalysisSpec => []Inv
<1>1. AnalysisInit => Inv  BY InitInv DEF AnalysisInit
<1>2. Inv /\ [AnalysisNext]_<<drawn, vars, map>> => Inv'
  BY DoctorOrMap, NextInv
<1> QED  BY <1>1, <1>2, PTL DEF AnalysisSpec

\* "A rule that concludes something from the ABSENCE of a declaration has to ask this
\* first" (doctor.go:187): a run after one more file stopped parsing finds nothing, by
\* any rule, that the run before had not found, but that the file does not parse and
\* what the rules named in Unasked find, which do not ask; a finding about several
\* files may be placed on another of them.
THEOREM AbsenceIsAskedAlways == AnalysisSpec => AbsenceIsAsked
<1> DEFINE Excused(x) == \/ x.rule \in {"file-does-not-parse"} \cup Unasked
                         \/ x.rule \in Relocated /\ \E y \in report : y.rule = x.rule
<1>1. ASSUME Inv, change = "break", RunDoctor, NEW x \in report' \ report
      PROVE  Excused(x)
  <2>1. PICK q : \E f \in q.files : IsProject(q) /\ p = Broken(q, f) /\ report = Printed(q)
    BY <1>1 DEF Inv, Before
  <2>2. PICK f \in q.files : IsProject(q) /\ p = Broken(q, f) /\ report = Printed(q)
    BY <2>1
  <2>3. PICK y \in Findings(p) : x = Placed(p, y)
    BY <1>1 DEF RunDoctor, Printed
  <2>4. p.path = q.path
    BY <2>2, BrokenFields
  <2>5. \A z : Placed(p, z) = Placed(q, z)
    BY <2>4 DEF Placed, FileOf
  <2>6. \A z : Placed(q, z).rule = z.rule
    BY DEF Placed
  <2>7. y \notin Findings(q)
    BY <1>1, <2>2, <2>3, <2>5 DEF Printed
  <2>8. y.rule \in {"file-does-not-parse"} \cup Unasked \/ Moves(y, Findings(q))
    BY <2>2, <2>3, <2>7, BreakFindsLittle
  <2>9. x.rule = y.rule
    BY <2>3, <2>5, <2>6
  <2>10. CASE Moves(y, Findings(q))
    <3>1. PICK z \in Findings(q) : z.rule = y.rule
      BY <2>10 DEF Moves
    <3>2. Placed(q, z) \in report /\ Placed(q, z).rule = x.rule
      BY <2>2, <2>6, <2>9, <3>1 DEF Printed
    <3> QED  BY <2>9, <2>10, <3>2 DEF Moves
  <2> QED  BY <2>8, <2>9, <2>10
<1>2. Inv => [change = "break" /\ RunDoctor => \A x \in report' \ report : Excused(x)]_vars
  BY <1>1
<1> QED  BY <1>2, DoctorInvariance, PTL DEF AnalysisSpec, AbsenceIsAsked

\* doctor.go, Run: every rule but three runs on both profiles, so a project that is
\* checked against the other profile has the findings it had, and perhaps more.
THEOREM ProfileOnlyAddsAlways == AnalysisSpec => ProfileOnlyAdds
<1>1. Inv /\ [AnalysisNext]_<<drawn, vars, map>>
         => [change = "profile" /\ RunDoctor => report \subseteq report']_vars
  <2> SUFFICES ASSUME Inv, change = "profile", RunDoctor PROVE report \subseteq report'
    OBVIOUS
  <2>1. PICK q : /\ IsProject(q) /\ q.profile = "conventional"
                 /\ p = [q EXCEPT !.profile = "performance"] /\ report = Printed(q)
    BY DEF Inv, Conventional
  <2>2. report' = Printed(p)  BY DEF RunDoctor
  <2> QED  BY <2>1, <2>2, ProfileAddsOnly
<1> QED  BY <1>1, DoctorInvariance, PTL DEF AnalysisSpec, ProfileOnlyAdds

-----------------------------------------------------------------------------
(* Two analyses of one tree.                                                *)

\* What stands in a file stands at a line of it.
Lined(t) == \A f \in t.files : \A op : \A x \in Map!Uses(f, op) : x.u.line \in Nat

LEMMA LeastOfNumbers ==
    ASSUME NEW T, T \subseteq Nat, T # {}
    PROVE  \E m \in T : \A n \in T : m <= n
<1>1. PICK m \in T : \A n \in T : ~ (<<n, m>> \in OpToRel(<, Nat))
  BY WFMin, NatLessThanWellFounded
<1> SUFFICES ASSUME NEW n \in T PROVE m <= n
  OBVIOUS
<1>2. ~ (<<n, m>> \in OpToRel(<, Nat)) /\ n \in Nat /\ m \in Nat
  BY <1>1
<1>3. <<n, m>> \in Nat \X Nat /\ <<n, m>>[1] = n /\ <<n, m>>[2] = m
  BY <1>2
<1>4. ~(n < m)
  BY <1>2, <1>3, Zenon DEF OpToRel
<1>5. n \in Nat /\ m \in Nat
  BY <1>2
<1> QED BY <1>4, <1>5

\* A walk meets the files one after another, and ends.
Bounded(t, v) == \E n \in Nat : \A f \in t.files : v[f.rel] \in 0 .. n

\* It has a first and a last one of any of them.
LEMMA FirstWalked ==
    ASSUME NEW t, NEW v, Bounded(t, v), NEW S, S \subseteq t.files, S # {}
    PROVE  (CHOOSE m \in S : \A n \in S : v[m.rel] <= v[n.rel]) \in S
<1> DEFINE T == {v[f.rel] : f \in S}
<1>1. T \subseteq Nat /\ T # {}
  BY DEF Bounded
<1>2. PICK m \in T : \A n \in T : m <= n
  BY <1>1, LeastOfNumbers
<1>3. \E f \in S : \A g \in S : v[f.rel] <= v[g.rel]
  BY <1>2
<1> QED BY <1>3

LEMMA LastWalked ==
    ASSUME NEW t, NEW v, Bounded(t, v), NEW S, S \subseteq t.files, S # {}
    PROVE  Map!LastFile(S, v) \in S
<1>1. PICK n \in Nat : \A f \in t.files : v[f.rel] \in 0 .. n
  BY DEF Bounded
<1> DEFINE T == {n - v[f.rel] : f \in S}
<1>2. \A f \in S : v[f.rel] \in Nat /\ n - v[f.rel] \in Nat
  BY <1>1
<1>3. T \subseteq Nat /\ T # {}
  BY <1>2
<1>4. PICK m \in T : \A k \in T : m <= k
  BY <1>3, LeastOfNumbers
<1>5. PICK f \in S : m = n - v[f.rel]
  BY <1>4
<1>6. \A g \in S : n - v[f.rel] <= n - v[g.rel]
  BY <1>4, <1>5
<1>7. \A g \in S : v[g.rel] <= v[f.rel]
  BY <1>2, <1>6
<1> QED BY <1>7 DEF Map!LastFile

\* A listener of a name listens to an event that has it: the same one in both
\* analyses, or one that shares the name.
LEMMA EventsOfAName ==
    ASSUME NEW t, NEW v, NEW w, Bounded(t, v), Bounded(t, w), NEW name,
           NEW id \in Map!EventNamed(t, name, v)
    PROVE  \/ id \in Map!EventNamed(t, name, w)
           \/ \E f \in Map!Namesakes(t) : id = Map!FileId(f)
<1> DEFINE those == {f \in Map!Artifacts(t) : Map!Kind(f) = "event" /\ \E x \in Map!Uses(f, "event-name") : x.u.name = name}
<1>1. those # {} /\ id = Map!FileId(Map!LastFile(those, v)) /\ Map!EventNamed(t, name, w) = {Map!FileId(Map!LastFile(those, w))}
  BY DEF Map!EventNamed
<1>2. PICK e \in those : TRUE
  BY <1>1
<1>3. CASE \A f \in those : f = e
  <2>1. those = {e}
    BY <1>2, <1>3
  <2>2. v[e.rel] <= v[e.rel] /\ w[e.rel] <= w[e.rel]
    BY <1>2 DEF Bounded, Map!Artifacts
  <2> HIDE DEF those
  <2>3. Map!LastFile(those, v) = e /\ Map!LastFile(those, w) = e
    BY <2>1, <2>2 DEF Map!LastFile
  <2> QED BY <1>1, <2>3
<1>4. CASE \E g \in those : g # e
  <2>1. \A f \in those : f \in Map!Namesakes(t)
    <3> SUFFICES ASSUME NEW f \in those PROVE f \in Map!Namesakes(t)
      OBVIOUS
    <3>1. PICK g \in those : g # f
      BY <1>4, <1>2
    <3>2. name \in Map!Named(f, "event-name") /\ name \in Map!Named(g, "event-name")
      BY DEF Map!Named
    <3> QED BY <3>1, <3>2 DEF Map!Namesakes
  <2>2. Map!LastFile(those, v) \in those
    BY <1>1, LastWalked DEF Map!Artifacts
  <2> QED BY <1>1, <2>1, <2>2
<1> QED BY <1>3, <1>4

LEMMA SameListeners ==
    ASSUME NEW t, NEW v, NEW w, Bounded(t, v), Bounded(t, w), NEW e \in Map!ListenEdges(t, v)
    PROVE  \/ e \in Map!ListenEdges(t, w)
           \/ e.kind = "listens-to" /\ \E f \in Map!Namesakes(t) : e.to = Map!FileId(f)
<1> DEFINE Edge(f, x, id) == [from |-> Map!OwnerOf(t, f, x.d), to |-> id, kind |-> "listens-to",
                              at |-> <<f.rank, x.u.line>>]
           Listeners == {g \in Map!Artifacts(t) : ~Map!Generated(g) /\ Map!Kind(g) = "listener"}
<1>1. PICK f \in Listeners : \E x \in Map!Uses(f, "string") : \E id \in Map!EventNamed(t, x.u.name, v) : e = Edge(f, x, id)
  BY DEF Map!ListenEdges
<1>2. PICK x \in Map!Uses(f, "string") : \E id \in Map!EventNamed(t, x.u.name, v) : e = Edge(f, x, id)
  BY <1>1
<1>3. PICK id \in Map!EventNamed(t, x.u.name, v) : e = Edge(f, x, id)
  BY <1>2
<1>4. CASE id \in Map!EventNamed(t, x.u.name, w)
  <2> DEFINE From(g, y) == {Edge(g, y, i) : i \in Map!EventNamed(t, y.u.name, w)}
             Of(g) == UNION {From(g, y) : y \in Map!Uses(g, "string")}
  <2>1. Map!ListenEdges(t, w) = UNION {Of(g) : g \in Listeners}
    BY DEF Map!ListenEdges
  <2>2. e \in From(f, x)
    BY <1>3, <1>4
  <2>3. e \in Of(f)
    <3> HIDE DEF From
    <3> QED BY <1>2, <2>2
  <2> HIDE DEF Of
  <2> QED BY <1>1, <2>1, <2>3
<1>5. CASE \E g \in Map!Namesakes(t) : id = Map!FileId(g)
  BY <1>3, <1>5
<1> QED BY <1>3, <1>4, <1>5, EventsOfAName

\* A migration is in one feature, unless its table has models of two.
LEMMA OneMigrationFeature ==
    ASSUME NEW t, NEW v, NEW w, Bounded(t, v), Bounded(t, w), Lined(t),
           NEW f \in Map!Artifacts(t), Map!Kind(f) = "migration", f \notin Map!Disputed(t)
    PROVE  Map!MigrationFeature(t, f, v) = Map!MigrationFeature(t, f, w)
<1> DEFINE owned == {x \in Map!Uses(f, "table") : \E m \in Map!ModelsOf(t, x.u.name) : Map!FeatureOf(t, m) # Map!NoNode}
           first == CHOOSE x \in owned : \A y \in owned : x.u.line <= y.u.line
           models == {m \in Map!ModelsOf(t, first.u.name) : Map!FeatureOf(t, m) # Map!NoNode}
           lines == {x.u.line : x \in owned}
           walked(order) == CHOOSE m \in models : \A n \in models : order[m.rel] <= order[n.rel]
<1>1. CASE owned = {}
  BY <1>1 DEF Map!MigrationFeature
<1>2. CASE owned # {}
  <2>1. lines \subseteq Nat /\ lines # {}
    BY <1>2 DEF Lined, Map!Artifacts
  <2>2. PICK l \in lines : \A k \in lines : l <= k
    BY <2>1, LeastOfNumbers
  <2>3. \E x \in owned : \A y \in owned : x.u.line <= y.u.line
    BY <2>2
  <2>4. first \in owned
    BY <2>3
  <2>5. models # {} /\ models \subseteq t.files
    BY <2>4 DEF Map!ModelsOf, Map!Artifacts
  <2>6. \A m, n \in models : Map!FeatureOf(t, m) = Map!FeatureOf(t, n)
    BY <2>4 DEF Map!Disputed
  <2>7. Map!MigrationFeature(t, f, v) = Map!FeatureOf(t, walked(v)) /\ Map!MigrationFeature(t, f, w) = Map!FeatureOf(t, walked(w))
    BY <1>2 DEF Map!MigrationFeature
  <2> HIDE DEF models
  <2>8. walked(v) \in models /\ walked(w) \in models
    BY <2>5, FirstWalked
  <2> HIDE DEF walked
  <2> QED BY <2>6, <2>7, <2>8
<1> QED BY <1>1, <1>2

\* Where the walk decides: the ends of an edge, and what is shown of a file.
Chosen(t, e) == \/ e.kind = "listens-to" /\ \E f \in Map!Namesakes(t) : e.to = Map!FileId(f)
                \/ e.kind = "contains" /\ \E f \in Map!Disputed(t) : e.to = Map!FileId(f)

LEMMA SameEdgesWalked ==
    ASSUME NEW t, NEW v, NEW w, Bounded(t, v), Bounded(t, w), Lined(t), NEW e \in Map!Edges(t, v)
    PROVE  e \in Map!Edges(t, w) \/ Chosen(t, e)
<1>1. CASE e \in Map!ListenEdges(t, v)
  BY <1>1, SameListeners DEF Chosen, Map!Edges
<1>2. CASE e \in Map!FilesHeld(t, v)
  <2>1. PICK f \in Map!Artifacts(t) : e \in Map!Containing(Map!FeatureOfNode(t, f, v), Map!FileId(f))
    BY <1>2 DEF Map!FilesHeld
  <2>2. CASE Map!FeatureOfNode(t, f, v) = Map!FeatureOfNode(t, f, w)
    BY <2>1, <2>2 DEF Map!FilesHeld, Map!ContainsEdges, Map!Edges
  <2>3. CASE Map!Kind(f) = "migration" /\ f \in Map!Disputed(t)
    BY <2>1, <2>3 DEF Chosen, Map!Containing
  <2> QED BY <2>2, <2>3, OneMigrationFeature DEF Map!FeatureOfNode, Map!Disputed
<1> QED BY <1>1, <1>2 DEF Map!Edges, Map!ContainsEdges

\* An edge has the four fields.
IsEdge(e) == e = [from |-> e.from, to |-> e.to, kind |-> e.kind, at |-> e.at]

LEMMA EdgesAreEdges ==
    ASSUME NEW t, NEW order, NEW e \in Map!Edges(t, order)
    PROVE  IsEdge(e)
<1>1. CASE e \in Map!ReferenceEdges(t)
  <2>1. \E f, d, u : e \in Map!Reference(t, f, d, u)
    BY <1>1 DEF Map!ReferenceEdges
  <2>2. PICK f, d, u : e \in Map!Reference(t, f, d, u)
    BY <2>1
  <2> HIDE DEF Map!None
  <2> QED BY <2>2 DEF Map!Reference, IsEdge
<1>2. CASE e \in Map!RenderEdges(t)
  BY <1>2 DEF Map!RenderEdges, IsEdge
<1>3. CASE e \in Map!ViewEdges(t)
  BY <1>3 DEF Map!ViewEdges, IsEdge
<1>4. CASE e \in Map!ListenEdges(t, order)
  BY <1>4 DEF Map!ListenEdges, IsEdge
<1>5. CASE e \in Map!TableEdges(t)
  BY <1>5 DEF Map!TableEdges, IsEdge
<1>6. CASE e \in Map!ContainsEdges(t, order)
  <2>1. \E from, to : e \in Map!Containing(from, to)
    <3>1. CASE e \in Map!FilesHeld(t, order)
      BY <3>1 DEF Map!FilesHeld
    <3>2. CASE e \in Map!ViewsHeld(t)
      BY <3>2 DEF Map!ViewsHeld
    <3>3. CASE e \in Map!ActionsHeld(t)
      BY <3>3 DEF Map!ActionsHeld, Map!HoldingAction
    <3>4. CASE \E r \in Map!Routes(t) : e \in Map!HoldingRoute(t, r)
      BY <3>4 DEF Map!HoldingRoute
    <3> QED BY <1>6, <3>1, <3>2, <3>3, <3>4 DEF Map!ContainsEdges
  <2> QED BY <2>1 DEF Map!Containing, IsEdge
<1>7. CASE e \in Map!RouteEdges(t)
  BY <1>7 DEF Map!RouteEdges, IsEdge
<1> QED BY <1>1, <1>2, <1>3, <1>4, <1>5, <1>6, <1>7 DEF Map!Edges

LEMMA SameDrawnWalked ==
    ASSUME NEW t, NEW v, NEW w, Bounded(t, v), Bounded(t, w), Lined(t), NEW d \in Map!Drawn(t, v)
    PROVE  d \in Map!Drawn(t, w) \/ Chosen(t, d)
<1> DEFINE places(order, e) == {x.at : x \in {y \in Map!Edges(t, order) :
                                              y.from = e.from /\ y.to = e.to /\ y.kind = e.kind}}
<1>1. PICK e \in Map!Edges(t, v) : d = [e EXCEPT !.at = Map!Earliest(places(v, e))]
  BY DEF Map!Drawn
<1>2. CASE Chosen(t, e)
  <2>1. d.kind = e.kind /\ d.to = e.to
    BY <1>1, EdgesAreEdges DEF IsEdge
  <2> QED BY <1>2, <2>1 DEF Chosen
<1>3. CASE ~Chosen(t, e)
  <2>1. \A y : y.to = e.to /\ y.kind = e.kind => ~Chosen(t, y)
    BY <1>3 DEF Chosen
  <2>2. e \in Map!Edges(t, w)
    BY <1>3, SameEdgesWalked
  <2>3. \A y : y.to = e.to /\ y.kind = e.kind => (y \in Map!Edges(t, v) <=> y \in Map!Edges(t, w))
    BY <2>1, SameEdgesWalked
  <2>4. places(v, e) = places(w, e)
    BY <2>3
  <2> QED BY <1>1, <2>2, <2>4 DEF Map!Drawn
<1> QED BY <1>2, <1>3

\* Two analyses of one tree differ where the walk decides and nowhere else.
LEMMA SameMap ==
    ASSUME NEW t, NEW v, NEW w, Bounded(t, v), Bounded(t, w), Lined(t)
    PROVE  /\ Map!BuildProjectMap(t, v).nodes = Map!BuildProjectMap(t, w).nodes
           /\ \A x \in Map!BuildProjectMap(t, v).shown :
                 \/ x \in Map!BuildProjectMap(t, w).shown
                 \/ \E f \in Map!Disputed(t) : x[1] = Map!FileId(f)
           /\ \A e \in Map!BuildProjectMap(t, v).edges : e \in Map!BuildProjectMap(t, w).edges \/ Chosen(t, e)
<1>1. \A e \in Map!Drawn(t, v) : e \in Map!Drawn(t, w) \/ Chosen(t, e)
  BY SameDrawnWalked
<1>2. ASSUME NEW x \in Map!Shown(t, v)
      PROVE  x \in Map!Shown(t, w) \/ \E f \in Map!Disputed(t) : x[1] = Map!FileId(f)
  <2>1. CASE x \in {<<Map!FeatureId(u), Map!FeaturePlace(t, u)>> : u \in Map!Features(t)}
    BY <2>1 DEF Map!Shown
  <2>2. ASSUME NEW f \in Map!Artifacts(t),
               x = <<Map!FileId(f), Map!Place(f), Map!Variant(t, f), Map!FeatureOfNode(t, f, v), Map!Generated(f)>>
        PROVE  x \in Map!Shown(t, w) \/ \E g \in Map!Disputed(t) : x[1] = Map!FileId(g)
    <3>1. CASE Map!FeatureOfNode(t, f, v) = Map!FeatureOfNode(t, f, w)
      BY <2>2, <3>1 DEF Map!Shown
    <3>2. CASE f \in Map!Disputed(t)
      BY <2>2, <3>2
    <3> QED BY <3>1, <3>2, OneMigrationFeature DEF Map!FeatureOfNode
  <2> QED BY <2>1, <2>2 DEF Map!Shown
<1> QED BY <1>1, <1>2 DEF Map!BuildProjectMap
-----------------------------------------------------------------------------
(* Two trees with the same code: one of them has a test more.              *)

SameCode(s, t) ==
    /\ Map!Code(s) = Map!Code(t)
    /\ s.views = t.views /\ s.findings = t.findings /\ s.own = t.own /\ s.manifests = t.manifests

LEMMA TestKind ==
    ASSUME NEW f
    PROVE  /\ f.test => Map!Kind(f) \in {"test", Map!None}
           /\ ~f.test => Map!Kind(f) # "test"
<1>1. ASSUME f.test PROVE Map!Kind(f) \in {"test", Map!None}
  BY <1>1 DEF Map!Kind, Map!Anatomy, Map!None
<1>2. ASSUME ~f.test PROVE Map!Kind(f) # "test"
  <2>1. \A c : Map!ContractKind(c) # "test"
    BY DEF Map!ContractKind, Map!None
  <2>2. Map!AssertedKind(f) # "test"
    BY <2>1 DEF Map!AssertedKind, Map!None
  <2>3. Map!Anatomy(f) # "test"
    BY <1>2, <2>2 DEF Map!Anatomy, Map!None
  <2>4. Map!PlaceKind(f) # "test"
    BY DEF Map!PlaceKind, Map!KindOfCategory, Map!KindOfPlace, Map!None
  <2> QED BY <2>3, <2>4 DEF Map!Kind, Map!None
<1> QED BY <1>1, <1>2

LEMMA SameArtifacts ==
    ASSUME NEW s, NEW t, SameCode(s, t), NEW f, ~f.test
    PROVE  f \in Map!Artifacts(s) <=> f \in Map!Artifacts(t)
<1>1. f \in s.files <=> f \in Map!Code(s)
  BY DEF Map!Code
<1>2. f \in t.files <=> f \in Map!Code(t)
  BY DEF Map!Code
<1> QED BY <1>1, <1>2 DEF SameCode, Map!Artifacts

LEMMA SameFeatures ==
    ASSUME NEW s, NEW t, SameCode(s, t)
    PROVE  Map!Features(s) = Map!Features(t)
<1>1. \A f : Map!Opens(f) => ~f.test
  BY TestKind DEF Map!Opens, Map!FeatureOpeners, Map!None
<1> QED BY <1>1, SameArtifacts DEF Map!Features

LEMMA SameFeatureOf ==
    ASSUME NEW s, NEW t, SameCode(s, t), NEW f, ~f.test
    PROVE  Map!FeatureOf(s, f) = Map!FeatureOf(t, f)
<1>1. Map!Features(s) = Map!Features(t) /\ (f \in Map!Artifacts(s) <=> f \in Map!Artifacts(t))
  BY SameFeatures, SameArtifacts
<1>2. Map!Held(s, Map!FeatureWords(f)) = Map!Held(t, Map!FeatureWords(f))
  BY <1>1 DEF Map!Held
<1>3. (CHOOSE i \in Map!Held(s, Map!FeatureWords(f)) : \A j \in Map!Held(s, Map!FeatureWords(f)) : i <= j)
      = (CHOOSE i \in Map!Held(t, Map!FeatureWords(f)) : \A j \in Map!Held(t, Map!FeatureWords(f)) : i <= j)
  BY <1>2
<1> QED BY <1>1, <1>2, <1>3 DEF Map!FeatureOf

LEMMA SameFeaturePlace ==
    ASSUME NEW s, NEW t, SameCode(s, t), NEW words
    PROVE  Map!FeaturePlace(s, words) = Map!FeaturePlace(t, words)
<1>1. \A f : Map!Opens(f) => ~f.test
  BY TestKind DEF Map!Opens, Map!FeatureOpeners, Map!None
<1>2. {f \in Map!Artifacts(s) : Map!Opens(f) /\ Map!FeatureWords(f) = words} = {f \in Map!Artifacts(t) : Map!Opens(f) /\ Map!FeatureWords(f) = words}
  BY <1>1, SameArtifacts
<1> QED BY <1>2 DEF Map!FeaturePlace

\* Only code has actions.
LEMMA SameAction ==
    ASSUME NEW s, NEW t, SameCode(s, t), NEW dir, NEW type, NEW name
    PROVE  Map!Action(s, dir, type, name) = Map!Action(t, dir, type, name)
<1>1. \A f, d : d \in Map!ActionsOf(f) => ~f.test
  BY TestKind DEF Map!ActionsOf, Map!IsController, Map!None
<1>2. Map!Acting(s, dir, type, name) = Map!Acting(t, dir, type, name)
  BY <1>1, SameArtifacts DEF Map!Acting
<1> QED BY <1>2 DEF Map!Action

LEMMA SameOwner ==
    ASSUME NEW s, NEW t, SameCode(s, t), NEW f, ~f.test, NEW d
    PROVE  Map!OwnerOf(s, f, d) = Map!OwnerOf(t, f, d)
BY SameAction DEF Map!OwnerOf

LEMMA CodeOwns ==
    ASSUME NEW t, NEW f, ~f.test, NEW d
    PROVE  Map!OwnerKind(t, f, d) # "test"
<1>1. CASE d.action /\ Map!Action(t, f.dir, d.recv, d.name) # Map!NoNode
  <2>1. \E g : Map!Action(t, f.dir, d.recv, d.name) = <<"action", g, d.recv, d.name>>
    BY <1>1 DEF Map!Action, Map!ActionId
  <2> QED BY <1>1, <2>1 DEF Map!OwnerKind, Map!OwnerOf
<1>2. CASE ~(d.action /\ Map!Action(t, f.dir, d.recv, d.name) # Map!NoNode)
  BY <1>2, TestKind DEF Map!OwnerKind, Map!OwnerOf, Map!FileId
<1> QED BY <1>1, <1>2

LEMMA TestsOwnThemselves ==
    ASSUME NEW t, Map!TestsBesideCode(t), NEW f \in Map!Artifacts(t), f.test, NEW d \in Map!ToSet(f.decls)
    PROVE  Map!OwnerOf(t, f, d) = <<"test", f.rel>>
<1>1. Map!Kind(f) = "test"
  BY TestKind DEF Map!Artifacts
<1>2. Map!Action(t, f.dir, d.recv, d.name) = Map!NoNode
  BY DEF Map!TestsBesideCode, Map!Artifacts
<1> QED BY <1>1, <1>2 DEF Map!OwnerOf, Map!FileId

Ranked(t) == \E n \in Nat : \A f \in t.files : f.rank \in 0 .. n

LEMMA LastIsOfThem ==
    ASSUME NEW t, Ranked(t), NEW S, S \subseteq t.files, S # {}
    PROVE  (CHOOSE f \in S : \A g \in S : g.rank <= f.rank) \in S
<1>1. PICK n \in Nat : \A f \in t.files : f.rank \in 0 .. n
  BY DEF Ranked
<1> DEFINE T == {n - f.rank : f \in S}
<1>2. \A f \in S : f.rank \in Nat /\ n - f.rank \in Nat
  BY <1>1
<1>3. T \subseteq Nat /\ T # {}
  BY <1>2
<1>4. PICK m \in T : \A k \in T : m <= k
  BY <1>3, LeastOfNumbers
<1>5. PICK f \in S : m = n - f.rank
  BY <1>4
<1>6. \A g \in S : n - f.rank <= n - g.rank
  BY <1>4, <1>5
<1>7. \A g \in S : g.rank <= f.rank
  BY <1>2, <1>6
<1> QED BY <1>7

LEMMA FirstIsOfThem ==
    ASSUME NEW t, Ranked(t), NEW S, S \subseteq t.files, S # {}
    PROVE  Map!FirstFile(S) \in S
<1> DEFINE T == {f.rank : f \in S}
<1>1. T \subseteq Nat /\ T # {}
  BY DEF Ranked
<1>2. PICK m \in T : \A n \in T : m <= n
  BY <1>1, LeastOfNumbers
<1>3. \E f \in S : \A g \in S : f.rank <= g.rank
  BY <1>2
<1> QED BY <1>3 DEF Map!FirstFile

\* The file that declares a name is of the code in both, or a test in both.
LEMMA DeclaringCode ==
    ASSUME NEW s, NEW t, SameCode(s, t), Ranked(s), Ranked(t), NEW dir, NEW name
    PROVE  \/ Map!Declared(s, dir, name) = Map!Declared(t, dir, name) /\ \A g \in Map!Declared(t, dir, name) : ~g.test
           \/ \A g \in Map!Declared(s, dir, name) \cup Map!Declared(t, dir, name) : g.test
<1> DEFINE those(u) == {f \in u.files : f.dir = dir /\ \E i \in DOMAIN f.decls : f.decls[i].name = name /\ f.decls[i].recv = Map!None}
           code(u) == {f \in those(u) : ~f.test}
<1>1. code(s) = code(t)
  BY DEF SameCode, Map!Code
<1>2. CASE code(t) # {}
  <2>1. Map!Declared(s, dir, name) = {Map!FirstFile(code(t))} /\ Map!Declared(t, dir, name) = {Map!FirstFile(code(t))}
    BY <1>1, <1>2 DEF Map!Declared
  <2>2. Map!FirstFile(code(t)) \in code(t)
    BY <1>2, FirstIsOfThem
  <2> QED BY <2>1, <2>2
<1>3. ASSUME NEW u, Ranked(u), code(u) = {}, NEW g \in Map!Declared(u, dir, name)
      PROVE  g.test
  <2>1. those(u) # {} /\ g = Map!FirstFile(those(u))
    BY <1>3 DEF Map!Declared
  <2>2. g \in those(u)
    BY <1>3, <2>1, FirstIsOfThem
  <2> QED BY <1>3, <2>2
<1>4. CASE code(t) = {}
  BY <1>1, <1>3, <1>4
<1> QED BY <1>2, <1>4

LEMMA DeclaredDeclares ==
    ASSUME NEW t, Ranked(t), NEW dir, NEW name, NEW g \in Map!Declared(t, dir, name)
    PROVE  g \in t.files /\ g.dir = dir /\ \E i \in DOMAIN g.decls : g.decls[i].name = name /\ g.decls[i].recv = Map!None
<1> DEFINE those == {f \in t.files : f.dir = dir /\ \E i \in DOMAIN f.decls : f.decls[i].name = name /\ f.decls[i].recv = Map!None}
           code == {f \in those : ~f.test}
<1>1. \E S \in {those, code} : S # {} /\ g = Map!FirstFile(S)
  BY DEF Map!Declared
<1>2. g \in those
  BY <1>1, FirstIsOfThem
<1> QED BY <1>2

LEMMA SameExpressionType ==
    ASSUME NEW s, NEW t, SameCode(s, t), Ranked(s), Ranked(t), Map!TestsBesideCode(s), Map!TestsBesideCode(t),
           NEW f \in Map!Code(t), NEW x \in Map!Uses(f, "route")
    PROVE  Map!ExpressionType(s, f, x.u.controller) = Map!ExpressionType(t, f, x.u.controller)
<1> DEFINE e == x.u.controller
<1>1. CASE e.form = "type"
  BY <1>1 DEF Map!ExpressionType
<1>2. CASE e.form # "type"
  <2>1. ASSUME NEW u, u = s \/ u = t, NEW g \in Map!Declared(u, f.dir, e.of)
        PROVE  ~g.test
    <3>1. g \in u.files /\ g.dir = f.dir /\ \E i \in DOMAIN g.decls : g.decls[i].name = e.of /\ g.decls[i].recv = Map!None
      BY <2>1, DeclaredDeclares
    <3>2. f \in Map!Code(u)
      BY <2>1 DEF SameCode
    <3>3. Map!TestsBesideCode(u)
      BY <2>1
    <3> QED BY <1>2, <3>1, <3>2, <3>3 DEF Map!TestsBesideCode
  <2>2. Map!Declared(s, f.dir, e.of) = Map!Declared(t, f.dir, e.of)
    <3>1. \A g \in Map!Declared(s, f.dir, e.of) \cup Map!Declared(t, f.dir, e.of) : ~g.test
      BY <2>1
    <3> QED BY <3>1, DeclaringCode
  <2> QED BY <2>2 DEF Map!ExpressionType
<1> QED BY <1>1, <1>2

LEMMA SameControllerFiles ==
    ASSUME NEW s, NEW t, SameCode(s, t), NEW type
    PROVE  Map!ControllerFiles(s, type) = Map!ControllerFiles(t, type)
<1> DEFINE those(u) == {f \in Map!Artifacts(u) : Map!IsController(f) /\ \E i \in DOMAIN f.decls :
                            f.decls[i].name = type /\ f.decls[i].recv = Map!None}
<1>1. \A f : Map!IsController(f) => ~f.test
  BY TestKind DEF Map!IsController, Map!None
<1>2. those(s) = those(t)
  BY <1>1, SameArtifacts
<1> QED BY <1>2 DEF Map!ControllerFiles

LEMMA SameRegistrations ==
    ASSUME NEW s, NEW t, SameCode(s, t)
    PROVE  Map!Registrations(s) = Map!Registrations(t)
<1>1. {g \in s.files : Map!IsRouteFile(g)} = {g \in t.files : Map!IsRouteFile(g)}
  BY DEF SameCode, Map!Code, Map!IsRouteFile
<1> QED BY <1>1 DEF Map!Registrations

LEMMA SameRoutesOf ==
    ASSUME NEW s, NEW t, SameCode(s, t), Ranked(s), Ranked(t), Map!TestsBesideCode(s), Map!TestsBesideCode(t),
           NEW g \in Map!Registrations(t)
    PROVE  Map!RoutesOf(s, g.f, g.r) = Map!RoutesOf(t, g.f, g.r)
<1>1. g.f \in Map!Code(t) /\ \E x \in Map!Uses(g.f, "route") : g.r = x.u
  BY DEF Map!Registrations, Map!IsRouteFile, Map!Code
<1>2. Map!ExpressionType(s, g.f, g.r.controller) = Map!ExpressionType(t, g.f, g.r.controller)
  BY <1>1, SameExpressionType
<1>3. \A name : Map!HandlerOf(s, g.f, g.r, name) = Map!HandlerOf(t, g.f, g.r, name)
  BY <1>2, SameControllerFiles, SameAction DEF Map!HandlerOf
<1>4. \A http, name, pattern : Map!RouteTo(s, g.f, g.r, http, name, pattern) = Map!RouteTo(t, g.f, g.r, http, name, pattern)
  BY <1>3 DEF Map!RouteTo
<1>5. {b \in Map!ResourceActions : Map!HandlerOf(s, g.f, g.r, b[1]) # Map!NoNode}
      = {b \in Map!ResourceActions : Map!HandlerOf(t, g.f, g.r, b[1]) # Map!NoNode}
  BY <1>3
<1>6. {b \in Map!SingletonActions : Map!HandlerOf(s, g.f, g.r, b[1]) # Map!NoNode}
      = {b \in Map!SingletonActions : Map!HandlerOf(t, g.f, g.r, b[1]) # Map!NoNode}
  BY <1>3
<1>7. CASE g.r.method = "Resource"
  <2> DEFINE route(u, a) == Map!RouteTo(u, g.f, g.r, a[2], a[1], Map!ResourcePattern(g.r, a))
             handled(u) == {b \in Map!ResourceActions : Map!HandlerOf(u, g.f, g.r, b[1]) # Map!NoNode}
  <2>1. \A u : Map!RoutesOf(u, g.f, g.r) = {route(u, a) : a \in handled(u)}
    BY <1>7 DEF Map!RoutesOf
  <2>2. handled(s) = handled(t) /\ \A a : route(s, a) = route(t, a)
    BY <1>4, <1>5
  <2> HIDE DEF route, handled
  <2> QED BY <2>1, <2>2
<1>8. CASE g.r.method = "Singleton"
  <2> DEFINE route(u, a) == Map!RouteTo(u, g.f, g.r, a[2], a[1], Map!SingletonPattern(g.r, a))
             handled(u) == {b \in Map!SingletonActions : Map!HandlerOf(u, g.f, g.r, b[1]) # Map!NoNode}
  <2>1. \A u : Map!RoutesOf(u, g.f, g.r) = {route(u, a) : a \in handled(u)}
    BY <1>8 DEF Map!RoutesOf
  <2>2. handled(s) = handled(t) /\ \A a : route(s, a) = route(t, a)
    BY <1>4, <1>6
  <2> HIDE DEF route, handled
  <2> QED BY <2>1, <2>2
<1>9. CASE g.r.method \notin {"Resource", "Singleton"}
  BY <1>4, <1>9 DEF Map!RoutesOf
<1> QED BY <1>7, <1>8, <1>9

LEMMA SameRoutes ==
    ASSUME NEW s, NEW t, SameCode(s, t), Ranked(s), Ranked(t), Map!TestsBesideCode(s), Map!TestsBesideCode(t)
    PROVE  Map!Routes(s) = Map!Routes(t)
<1>1. [g \in Map!Registrations(s) |-> Map!RoutesOf(s, g.f, g.r)] = [g \in Map!Registrations(t) |-> Map!RoutesOf(t, g.f, g.r)]
  BY SameRegistrations, SameRoutesOf
<1> QED BY <1>1 DEF Map!Routes

-----------------------------------------------------------------------------
(* Edges between the same code are the same.                                *)

LEMMA TestsAreNotReferredTo ==
    ASSUME NEW target, Map!Kind(target) = "test", NEW from, NEW u
    PROVE  Map!ReferenceKind(from, target, u) = Map!None
BY DEF Map!ReferenceKind

LEMMA SameTargets ==
    ASSUME NEW s, NEW t, SameCode(s, t), Map!TestsBesideCode(s), Map!TestsBesideCode(t), NEW g \in Map!Code(t)
    PROVE  Map!TargetOf(s, g) = Map!TargetOf(t, g)
<1>1. g \in Map!Code(s) /\ g \in s.files /\ g \in t.files /\ ~g.test
  BY DEF SameCode, Map!Code
<1>2. g \in Map!Artifacts(s) <=> g \in Map!Artifacts(t)
  BY <1>1, SameArtifacts
<1>3. ASSUME NEW u, u = s \/ u = t, NEW f \in Map!Artifacts(u), f.rel = g.source
      PROVE  ~f.test
  <2>1. Map!TestsBesideCode(u) /\ g \in Map!Code(u) /\ f \in u.files
    BY <1>1, <1>3 DEF Map!Artifacts
  <2> QED BY <1>3, <2>1 DEF Map!TestsBesideCode
<1>4. {f \in Map!Artifacts(s) : f.rel = g.source} = {f \in Map!Artifacts(t) : f.rel = g.source}
  BY <1>3, SameArtifacts
<1> QED BY <1>2, <1>4 DEF Map!TargetOf

\* What a use in the code draws is drawn with any tests beside it.
LEMMA SameReference ==
    ASSUME NEW s, NEW t, SameCode(s, t), Ranked(s), Ranked(t), Map!TestsBesideCode(s), Map!TestsBesideCode(t),
           NEW f \in Map!Code(t), NEW d, NEW u
    PROVE  Map!Reference(s, f, d, u) \subseteq Map!Reference(t, f, d, u)
<1>1. ~f.test /\ Map!OwnerOf(s, f, d) = Map!OwnerOf(t, f, d) /\ Map!OwnerKind(s, f, d) = Map!OwnerKind(t, f, d)
      /\ Map!OwnerKind(s, f, d) # "test"
  BY SameOwner, CodeOwns DEF Map!Code, Map!OwnerKind
<1> SUFFICES ASSUME NEW e \in Map!Reference(s, f, d, u)
             PROVE  e \in Map!Reference(t, f, d, u)
  OBVIOUS
<1>2. PICK g, target :
        /\ g \in Map!Declaring(s, f, u) /\ target \in Map!TargetOf(s, g)
        /\ g # f /\ Map!FileId(target) # Map!OwnerOf(s, f, d)
        /\ g.dir # f.dir /\ Map!ReferenceKind(Map!OwnerKind(s, f, d), target, u) # Map!None
        /\ e = [from |-> Map!OwnerOf(s, f, d), to |-> Map!FileId(target), at |-> <<f.rank, u.line>>,
                kind |-> Map!ReferenceKind(Map!OwnerKind(s, f, d), target, u)]
  BY <1>1 DEF Map!Reference
<1>3. u.op = "ref" /\ g \in Map!Declared(s, u.dir, u.name)
  BY <1>1, <1>2 DEF Map!Declaring
<1>4. g \in s.files
  BY <1>3, DeclaredDeclares
<1>5. ~g.test
  <2>1. SUFFICES ASSUME g.test PROVE FALSE
    OBVIOUS
  <2>2. g.source = Map!None
    BY <1>4, <2>1 DEF Map!TestsBesideCode
  <2>3. target = g /\ g \in Map!Artifacts(s)
    BY <1>2, <2>2 DEF Map!TargetOf
  <2>4. Map!Kind(target) = "test"
    BY <2>1, <2>3, TestKind DEF Map!Artifacts
  <2> QED BY <1>2, <2>4, TestsAreNotReferredTo
<1>6. g \in Map!Declared(t, u.dir, u.name)
  BY <1>3, <1>5, DeclaringCode
<1>7. g \in Map!Code(t)
  BY <1>4, <1>5 DEF SameCode, Map!Code
<1>8. g \in Map!Declaring(t, f, u) /\ target \in Map!TargetOf(t, g)
  BY <1>2, <1>3, <1>6, <1>7, SameTargets DEF Map!Declaring
<1>9. e = [from |-> Map!OwnerOf(t, f, d), to |-> Map!FileId(target), at |-> <<f.rank, u.line>>,
           kind |-> Map!ReferenceKind(Map!OwnerKind(t, f, d), target, u)]
      /\ Map!FileId(target) # Map!OwnerOf(t, f, d) /\ Map!ReferenceKind(Map!OwnerKind(t, f, d), target, u) # Map!None
      /\ Map!OwnerKind(t, f, d) # "test"
  BY <1>1, <1>2
<1> HIDE DEF Map!None
<1> QED BY <1>2, <1>8, <1>9 DEF Map!Reference

LEMMA TestsAreDrawnTo ==
    ASSUME NEW t, Map!TestsBesideCode(t), NEW f \in Map!Artifacts(t), f.test, NEW d \in Map!ToSet(f.decls), NEW u,
           NEW e \in Map!Reference(t, f, d, u)
    PROVE  e.to[1] = "test"
<1>1. Map!OwnerOf(t, f, d) = <<"test", f.rel>>
  BY TestsOwnThemselves
<1>2. Map!OwnerKind(t, f, d) = "test"
  BY <1>1 DEF Map!OwnerKind
<1>3. e.to = Map!OwnerOf(t, f, d)
  BY <1>2 DEF Map!Reference
<1> QED BY <1>1, <1>3

LEMMA SameReferences ==
    ASSUME NEW s, NEW t, SameCode(s, t), Ranked(s), Ranked(t), Map!TestsBesideCode(s), Map!TestsBesideCode(t),
           NEW e \in Map!ReferenceEdges(s), e.to[1] # "test"
    PROVE  e \in Map!ReferenceEdges(t)
<1>1. PICK f, x :
        /\ f \in Map!Artifacts(s) /\ x \in Map!Uses(f, "ref") \cup Map!Uses(f, "bare")
        /\ ~Map!Generated(f) /\ e \in Map!Reference(s, f, x.d, x.u)
  BY DEF Map!ReferenceEdges
<1>2. x.d \in Map!ToSet(f.decls)
  BY <1>1 DEF Map!Uses
<1>3. ~f.test
  BY <1>1, <1>2, TestsAreDrawnTo
<1>4. f \in Map!Artifacts(t) /\ f \in Map!Code(t)
  BY <1>1, <1>3, SameArtifacts DEF Map!Code, Map!Artifacts
<1>5. e \in Map!Reference(t, f, x.d, x.u)
  BY <1>1, <1>4, SameReference
<1> QED BY <1>1, <1>4, <1>5 DEF Map!ReferenceEdges

LEMMA SameRenders ==
    ASSUME NEW s, NEW t, SameCode(s, t)
    PROVE  Map!RenderEdges(s) = Map!RenderEdges(t) /\ Map!ViewEdges(s) = Map!ViewEdges(t)
<1>1. \A name : Map!ViewNamed(s, name) = Map!ViewNamed(t, name)
  BY DEF SameCode, Map!ViewNamed
<1>2. {g \in Map!Artifacts(s) : ~Map!Generated(g) /\ Map!Kind(g) # "test"} = {g \in Map!Artifacts(t) : ~Map!Generated(g) /\ Map!Kind(g) # "test"}
  BY SameArtifacts, TestKind DEF Map!Artifacts
<1>3. \A f \in {g \in Map!Artifacts(t) : ~Map!Generated(g) /\ Map!Kind(g) # "test"} : \A d : Map!OwnerOf(s, f, d) = Map!OwnerOf(t, f, d)
  BY SameOwner, TestKind DEF Map!Artifacts
<1>4. Map!RenderEdges(s) = Map!RenderEdges(t)
  BY <1>1, <1>2, <1>3 DEF Map!RenderEdges
<1>5. Map!ViewEdges(s) = Map!ViewEdges(t)
  BY <1>1 DEF Map!ViewEdges, SameCode
<1> QED BY <1>4, <1>5

LEMMA SameListens ==
    ASSUME NEW s, NEW t, SameCode(s, t), NEW order
    PROVE  Map!ListenEdges(s, order) = Map!ListenEdges(t, order)
<1>1. \A f : Map!Kind(f) \in {"event", "listener"} => ~f.test
  BY TestKind DEF Map!None
<1>2. \A name : {f \in Map!Artifacts(s) : Map!Kind(f) = "event" /\ \E x \in Map!Uses(f, "event-name") : x.u.name = name}
              = {f \in Map!Artifacts(t) : Map!Kind(f) = "event" /\ \E x \in Map!Uses(f, "event-name") : x.u.name = name}
  BY <1>1, SameArtifacts
<1>3. \A name : Map!EventNamed(s, name, order) = Map!EventNamed(t, name, order)
  BY <1>2 DEF Map!EventNamed
<1>4. {g \in Map!Artifacts(s) : ~Map!Generated(g) /\ Map!Kind(g) = "listener"} = {g \in Map!Artifacts(t) : ~Map!Generated(g) /\ Map!Kind(g) = "listener"}
  BY <1>1, SameArtifacts
<1>5. \A f \in {g \in Map!Artifacts(t) : ~Map!Generated(g) /\ Map!Kind(g) = "listener"} : \A d : Map!OwnerOf(s, f, d) = Map!OwnerOf(t, f, d)
  BY <1>1, SameOwner
<1> QED BY <1>3, <1>4, <1>5 DEF Map!ListenEdges

LEMMA SameModels ==
    ASSUME NEW s, NEW t, SameCode(s, t), NEW table
    PROVE  Map!ModelsOf(s, table) = Map!ModelsOf(t, table)
<1>1. \A f : Map!Kind(f) = "model" => ~f.test
  BY TestKind DEF Map!None
<1> QED BY <1>1, SameArtifacts DEF Map!ModelsOf

LEMMA ModelsAreCode ==
    ASSUME NEW t, NEW table, NEW m \in Map!ModelsOf(t, table)
    PROVE  ~m.test
BY TestKind DEF Map!ModelsOf, Map!None

LEMMA SameTables ==
    ASSUME NEW s, NEW t, SameCode(s, t)
    PROVE  Map!TableEdges(s) = Map!TableEdges(t)
<1>1. Map!Migrates(s) = Map!Migrates(t)
  BY TestKind, SameArtifacts DEF Map!Migrates, Map!None
<1>2. \A table : Map!ModelsOf(s, table) = Map!ModelsOf(t, table)
  BY SameModels
<1> QED BY <1>1, <1>2 DEF Map!TableEdges

LEMMA SameMigrationFeature ==
    ASSUME NEW s, NEW t, SameCode(s, t), NEW order, Map!Walks(t, order), Lined(t), NEW f \in t.files
    PROVE  Map!MigrationFeature(s, f, order) = Map!MigrationFeature(t, f, order)
<1> DEFINE owned(u) == {x \in Map!Uses(f, "table") : \E m \in Map!ModelsOf(u, x.u.name) : Map!FeatureOf(u, m) # Map!NoNode}
           first(u) == CHOOSE x \in owned(u) : \A y \in owned(u) : x.u.line <= y.u.line
           models(u) == {m \in Map!ModelsOf(u, first(u).u.name) : Map!FeatureOf(u, m) # Map!NoNode}
           walked(u) == CHOOSE m \in models(u) : \A n \in models(u) : order[m.rel] <= order[n.rel]
           lines == {x.u.line : x \in owned(t)}
           walks == {order[m.rel] : m \in models(t)}
<1>1. \A table : Map!ModelsOf(s, table) = Map!ModelsOf(t, table)
  BY SameModels
<1>2. \A table : \A m \in Map!ModelsOf(t, table) : Map!FeatureOf(s, m) = Map!FeatureOf(t, m)
  BY ModelsAreCode, SameFeatureOf
<1>3. owned(s) = owned(t)
  BY <1>1, <1>2
<1>4. first(s) = first(t)
  BY <1>3
<1>5. models(s) = models(t)
  BY <1>1, <1>2, <1>4
<1>6. walked(s) = walked(t)
  BY <1>5
<1>7. CASE owned(t) = {}
  BY <1>3, <1>7 DEF Map!MigrationFeature
<1>8. CASE owned(t) # {}
  <2>1. lines \subseteq Nat /\ lines # {}
    BY <1>8 DEF Lined
  <2>2. PICK l \in lines : \A k \in lines : l <= k
    BY <2>1, LeastOfNumbers
  <2>3. \E x \in owned(t) : \A y \in owned(t) : x.u.line <= y.u.line
    BY <2>2
  <2>4. first(t) \in owned(t)
    BY <2>3
  <2>5. walks \subseteq Nat /\ walks # {}
    <3>1. models(t) # {}
      BY <2>4
    <3>2. \A m \in models(t) : m \in t.files
      BY DEF Map!ModelsOf, Map!Artifacts
    <3> HIDE DEF models
    <3> QED BY <3>1, <3>2 DEF Map!Walks
  <2>6. PICK w \in walks : \A k \in walks : w <= k
    BY <2>5, LeastOfNumbers
  <2>7. \E m \in models(t) : \A n \in models(t) : order[m.rel] <= order[n.rel]
    BY <2>6
  <2>8. walked(t) \in models(t)
    BY <2>7
  <2>9. Map!FeatureOf(s, walked(t)) = Map!FeatureOf(t, walked(t))
    BY <1>2, <2>8
  <2>10. Map!MigrationFeature(s, f, order) = Map!FeatureOf(s, walked(s)) /\ Map!MigrationFeature(t, f, order) = Map!FeatureOf(t, walked(t))
    BY <1>3, <1>8 DEF Map!MigrationFeature
  <2> QED BY <1>6, <2>9, <2>10
<1> QED BY <1>7, <1>8

LEMMA SameFeatureOfNode ==
    ASSUME NEW s, NEW t, SameCode(s, t), NEW order, Map!Walks(t, order), Lined(t), NEW f \in Map!Code(t)
    PROVE  Map!FeatureOfNode(s, f, order) = Map!FeatureOfNode(t, f, order)
<1>1. f \in t.files /\ ~f.test
  BY DEF Map!Code
<1> QED BY <1>1, SameMigrationFeature, SameFeatureOf DEF Map!FeatureOfNode

\* An action a route reaches is a controller's.
LEMMA ActionsAreCode ==
    ASSUME NEW t, Ranked(t), NEW dir, NEW type, NEW name, Map!Action(t, dir, type, name) # Map!NoNode
    PROVE  \E f \in Map!Code(t) : f \in Map!Artifacts(t) /\ Map!Action(t, dir, type, name)[2] = f.rel
<1> DEFINE those == Map!Acting(t, dir, type, name)
           chosen == CHOOSE f \in those : \A g \in those : g.rank <= f.rank
<1>1. those # {} /\ Map!Action(t, dir, type, name) = <<"action", chosen.rel, type, name>>
  BY DEF Map!Action, Map!ActionId
<1>2. those \subseteq t.files
  BY DEF Map!Acting, Map!Artifacts
<1>3. chosen \in those
  BY <1>1, <1>2, LastIsOfThem
<1>4. chosen \in Map!Artifacts(t) /\ Map!IsController(chosen)
  BY <1>3 DEF Map!Acting, Map!ActionsOf
<1>5. ~chosen.test
  BY <1>4, TestKind DEF Map!IsController, Map!None
<1> HIDE DEF chosen
<1>6. Map!Action(t, dir, type, name)[2] = chosen.rel
  BY <1>1
<1>7. chosen \in Map!Code(t)
  BY <1>4, <1>5 DEF Map!Code, Map!Artifacts
<1> QED BY <1>4, <1>6, <1>7

\* The feature of an action is its controller's.
LEMMA SameFeatureOfAction ==
    ASSUME NEW s, NEW t, SameCode(s, t), Ranked(t), Map!TestsBesideCode(s), Map!TestsBesideCode(t),
           NEW f \in Map!Code(t), f \in Map!Artifacts(t), NEW id, id[2] = f.rel
    PROVE  Map!FeatureOfAction(s, id) = Map!FeatureOfAction(t, id)
<1> DEFINE those(u) == {g \in Map!Artifacts(u) : g.rel = id[2]}
<1>1. ASSUME NEW u, u = s \/ u = t, NEW g \in those(u)
      PROVE  ~g.test
  <2>1. f \in Map!Code(u) /\ Map!TestsBesideCode(u) /\ g \in u.files
    BY <1>1 DEF SameCode, Map!Artifacts
  <2> QED BY <1>1, <2>1 DEF Map!TestsBesideCode
<1>2. those(s) = those(t)
  BY <1>1, SameArtifacts
<1>3. f \in those(t) /\ those(t) \subseteq t.files
  BY DEF Map!Artifacts
<1>4. Map!FirstFile(those(t)) \in those(t)
  BY <1>3, FirstIsOfThem
<1>5. ~Map!FirstFile(those(t)).test
  BY <1>1, <1>4
<1>6. Map!FeatureOf(s, Map!FirstFile(those(t))) = Map!FeatureOf(t, Map!FirstFile(those(t)))
  BY <1>5, SameFeatureOf
<1> QED BY <1>2, <1>6 DEF Map!FeatureOfAction

\* The edges of a kind whose ends are of the code.
BetweenCode(e) == e.from[1] # "test" /\ e.to[1] # "test"

\* A route reaches an action of the code, or none.
LEMMA RoutesReachCode ==
    ASSUME NEW t, Ranked(t), NEW r \in Map!Routes(t), r.action # Map!NoNode
    PROVE  \E f \in Map!Code(t) : f \in Map!Artifacts(t) /\ r.action[2] = f.rel
<1> DEFINE added == [g \in Map!Registrations(t) |-> Map!RoutesOf(t, g.f, g.r)]
<1>1. PICK g \in DOMAIN added : \E x \in added[g] : r.action = x.action
  <2>1. r \in Map!Numbered(added)
    BY DEF Map!Routes
  <2> HIDE DEF added
  <2> QED BY <2>1 DEF Map!Numbered
<1>2. PICK x \in Map!RoutesOf(t, g.f, g.r) : r.action = x.action
  BY <1>1
<1>3. \E name : x.action = Map!HandlerOf(t, g.f, g.r, name)
  <2>1. \E http, name, pattern : x = Map!RouteTo(t, g.f, g.r, http, name, pattern)
    BY DEF Map!RoutesOf
  <2> QED BY <2>1 DEF Map!RouteTo
<1>4. \E dir, type, name : r.action = Map!Action(t, dir, type, name)
  BY <1>2, <1>3 DEF Map!HandlerOf
<1> QED BY <1>4, ActionsAreCode

\* What holds what, of the code.
LEMMA SameContains ==
    ASSUME NEW s, NEW t, SameCode(s, t), NEW order, Map!Walks(t, order), Lined(t), Ranked(s), Ranked(t),
           Map!TestsBesideCode(s), Map!TestsBesideCode(t),
           NEW e \in Map!ContainsEdges(s, order), BetweenCode(e)
    PROVE  e \in Map!ContainsEdges(t, order)
<1>1. ASSUME NEW from, NEW to, NEW x \in Map!Containing(from, to)
      PROVE  x.to = to
  BY <1>1 DEF Map!Containing
<1>2. ASSUME NEW f \in Map!Artifacts(s), ~f.test
      PROVE  f \in Map!Artifacts(t) /\ f \in Map!Code(t) /\ Map!FeatureOf(s, f) = Map!FeatureOf(t, f)
             /\ Map!FeatureOfNode(s, f, order) = Map!FeatureOfNode(t, f, order)
  <2>1. f \in Map!Artifacts(t)
    BY <1>2, SameArtifacts
  <2>2. f \in Map!Code(t)
    BY <1>2, <2>1 DEF Map!Artifacts, Map!Code
  <2> QED BY <1>2, <2>1, <2>2, SameFeatureOf, SameFeatureOfNode
<1>3. ASSUME e \in Map!FilesHeld(s, order) PROVE e \in Map!FilesHeld(t, order)
  <2>1. PICK f \in Map!Artifacts(s) : e \in Map!Containing(Map!FeatureOfNode(s, f, order), Map!FileId(f))
    BY <1>3 DEF Map!FilesHeld
  <2>2. e.to = Map!FileId(f)
    BY <1>1, <2>1
  <2>3. Map!Kind(f) # "test"
    BY <2>2 DEF BetweenCode, Map!FileId
  <2>4. ~f.test
    BY <2>3, TestKind DEF Map!Artifacts
  <2> QED BY <1>2, <2>1, <2>4 DEF Map!FilesHeld
<1>4. Map!ViewsHeld(s) = Map!ViewsHeld(t)
  BY SameFeatures DEF Map!ViewsHeld, SameCode
<1>5. ASSUME e \in Map!ActionsHeld(s) PROVE e \in Map!ActionsHeld(t)
  <2>1. PICK f \in Map!Artifacts(s) : \E d \in Map!ActionsOf(f) : e \in Map!HoldingAction(s, f, Map!ActionId(f, d.recv, d.name))
    BY <1>5 DEF Map!ActionsHeld
  <2>2. PICK d \in Map!ActionsOf(f) : e \in Map!HoldingAction(s, f, Map!ActionId(f, d.recv, d.name))
    BY <2>1
  <2>3. ~f.test
    BY TestKind DEF Map!ActionsOf, Map!IsController, Map!None
  <2>4. f \in Map!Artifacts(t) /\ e \in Map!HoldingAction(t, f, Map!ActionId(f, d.recv, d.name))
    BY <1>2, <2>2, <2>3 DEF Map!HoldingAction
  <2> QED BY <2>4 DEF Map!ActionsHeld
<1>6. ASSUME NEW r \in Map!Routes(s), e \in Map!HoldingRoute(s, r)
      PROVE  e \in Map!HoldingRoute(t, r) /\ r \in Map!Routes(t)
  <2>1. r \in Map!Routes(t)
    BY SameRoutes
  <2>2. r.action # Map!NoNode => Map!FeatureOfAction(s, r.action) = Map!FeatureOfAction(t, r.action)
    BY <2>1, RoutesReachCode, SameFeatureOfAction
  <2> QED BY <1>6, <2>1, <2>2 DEF Map!HoldingRoute
<1> QED BY <1>3, <1>4, <1>5, <1>6 DEF Map!ContainsEdges

-----------------------------------------------------------------------------
(* The maps of two trees with the same code.                                *)

LEMMA SameEdges ==
    ASSUME NEW s, NEW t, SameCode(s, t), NEW order, Map!Walks(t, order), Lined(t), Ranked(s), Ranked(t),
           Map!TestsBesideCode(s), Map!TestsBesideCode(t),
           NEW e \in Map!Edges(s, order), BetweenCode(e)
    PROVE  e \in Map!Edges(t, order)
<1>1. CASE e \in Map!ReferenceEdges(s)
  BY <1>1, SameReferences DEF Map!Edges, BetweenCode
<1>2. CASE e \in Map!ContainsEdges(s, order)
  BY <1>2, SameContains DEF Map!Edges
<1>3. CASE e \in Map!RouteEdges(s)
  <2>1. Map!RouteEdges(s) = Map!RouteEdges(t)
    BY SameRoutes DEF Map!RouteEdges
  <2> QED BY <1>3, <2>1 DEF Map!Edges
<1>4. CASE e \in Map!RenderEdges(s) \cup Map!ViewEdges(s) \cup Map!ListenEdges(s, order) \cup Map!TableEdges(s)
  BY <1>4, SameRenders, SameListens, SameTables DEF Map!Edges
<1> QED BY <1>1, <1>2, <1>3, <1>4 DEF Map!Edges

LEMMA SameDrawn ==
    ASSUME NEW s, NEW t, SameCode(s, t), NEW order, Map!Walks(s, order), Map!Walks(t, order), Lined(s), Lined(t),
           Ranked(s), Ranked(t), Map!TestsBesideCode(s), Map!TestsBesideCode(t),
           NEW x \in Map!Drawn(s, order), BetweenCode(x)
    PROVE  x \in Map!Drawn(t, order)
<1> DEFINE at(u, e) == {y.at : y \in {z \in Map!Edges(u, order) : z.from = e.from /\ z.to = e.to /\ z.kind = e.kind}}
<1>1. \A u : Map!Drawn(u, order) = {[e EXCEPT !.at = Map!Earliest(at(u, e))] : e \in Map!Edges(u, order)}
  BY DEF Map!Drawn
<1> HIDE DEF at
<1>2. PICK e \in Map!Edges(s, order) : x = [e EXCEPT !.at = Map!Earliest(at(s, e))]
  BY <1>1
<1>3. x.from = e.from /\ x.to = e.to
  <2>1. e = [from |-> e.from, to |-> e.to, kind |-> e.kind, at |-> e.at]
    BY EdgesAreEdges DEF IsEdge
  <2> QED BY <1>2, <2>1
<1>4. BetweenCode(e)
  BY <1>3 DEF BetweenCode
<1>5. SameCode(t, s)
  BY DEF SameCode
<1>6. e \in Map!Edges(t, order)
  BY <1>4, SameEdges
<1>7. \A z : z.from = e.from /\ z.to = e.to => (z \in Map!Edges(s, order) <=> z \in Map!Edges(t, order))
  BY <1>4, <1>5, SameEdges DEF BetweenCode
<1>8. at(s, e) = at(t, e)
  <2>1. {z \in Map!Edges(s, order) : z.from = e.from /\ z.to = e.to /\ z.kind = e.kind}
        = {z \in Map!Edges(t, order) : z.from = e.from /\ z.to = e.to /\ z.kind = e.kind}
    BY <1>7
  <2> QED BY <2>1 DEF at
<1> QED BY <1>1, <1>2, <1>6, <1>8

LEMMA SameVariant ==
    ASSUME NEW s, NEW t, SameCode(s, t), Ranked(s), Ranked(t), Map!TestsBesideCode(s), Map!TestsBesideCode(t), NEW f
    PROVE  Map!Variant(s, f) = Map!Variant(t, f)
<1>1. Map!Registrations(s) = Map!Registrations(t)
  BY SameRegistrations
<1>2. \A g \in Map!Registrations(t) : Map!ExpressionType(s, g.f, g.r.controller) = Map!ExpressionType(t, g.f, g.r.controller)
  <2> TAKE g \in Map!Registrations(t)
  <2>1. g.f \in Map!Code(t) /\ \E x \in Map!Uses(g.f, "route") : g.r = x.u
    BY DEF Map!Registrations, Map!IsRouteFile, Map!Code
  <2> QED BY <2>1, SameExpressionType
<1>3. \A g \in Map!Registrations(t) : Map!ControllerFiles(s, Map!ExpressionType(s, g.f, g.r.controller))
                                  = Map!ControllerFiles(t, Map!ExpressionType(t, g.f, g.r.controller))
  BY <1>2, SameControllerFiles
<1>4. Map!ShapedBy(s, f) = Map!ShapedBy(t, f)
  BY <1>1, <1>3 DEF Map!ShapedBy
<1> QED BY <1>4 DEF Map!Variant

LEMMA SameShown ==
    ASSUME NEW s, NEW t, SameCode(s, t), NEW order, Map!Walks(t, order), Lined(t), Ranked(s), Ranked(t),
           Map!TestsBesideCode(s), Map!TestsBesideCode(t),
           NEW x \in Map!Shown(s, order), x[1][1] # "test"
    PROVE  x \in Map!Shown(t, order)
<1> DEFINE said(u, f) == <<Map!FileId(f), Map!Place(f), Map!Variant(u, f), Map!FeatureOfNode(u, f, order), Map!Generated(f)>>
<1>1. CASE \E f \in Map!Artifacts(s) : x = said(s, f)
  <2>1. PICK f \in Map!Artifacts(s) : x = said(s, f)
    BY <1>1
  <2>2. Map!Kind(f) # "test"
    BY <2>1 DEF Map!FileId
  <2>3. ~f.test
    BY <2>2, TestKind DEF Map!Artifacts
  <2>4. f \in Map!Artifacts(t) /\ f \in Map!Code(t)
    BY <2>3, SameArtifacts DEF Map!Code, Map!Artifacts
  <2>5. said(s, f) = said(t, f)
    BY <2>4, SameVariant, SameFeatureOfNode
  <2> QED BY <2>1, <2>4, <2>5 DEF Map!Shown
<1>2. CASE \E w \in Map!Features(s) : x = <<Map!FeatureId(w), Map!FeaturePlace(s, w)>>
  BY <1>2, SameFeatures, SameFeaturePlace DEF Map!Shown
<1> QED BY <1>1, <1>2 DEF Map!Shown

LEMMA SameSharedNodes ==
    ASSUME NEW s, NEW t, SameCode(s, t)
    PROVE  Map!SharedNodes(s) = Map!SharedNodes(t)
<1>1. Map!Capabilities(s) = Map!Capabilities(t) /\ Map!Screens(s) = Map!Screens(t)
  BY DEF SameCode, Map!Capabilities, Map!Screens
<1>2. Map!Registered(s) = Map!Registered(t)
  BY DEF SameCode, Map!Registered
<1>3. \A path : Map!IsExternalModule(s, path) <=> Map!IsExternalModule(t, path)
  BY DEF SameCode, Map!IsExternalModule
<1>4. Map!Depended(s) = Map!Depended(t)
  BY <1>3 DEF SameCode, Map!Depended
<1>5. Map!CommunityModules(s) = Map!CommunityModules(t)
  BY <1>2, <1>3, <1>4 DEF Map!CommunityModules
<1>6. Map!DiagnosticNodes(s) = Map!DiagnosticNodes(t)
  BY DEF SameCode, Map!DiagnosticNodes
<1> QED BY <1>1, <1>5, <1>6 DEF Map!SharedNodes

LEMMA SameNodes ==
    ASSUME NEW s, NEW t, SameCode(s, t), Ranked(s), Ranked(t), Map!TestsBesideCode(s), Map!TestsBesideCode(t),
           NEW n \in Map!NodeIds(s), n[1] # "test"
    PROVE  n \in Map!NodeIds(t)
<1>1. CASE \E f \in Map!Artifacts(s) : n = Map!FileId(f)
  <2>1. PICK f \in Map!Artifacts(s) : n = Map!FileId(f)
    BY <1>1
  <2>2. ~f.test
    BY <2>1, TestKind DEF Map!FileId, Map!Artifacts
  <2> QED BY <2>1, <2>2, SameArtifacts DEF Map!NodeIds
<1>2. Map!ActionNodes(s) = Map!ActionNodes(t)
  <2>1. \A f \in Map!Artifacts(s) \cup Map!Artifacts(t) : Map!ActionsOf(f) # {} => (f \in Map!Artifacts(s) <=> f \in Map!Artifacts(t))
    BY SameArtifacts, TestKind DEF Map!ActionsOf, Map!IsController, Map!None
  <2> QED BY <2>1 DEF Map!ActionNodes
<1>3. Map!Features(s) = Map!Features(t) /\ Map!Routes(s) = Map!Routes(t) /\ Map!SharedNodes(s) = Map!SharedNodes(t) /\ s.views = t.views
  BY SameFeatures, SameRoutes, SameSharedNodes DEF SameCode
<1>4. CASE n \notin {Map!FileId(f) : f \in Map!Artifacts(s)}
  BY <1>2, <1>3, <1>4 DEF Map!NodeIds
<1> QED BY <1>1, <1>4

LEMMA SameGraph ==
    ASSUME NEW s, NEW t, SameCode(s, t)
    PROVE  Map!BuildProjectGraph(s) = Map!BuildProjectGraph(t)
<1>1. Map!GraphArtifacts(s) = Map!GraphArtifacts(t)
  BY DEF SameCode, Map!GraphArtifacts
<1>2. Map!GraphFeatures(s) = Map!GraphFeatures(t)
  BY <1>1 DEF Map!GraphFeatures
<1>3. s.views = t.views
  BY DEF SameCode
<1> QED BY <1>1, <1>2, <1>3, SameSharedNodes DEF Map!BuildProjectGraph

LEMMA SameOfTests ==
    ASSUME NEW s, NEW t, SameCode(s, t), NEW order, Map!Walks(s, order), Map!Walks(t, order), Lined(s), Lined(t),
           Ranked(s), Ranked(t), Map!TestsBesideCode(s), Map!TestsBesideCode(t)
    PROVE  Map!OfTests(Map!BuildProjectMap(s, order)) = Map!OfTests(Map!BuildProjectMap(t, order))
<1>1. SameCode(t, s)
  BY DEF SameCode
<1>2. {n \in Map!NodeIds(s) : ~(n[1] = "test")} = {n \in Map!NodeIds(t) : ~(n[1] = "test")}
  BY <1>1, SameNodes
<1>3. {x \in Map!Shown(s, order) : ~(x[1][1] = "test")} = {x \in Map!Shown(t, order) : ~(x[1][1] = "test")}
  BY <1>1, SameShown
<1>4. {e \in Map!Drawn(s, order) : ~(e.from[1] = "test") /\ ~(e.to[1] = "test")}
      = {e \in Map!Drawn(t, order) : ~(e.from[1] = "test") /\ ~(e.to[1] = "test")}
  BY <1>1, SameDrawn DEF BetweenCode
<1> QED BY <1>2, <1>3, <1>4 DEF Map!OfTests, Map!BuildProjectMap

-----------------------------------------------------------------------------
(* Every tree of the behaviour is a part of everything that may be in it.   *)

IsPart(t) == /\ t.files \subseteq Map!Everything.files
             /\ t = [Base EXCEPT !.files = t.files]

\* The sets of the map are counted as those of its proofs.
LEMMA CountedAlike ==
    ASSUME NEW S
    PROVE  /\ Map!IsFiniteSet(S) <=> IsFiniteSet(S)
           /\ Map!Cardinality(S) = Cardinality(S)
<1>1. \A T : Map!IsFiniteSet(T) <=> IsFiniteSet(T)
  BY DEF Map!IsFiniteSet, IsFiniteSet
<1>2. Map!Cardinality(S) = Cardinality(S)
  BY DEF Map!Cardinality, Cardinality
<1> QED BY <1>1, <1>2

LEMMA PartsAreWellFormed ==
    ASSUME Map!FilesOfAProject, NEW t, IsPart(t)
    PROVE  /\ Lined(t) /\ Ranked(t) /\ Map!TestsBesideCode(t)
           /\ Map!RoutesApart(t)
           /\ \A order \in Orders : Map!Walks(t, order) /\ Bounded(t, order)
<1>1. t.files \subseteq Map!Everything.files
  BY DEF IsPart
<1>2. Lined(t)
  <2>1. \A f \in Map!Everything.files : \A d \in Map!ToSet(f.decls) : \A u \in Map!ToSet(d.uses) : u.line \in Nat
    BY DEF Map!FilesOfAProject, Map!Ordered
  <2>2. \A f, op : \A x \in Map!Uses(f, op) : x.d \in Map!ToSet(f.decls) /\ x.u \in Map!ToSet(x.d.uses)
    BY DEF Map!Uses
  <2> QED BY <1>1, <2>1, <2>2 DEF Lined
<1>3. Ranked(t)
  <2>1. PICK last \in Map!Everything.files : last.rank \in Nat /\ \A f \in Map!Everything.files : f.rank \in 0 .. last.rank
    BY DEF Map!FilesOfAProject, Map!Ordered
  <2>2. \A f \in t.files : f.rank \in 0 .. last.rank
    BY <1>1, <2>1
  <2> QED BY <2>1, <2>2 DEF Ranked
<1>4. Map!TestsBesideCode(t)
  <2> SUFFICES ASSUME NEW g \in t.files, g.test
               PROVE  /\ g.source = Map!None
                      /\ \A f \in Map!Code(t) : f.rel # g.rel /\ f.source # g.rel
                      /\ \A d \in Map!ToSet(g.decls) : Map!Action(t, g.dir, d.recv, d.name) = Map!NoNode
                      /\ \A f \in Map!Code(t) : f.dir = g.dir =>
                             \A x \in Map!Uses(f, "route") :
                                 \/ x.u.controller.form = "type"
                                 \/ ~\E i \in DOMAIN g.decls : g.decls[i].name = x.u.controller.of /\ g.decls[i].recv = Map!None
    BY DEF Map!TestsBesideCode
  <2>1. g \in Map!Everything.files /\ Map!Code(t) \subseteq Map!Code(Map!Everything)
    BY <1>1 DEF Map!Code
  <2>2. Map!TestsBesideCode(Map!Everything)
    BY DEF Map!FilesOfAProject
  <2>3. ASSUME NEW d \in Map!ToSet(g.decls)
        PROVE  Map!Action(t, g.dir, d.recv, d.name) = Map!NoNode
    <3>1. Map!Action(Map!Everything, g.dir, d.recv, d.name) = Map!NoNode
      BY <2>1, <2>2 DEF Map!TestsBesideCode
    <3>2. Map!Acting(Map!Everything, g.dir, d.recv, d.name) = {}
      BY <3>1 DEF Map!Action, Map!ActionId, Map!NoNode
    <3>3. Map!Acting(t, g.dir, d.recv, d.name) \subseteq Map!Acting(Map!Everything, g.dir, d.recv, d.name)
      BY <1>1 DEF Map!Acting, Map!Artifacts
    <3> QED BY <3>2, <3>3 DEF Map!Action
  <2> QED BY <2>1, <2>2, <2>3 DEF Map!TestsBesideCode
<1>5. ASSUME NEW order \in Orders PROVE Map!Walks(t, order) /\ Bounded(t, order)
  <2>1. Map!Walks(Map!Everything, order) /\ Map!Ends(Map!Everything, order)
    BY DEF Map!FilesOfAProject
  <2>2. PICK last \in Map!Everything.files : \A f \in Map!Everything.files : order[f.rel] <= order[last.rel]
    BY <2>1 DEF Map!Ends
  <2>3. order[last.rel] \in Nat /\ \A f \in t.files : order[f.rel] \in 0 .. order[last.rel]
    BY <1>1, <2>1, <2>2 DEF Map!Walks
  <2> QED BY <1>1, <2>1, <2>3 DEF Map!Walks, Bounded
<1>6. Map!RoutesApart(t)
  <2>1. Map!Registrations(t) \subseteq Map!Registrations(Map!Everything)
    BY <1>1 DEF Map!Registrations
  <2>2. Map!RoutesApart(Map!Everything)
    BY DEF Map!FilesOfAProject
  <2>3. Map!IsFiniteSet(Map!Registrations(Map!Everything))
    BY <2>2 DEF Map!RoutesApart
  <2>4. IsFiniteSet(Map!Registrations(Map!Everything))
    BY <2>3, CountedAlike
  <2>5. IsFiniteSet(Map!Registrations(t))
    BY <2>1, <2>4, FS_Subset
  <2>6. Map!IsFiniteSet(Map!Registrations(t))
    BY <2>5, CountedAlike
  <2> QED BY <2>1, <2>2, <2>6 DEF Map!RoutesApart
<1> QED BY <1>2, <1>3, <1>4, <1>5, <1>6

MapInv == IsPart(tree) /\ visit \in Orders

LEMMA InitMapInv == ASSUME Map!FilesOfAProject, Map!Init PROVE MapInv
<1>1. tree = Base /\ Base.files \subseteq Map!Everything.files
  BY DEF Map!Init, Map!Everything, Map!FilesOfAProject
<1>2. Base = [Base EXCEPT !.files = Base.files]
  BY DEF Map!FilesOfAProject
<1> QED BY <1>1, <1>2 DEF Map!Init, MapInv, IsPart

LEMMA NextMapInv ==
    ASSUME Map!FilesOfAProject, MapInv, Map!Next
    PROVE  MapInv'
<1>1. CASE Map!Again
  BY <1>1 DEF Map!Again, MapInv, IsPart
<1>2. ASSUME NEW S, S \subseteq Map!Everything.files, tree' = [tree EXCEPT !.files = S], UNCHANGED visit
      PROVE  MapInv'
  <2>1. tree' = [Base EXCEPT !.files = S]
    <3>1. tree = [Base EXCEPT !.files = tree.files]
      BY DEF MapInv, IsPart
    <3>2. Base = [files |-> Base.files, views |-> Base.views, findings |-> Base.findings,
                  own |-> Base.own, manifests |-> Base.manifests]
      BY DEF Map!FilesOfAProject
    <3> QED BY <1>2, <3>1, <3>2
  <2>2. tree'.files = S
    BY <2>1 DEF Map!FilesOfAProject
  <2> QED BY <1>2, <2>1, <2>2 DEF MapInv, IsPart
<1>3. Library \subseteq Map!Everything.files /\ tree.files \subseteq Map!Everything.files
  BY DEF MapInv, IsPart, Map!Everything, Map!FilesOfAProject
<1>4. ASSUME NEW f \in Library, Map!AddFile(f) PROVE MapInv'
  BY <1>2, <1>3, <1>4 DEF Map!AddFile
<1>5. ASSUME NEW f \in Library, Map!RemoveFile(f) PROVE MapInv'
  BY <1>2, <1>3, <1>5 DEF Map!RemoveFile
<1> QED BY <1>1, <1>4, <1>5 DEF Map!Next

\* A step between two parts draws what the properties say.
LEMMA OneMap ==
    ASSUME Map!FilesOfAProject, MapInv, MapInv'
    PROVE  Map!SameMapAgain /\ Map!TestsOnlyAdd
<1>1. Map!SameMapAgain
  <2> SUFFICES ASSUME Map!Again PROVE Map!SameMapAgain
    BY DEF Map!SameMapAgain
  <2>1. tree' = tree /\ visit \in Orders /\ visit' \in Orders /\ IsPart(tree)
    BY DEF Map!Again, MapInv
  <2> DEFINE one == Map!BuildProjectMap(tree, visit)
             two == Map!BuildProjectMap(tree', visit')
  <2>2. Lined(tree) /\ Bounded(tree, visit) /\ Bounded(tree, visit')
    BY <2>1, PartsAreWellFormed
  <2>3. /\ two.nodes = one.nodes
        /\ \A x \in one.shown : x \in two.shown \/ \E f \in Map!Disputed(tree) : x[1] = Map!FileId(f)
        /\ \A e \in one.edges : e \in two.edges \/ Chosen(tree, e)
    BY <2>1, <2>2, SameMap
  <2>4. /\ \A x \in two.shown : x \in one.shown \/ \E f \in Map!Disputed(tree) : x[1] = Map!FileId(f)
        /\ \A e \in two.edges : e \in one.edges \/ Chosen(tree, e)
    BY <2>1, <2>2, SameMap
  <2> HIDE DEF one, two
  <2>5. \A x \in Map!Either(one.shown, two.shown) : \E f \in Map!Disputed(tree) : x[1] = Map!FileId(f)
    BY <2>3, <2>4 DEF Map!Either
  <2>6. \A e \in Map!Either(one.edges, two.edges) : Chosen(tree, e)
    BY <2>3, <2>4 DEF Map!Either
  <2> QED BY <2>3, <2>5, <2>6 DEF Map!SameMapAgain, Chosen, one, two
<1>2. Map!TestsOnlyAdd
  <2> SUFFICES ASSUME Map!Code(tree') = Map!Code(tree)
               PROVE  /\ Map!OfTests(Map!BuildProjectMap(tree', visit)) = Map!OfTests(Map!BuildProjectMap(tree, visit))
                      /\ Map!BuildProjectGraph(tree') = Map!BuildProjectGraph(tree)
    BY DEF Map!TestsOnlyAdd
  <2>1. IsPart(tree) /\ IsPart(tree') /\ visit \in Orders
    BY DEF MapInv
  <2>2. SameCode(tree', tree)
    BY <2>1 DEF SameCode, IsPart, Map!FilesOfAProject
  <2>3. /\ Lined(tree) /\ Ranked(tree) /\ Map!TestsBesideCode(tree) /\ Map!Walks(tree, visit)
        /\ Lined(tree') /\ Ranked(tree') /\ Map!TestsBesideCode(tree') /\ Map!Walks(tree', visit)
    BY <2>1, PartsAreWellFormed
  <2> QED BY <2>2, <2>3, SameOfTests, SameGraph
<1> QED BY <1>1, <1>2

-----------------------------------------------------------------------------
(* A route of its own for every registration.                               *)

\* The routes of one registration are told apart by method and pattern.
OneRouteAt(S) == \A x, y \in S : x.http = y.http /\ x.pattern = y.pattern => x = y

LEMMA FiniteActions == IsFiniteSet(Map!ResourceActions) /\ IsFiniteSet(Map!SingletonActions)
<1>1. ASSUME NEW S, IsFiniteSet(S), NEW a
      PROVE  IsFiniteSet(S \cup {a})
  BY <1>1, FS_AddElement
<1>2. ASSUME NEW a, NEW b, NEW c, NEW d
      PROVE  IsFiniteSet({a, b, c, d})
  <2>1. IsFiniteSet({a})
    BY FS_Singleton
  <2>2. IsFiniteSet({a} \cup {b})
    BY <1>1, <2>1
  <2>3. IsFiniteSet(({a} \cup {b}) \cup {c})
    BY <1>1, <2>2
  <2>4. IsFiniteSet((({a} \cup {b}) \cup {c}) \cup {d})
    BY <1>1, <2>3
  <2>5. {a, b, c, d} = (({a} \cup {b}) \cup {c}) \cup {d}
    OBVIOUS
  <2> QED BY <2>4, <2>5
<1>3. ASSUME NEW a, NEW b, NEW c, NEW d, NEW e, NEW f, NEW g, NEW h
      PROVE  IsFiniteSet({a, b, c, d, e, f, g, h})
  <2>1. IsFiniteSet({a, b, c, d}) /\ IsFiniteSet({e, f, g, h})
    BY <1>2
  <2>2. IsFiniteSet({a, b, c, d} \cup {e, f, g, h})
    BY <2>1, FS_Union
  <2>3. {a, b, c, d, e, f, g, h} = {a, b, c, d} \cup {e, f, g, h}
    OBVIOUS
  <2> QED BY <2>2, <2>3
<1> QED BY <1>2, <1>3 DEF Map!ResourceActions, Map!SingletonActions

LEMMA RoutesOfOne ==
    ASSUME NEW t, Map!RoutesApart(t), NEW g \in Map!Registrations(t)
    PROVE  /\ IsFiniteSet(Map!RoutesOf(t, g.f, g.r))
           /\ OneRouteAt(Map!RoutesOf(t, g.f, g.r))
<1>1. ASSUME NEW a, NEW b, NEW pattern, NEW other,
             Map!RouteTo(t, g.f, g.r, a[2], a[1], pattern).http = Map!RouteTo(t, g.f, g.r, b[2], b[1], other).http,
             Map!RouteTo(t, g.f, g.r, a[2], a[1], pattern).pattern = Map!RouteTo(t, g.f, g.r, b[2], b[1], other).pattern
      PROVE  a[2] = b[2] /\ g.r.prefix \o pattern = g.r.prefix \o other
  BY <1>1 DEF Map!RouteTo
<1>2. CASE g.r.method = "Resource"
  <2> DEFINE route(a) == Map!RouteTo(t, g.f, g.r, a[2], a[1], Map!ResourcePattern(g.r, a))
             handled == {b \in Map!ResourceActions : Map!HandlerOf(t, g.f, g.r, b[1]) # Map!NoNode}
             F == [a \in handled |-> route(a)]
  <2>1. Map!RoutesOf(t, g.f, g.r) = {route(a) : a \in handled}
    BY <1>2 DEF Map!RoutesOf
  <2>2. ASSUME NEW a \in handled, NEW b \in handled,
               route(a).http = route(b).http, route(a).pattern = route(b).pattern
        PROVE  a = b
    <3>1. /\ a[2] = b[2]
          /\ g.r.prefix \o Map!ResourcePattern(g.r, a) = g.r.prefix \o Map!ResourcePattern(g.r, b)
      BY <2>2 DEF Map!RouteTo
    <3>2. a \in Map!ResourceActions /\ b \in Map!ResourceActions
      OBVIOUS
    <3> QED BY <3>1, <3>2, <1>2 DEF Map!RoutesApart
  <2>3. IsFiniteSet(handled)
    BY FiniteActions, FS_Subset
  <2> HIDE DEF route, handled
  <2>4. F \in Surjection(handled, {route(a) : a \in handled})
    BY DEF Surjection
  <2>5. IsFiniteSet({route(a) : a \in handled})
    BY <2>3, <2>4, FS_Surjection
  <2> QED BY <2>1, <2>2, <2>5 DEF OneRouteAt
<1>3. CASE g.r.method = "Singleton"
  <2> DEFINE route(a) == Map!RouteTo(t, g.f, g.r, a[2], a[1], Map!SingletonPattern(g.r, a))
             handled == {b \in Map!SingletonActions : Map!HandlerOf(t, g.f, g.r, b[1]) # Map!NoNode}
             F == [a \in handled |-> route(a)]
  <2>1. Map!RoutesOf(t, g.f, g.r) = {route(a) : a \in handled}
    BY <1>3 DEF Map!RoutesOf
  <2>2. ASSUME NEW a \in handled, NEW b \in handled,
               route(a).http = route(b).http, route(a).pattern = route(b).pattern
        PROVE  a = b
    <3>1. /\ a[2] = b[2]
          /\ g.r.prefix \o Map!SingletonPattern(g.r, a) = g.r.prefix \o Map!SingletonPattern(g.r, b)
      BY <2>2 DEF Map!RouteTo
    <3>2. a \in Map!SingletonActions /\ b \in Map!SingletonActions
      OBVIOUS
    <3> QED BY <3>1, <3>2, <1>3 DEF Map!RoutesApart
  <2>3. IsFiniteSet(handled)
    BY FiniteActions, FS_Subset
  <2> HIDE DEF route, handled
  <2>4. F \in Surjection(handled, {route(a) : a \in handled})
    BY DEF Surjection
  <2>5. IsFiniteSet({route(a) : a \in handled})
    BY <2>3, <2>4, FS_Surjection
  <2> QED BY <2>1, <2>2, <2>5 DEF OneRouteAt
<1>4. CASE g.r.method \notin {"Resource", "Singleton"}
  <2>1. \E x : Map!RoutesOf(t, g.f, g.r) = {x}
    BY <1>4 DEF Map!RoutesOf
  <2> QED BY <2>1, FS_Singleton DEF OneRouteAt
<1> QED BY <1>2, <1>3, <1>4

\* The number of a route grows with the place of its registration.
LEMMA NumbersGrow ==
    ASSUME NEW added, IsFiniteSet(DOMAIN added), NEW g \in DOMAIN added, NEW h \in DOMAIN added,
           \A k \in DOMAIN added : k.at[1] \in Nat /\ k.at[2] \in Nat,
           Map!Before(g.at, h.at), NEW x \in added[g], NEW y \in added[h],
           x.http = y.http, x.pattern = y.pattern
    PROVE  Map!NumberOf(added, g, x) # Map!NumberOf(added, h, y)
<1> DEFINE same(k) == \E z \in added[k] : z.http = x.http /\ z.pattern = x.pattern
           earlier(k) == {i \in DOMAIN added : Map!Before(i.at, k.at) /\ same(i)}
<1>1. \A i : Map!Before(i.at, g.at) /\ i \in DOMAIN added => Map!Before(i.at, h.at)
  BY DEF Map!Before
<1>2. g \notin earlier(g)
  BY DEF Map!Before
<1>3. earlier(g) \cup {g} \subseteq earlier(h)
  BY <1>1
<1>4. IsFiniteSet(earlier(g)) /\ IsFiniteSet(earlier(h))
  BY FS_Subset
<1>5. Map!NumberOf(added, g, x) = 1 + Cardinality(earlier(g)) /\ Map!NumberOf(added, h, y) = 1 + Cardinality(earlier(h))
  <2>1. /\ Map!NumberOf(added, g, x) = 1 + Map!Cardinality(earlier(g))
        /\ Map!NumberOf(added, h, y) = 1 + Map!Cardinality(earlier(h))
    BY DEF Map!NumberOf
  <2> HIDE DEF earlier
  <2> QED BY <2>1, CountedAlike
<1> HIDE DEF earlier
<1>6. Cardinality(earlier(g) \cup {g}) = Cardinality(earlier(g)) + 1
  BY <1>2, <1>4, FS_AddElement
<1>7. Cardinality(earlier(g) \cup {g}) <= Cardinality(earlier(h))
  BY <1>3, <1>4, FS_Subset
<1>8. Cardinality(earlier(g)) \in Nat /\ Cardinality(earlier(h)) \in Nat
  BY <1>4, FS_CardinalityType
<1>9. \A m, n \in Nat : m + 1 <= n => 1 + m # 1 + n
  OBVIOUS
<1> QED BY <1>5, <1>6, <1>7, <1>8, <1>9

LEMMA RegistrationsShown ==
    ASSUME NEW t, t = tree, Lined(t), Ranked(t), Map!RoutesApart(t)
    PROVE  Map!EveryRegistrationIsShown
<1> DEFINE added == [g \in Map!Registrations(t) |-> Map!RoutesOf(t, g.f, g.r)]
           id(g, x) == <<"route", x.http, x.pattern, Map!NumberOf(added, g, x)>>
           ids(g) == {r.id : r \in {x \in Map!Routes(t) : x.reg = g}}
<1>1. \A g \in Map!Registrations(t) : g.at[1] \in Nat /\ g.at[2] \in Nat
  BY DEF Map!Registrations, Lined, Ranked
<1>2. ASSUME NEW g \in Map!Registrations(t)
      PROVE  ids(g) = {id(g, x) : x \in Map!RoutesOf(t, g.f, g.r)}
  <2>1. Map!Routes(t) = UNION {{[id |-> id(k, x), reg |-> k, action |-> x.action] : x \in added[k]} : k \in DOMAIN added}
    BY DEF Map!Routes, Map!Numbered
  <2>2. added[g] = Map!RoutesOf(t, g.f, g.r) /\ g \in DOMAIN added
    OBVIOUS
  <2> DEFINE shown(k) == {[id |-> id(k, x), reg |-> k, action |-> x.action] : x \in added[k]}
  <2>3. \A k \in DOMAIN added : \A r \in shown(k) : r.reg = k
    <3> HIDE DEF added, id
    <3> QED OBVIOUS
  <2>4. {r \in Map!Routes(t) : r.reg = g} = shown(g)
    <3>1. Map!Routes(t) = UNION {shown(k) : k \in DOMAIN added}
      BY <2>1
    <3>2. g \in DOMAIN added
      BY <2>2
    <3> HIDE DEF shown, added
    <3> QED BY <3>1, <3>2, <2>3
  <2>5. {r.id : r \in shown(g)} = {id(g, x) : x \in added[g]}
    <3> DEFINE row(x) == [id |-> id(g, x), reg |-> g, action |-> x.action]
    <3>1. \A x : row(x).id = id(g, x)
      <4> HIDE DEF id, added
      <4> QED OBVIOUS
    <3>2. shown(g) = {row(x) : x \in added[g]}
      OBVIOUS
    <3> HIDE DEF added, id, row, shown
    <3> QED BY <3>1, <3>2
  <2> HIDE DEF added, id, shown
  <2> QED BY <2>2, <2>4, <2>5
<1>3. ASSUME NEW g \in Map!Registrations(t)
      PROVE  Cardinality(ids(g)) = Cardinality(Map!RoutesOf(t, g.f, g.r))
  <2> DEFINE S == Map!RoutesOf(t, g.f, g.r)
             F == [x \in S |-> id(g, x)]
  <2>1. IsFiniteSet(S) /\ OneRouteAt(S)
    BY RoutesOfOne
  <2>2. \A x, y \in S : id(g, x) = id(g, y) => x = y
    BY <2>1 DEF OneRouteAt
  <2>3. ids(g) = {id(g, x) : x \in S}
    BY <1>2
  <2> HIDE DEF S, id, ids
  <2>4. F \in Bijection(S, ids(g))
    BY <2>2, <2>3 DEF Bijection, Injection, Surjection, IsInjective
  <2>5. Cardinality(ids(g)) = Cardinality(S)
    BY <2>1, <2>4, FS_Bijection DEF ExistsBijection
  <2> QED BY <2>5 DEF S
<1>4. ASSUME NEW g \in Map!Registrations(t), NEW h \in Map!Registrations(t), h # g
      PROVE  ids(g) \cap ids(h) = {}
  <2>1. SUFFICES ASSUME NEW x \in added[g], NEW y \in added[h], id(g, x) = id(h, y)
                 PROVE  FALSE
    <3>1. ids(g) = {id(g, x) : x \in added[g]} /\ ids(h) = {id(h, y) : y \in added[h]}
      BY <1>2
    <3> HIDE DEF ids, id, added
    <3> QED BY <3>1
  <2>2. /\ x.http = y.http /\ x.pattern = y.pattern
        /\ Map!NumberOf(added, g, x) = Map!NumberOf(added, h, y)
    BY <2>1
  <2>3. Map!Before(g.at, h.at) \/ Map!Before(h.at, g.at)
    <3>1. g.at # h.at
      BY <1>4 DEF Map!RoutesApart
    <3>2. g.at = <<g.at[1], g.at[2]>> /\ h.at = <<h.at[1], h.at[2]>>
      BY DEF Map!Registrations
    <3>3. g.at[1] # h.at[1] \/ g.at[2] # h.at[2]
      BY <3>1, <3>2
    <3> QED BY <1>1, <3>3 DEF Map!Before
  <2>4. IsFiniteSet(DOMAIN added) /\ DOMAIN added = Map!Registrations(t)
    <3>1. Map!IsFiniteSet(Map!Registrations(t))
      BY DEF Map!RoutesApart
    <3> QED BY <3>1, CountedAlike
  <2>5. \A k \in DOMAIN added : k.at[1] \in Nat /\ k.at[2] \in Nat
    BY <1>1, <2>4
  <2>6. g \in DOMAIN added /\ h \in DOMAIN added
    BY <2>4
  <2> HIDE DEF added
  <2> QED BY <2>2, <2>3, <2>4, <2>5, <2>6, NumbersGrow
<1>5. \A g \in Map!Registrations(t) : Map!Cardinality(ids(g)) = Map!Cardinality(Map!RoutesOf(t, g.f, g.r))
  <2> HIDE DEF ids
  <2> QED BY <1>3, CountedAlike
<1> QED BY <1>4, <1>5 DEF Map!EveryRegistrationIsShown

-----------------------------------------------------------------------------
(* The behaviours of both.                                                  *)

LEMMA MapInvariance == AnalysisSpec => []MapInv
<1>1. AnalysisInit => MapInv
  BY InitMapInv, TreeAssumption DEF AnalysisInit
<1>2. MapInv /\ [AnalysisNext]_<<drawn, vars, map>> => MapInv'
  <2> SUFFICES ASSUME MapInv, [AnalysisNext]_<<drawn, vars, map>> PROVE MapInv'
    OBVIOUS
  <2>1. CASE Mapped(Map!Next)
    BY <2>1, NextMapInv, TreeAssumption DEF Mapped
  <2>2. CASE UNCHANGED map
    BY <2>2 DEF map, MapInv, IsPart
  <2> QED BY <2>1, <2>2 DEF AnalysisNext, Judged
<1> QED BY <1>1, <1>2, PTL DEF AnalysisSpec

\* internal/doctor/project_map*.go: for every application whose files are those of
\* one project, and every way its files come and go, two analyses of one tree differ
\* in the listeners of two events of one name and in the feature of a migration whose
\* table has models of two, and in nothing else; and a test that comes or goes changes
\* nothing of the code on the map and nothing of the graph.
THEOREM OneMapOfTheCodeAlways == AnalysisSpec => OneMapOfTheCode
<1>1. MapInv /\ MapInv' => [drawn => Map!SameMapAgain /\ Map!TestsOnlyAdd]_<<drawn, map>>
  BY OneMap, TreeAssumption
<1> QED BY <1>1, MapInvariance, PTL DEF AnalysisSpec, OneMapOfTheCode

\* addRoute (project_map_routes.go): whatever files are there, each registration has
\* on the map as many routes as it adds, and none of them is another's.
THEOREM EveryRegistrationIsShownAlways == AnalysisSpec => EveryRegistrationIsShown
<1>1. MapInv => Map!EveryRegistrationIsShown
  <2> SUFFICES ASSUME MapInv PROVE Map!EveryRegistrationIsShown
    OBVIOUS
  <2>1. Lined(tree) /\ Ranked(tree) /\ Map!RoutesApart(tree)
    BY TreeAssumption, PartsAreWellFormed DEF MapInv
  <2> QED BY <2>1, RegistrationsShown
<1> QED BY <1>1, MapInvariance, PTL DEF EveryRegistrationIsShown
=============================================================================
