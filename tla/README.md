# Specifications of aru

`aru` is the command line of the Arandu framework: a collection of commands that
generate, build, run, inspect and package a project. What is hard to test in it
is what happens over time and between programs: commands that run for hours
beside an editor, a compiler and a browser; files that several commands write
and read at the same moment; caches that must not lie; processes that must not
be left behind; and rules that have to agree with each other over a whole
project. The specifications here are about that.

Contents: 1. inventory; 2. modules and how they correspond to the code; 3. runs,
bounds and fairness; 4. findings; 5. proofs; 6. what is only model-checked; 7. what
is not modelled; 8. plan.

## 1. Inventory

"State" is what survives one call: files on disk, locals of a loop, processes.

| component | source | state | what is hard | what makes it correct |
|---|---|---|---|---|
| development loop, `aru dev` and `aru serve` | `dev.go`, `devexit.go`, `dev_unix.go` | snapshot, `pending`, `dirty`, the server process, the signal channel, generated files | saves during a build, a build that fails, an application that dies or will not, signals at any moment | one application at a time, none left behind, no change forgotten, a signal ends it |
| native loop, `aru native:dev` | `nativedev.go` | snapshot, the window, `bin/native-dev` | the same, and the binary is the file the window runs from | the same, and no rebuild under a running window |
| build cache trim | `internal/buildcache` | the build cache all Arandu projects compile into, a stamp file | builds read and write it during the trim; other commands trim it too; times on disk are coarse | nothing recent removed, oldest first, down to the low-water mark and no further |
| asset outputs | `assetsbuild.go`, `viewstyle.go` | the output file, `<name>.tmp` | a kill or an error at any step, a second build | the output is absent or complete; no build blocks the next |
| tool download | `internal/toolchain` | the machine's tool cache | two projects installing at once, any step failing | absent or complete, executable and checked; no temporary file left |
| view compiler | `viewcompile.go`, `viewbuild.go` | compiled views, the stylesheet | sources saved, broken and deleted during the build, views refused, a kill in the middle | nothing out of date after a build that reports; types of page and layout agree; no orphan |
| view language | `internal/kyse` | none | recovery after a mistake, positions in markup after branches and loops, names in generated Go | one error for one mistake; every value escaped for where it lands; no name invented |
| language server | `lsp.go`, `internal/lsp` | open documents, published findings, the cached analysis | an editor that does not wait, files changing under the analysis, many early exits | each request answered once; what the editor shows is what is so; the cache does not lie |
| doctor | `doctor.go`, `internal/doctor` | the baseline | files that do not parse, two profiles, rules that answer each other, analyses that walk Go maps | absence is asked for; a profile only adds; the report can be followed; one map of one tree, but where two events or models compete |
| migrations and generators | `makemigration.go`, `generate.go`, `internal/gen` | the project's files; the numbers of the migrations | two commands at once, a write failing half way | no file replaced that was not asked for; a migration comes after all its command read |
| model build | `modelbuild.go`, `internal/modelbuild` | the generated queries and factories | edits between the plan and the writes, two builds, a torn write | output follows the entities; hand-written files untouched |
| native packages | `native*.go`, `internal/pack` | artifacts, staged files, backups, settings of the process | goroutines, a lock, publication of several files with rollback | the call that builds under its own settings; what is reported is there; the previous release survives a failure |
| fonts | `font*.go`, `internal/fonts` | font files and three derived files | failure between two of them, names two roles share | the four agree |
| skills | `skills.go`, `internal/skills` | skill files and the digests in them | three-way decision over several origins, edits after the plan, line endings | no edit that was read overwritten unasked, and nothing that was not planned; a sync settles |
| tests | `runtests.go`, `testlist.go` | none on disk; the machines of a pipeline | which argument is whose; machines that list a suite each by itself | every test asked for runs on exactly one machine |
| end-to-end recorder | `e2erecord.go`, `e2eroutes.go` | the events of the page, the journey | events that arrive late, names that stand for addresses | the journey, played, goes where the person went |
| browser of `aru mcp` | `mcp.go`, `mcpbrowser.go` | one browser, one page, a lock, the page's errors | steps that unwind by a panic, errors that come between steps, a browser that dies or cannot open a page | no browser left behind, no error unsaid |
| icons | `internal/icons` | none | - | pure functions of bytes |
| imports, modules, contracts, upgrades | `imports.go`, `internal/catalog`, `internal/gomod`, `internal/resolve`, `internal/manifest`, `internal/contract`, `cmd/model-upgrade` | none | - | rewrites and tables |
| the rest | `new.go`, `build.go`, `key.go`, `about.go`, `commands.go` | none that survives | - | sequences of calls |

### How they interact

- Every command that starts the Go toolchain goes through `buildcache.Env`, so a
  trim may run beside any build, and beside another trim.
- `aru dev`, `serve`, `build` and `view:build` call `buildModels` and
  `buildViews`; `test`, and every command delegated to the project, call
  `ensureViews`, which builds only when an output is missing.
- `buildViews` runs the view compiler, then the asset build (which writes through
  `writeAssetOutput` and may call `Tool.Ensure`), then the stylesheet. The view
  compiler is `internal/kyse` over a tree of files.
- `aru dev` watches the sources of all these builds and some of their outputs.
- `aru lsp`, `aru mcp`, `aru e2e:record` and `aru trace` read the project through
  doctor's project map; the language server also runs the view parser on the text
  the editor holds, and doctor's rules on the files.
- `aru native:build` goes through `pack.Build`, which sets the environment of the
  process for the build it does.

They share the file system and nothing else: no command talks to another. That is
why one run may put several components side by side, with each behaviour about
one of them, and lose nothing; where two do meet on a file (the loops and the view
compiler, the compiler and the view language, the trim and the toolchain, the
generators on one directory, two builds of the models), they are in one module.

## 2. Modules

| module | models | code |
|---|---|---|
| `Supervisor` | abstract: at most one process, none after the session closed | - |
| `DevLoop` | `aru dev` | `dev.go` |
| `ServeOnce` | `aru serve` | `dev.go` |
| `NativeDev` | `aru native:dev` | `nativedev.go` |
| `Launchers`, `LaunchersProofs` | the three, whichever is typed | `commands.go` |
| `BuildCache`, `BuildCacheProofs` | the trim and the toolchain beside it | `internal/buildcache` |
| `AtomicFile` | abstract: a file that is absent or complete | - |
| `AssetOutput` | `writeAssetOutput` | `assetsbuild.go` |
| `ToolInstall` | what vouches for a body; `Ensure`, `install`, the sweep | `internal/toolchain` |
| `PackageTargets` | what `native:build` may be asked, and the steps of each platform | `native.go`, `nativepackage.go`, `internal/pack` |
| `PackageBuild` | `pack.Build`: the lock, the settings, the goroutines, the failures | `internal/pack` |
| `WindowsBuild` | the Windows programs: resources, signatures, publication with backups | `internal/pack/windowsbuild.go` |
| `AndroidManifest` | the manifests of libraries merged into one | `internal/pack/androidlibs.go` |
| `AppleSigning` | the provisioning profile and the identity that goes with it | `internal/pack/iosbuild.go` |
| `Migrations` | `make:migration`, `generate`, `make:module`, `gen.Write` | `makemigration.go`, `internal/gen` |
| `ModelBuild` | `Plan` and `Apply` of the queries and factories | `internal/modelbuild` |
| `Skills` | origins, plan, merge, apply | `internal/skills`, `skills.go` |
| `FontFiles` | `font:add`, `font:remove` and what is derived | `font.go`, `fontmanifest.go` |
| `Outputs`, `MCOutputs` | the modules from `BuildCache` to here, one to a behaviour; their instances for TLC | `main.go` |
| `PartsProofs`, `OutputsProofs` | what is proved of them: induction, the parts that work through a list (manifests, fonts, skills) and the packages; the rest and the theorems | - |
| `ViewCompile` | `compileViews`, `buildViews`, `ensureViews` | `viewcompile.go`, `viewbuild.go` |
| `TestRun` | `aru test` and its shards | `runtests.go` |
| `Recorder` | `aru e2e:record`, the names of routes | `e2erecord.go`, `e2eroutes.go`, `e2erecordscript.go` |
| `BrowserSession` | the browser tools of `aru mcp` | `mcpbrowser.go` |
| `MCJourneys`, `JourneysProofs` | the last four, one to a behaviour, with their instances for TLC; what is proved of the four | - |
| `LspServer`, `LspServerProofs` | the server's loop and its analysis | `internal/lsp` |
| `KyseMarkup` | where in the markup a value lands | `internal/kyse/generate.go` |
| `KyseParser` | the parser, a line at a time; the choice of the page's type | `internal/kyse/parse.go`, `kyse.go` |
| `KyseGenerate` | the generator, a node at a time; the check of names | `internal/kyse/generate.go`, `scope.go` |
| `Kyse`, `MCKyse` | a view from its source to the page it draws; families of small views | `internal/kyse` |
| `KyseProofs` | what is proved of the parser | - |
| `DoctorProject` | the project as doctor sees it | `internal/doctor/doctor.go` |
| `DoctorRules` | authorization, data, migrations, views, the two profiles | `internal/doctor/rules.go` and others |
| `DoctorStructure` | where code is put and who does what; the rules about tests | `internal/doctor/structure.go`, `requestrules.go`, `testsuite.go` |
| `Doctor` | runs of doctor over the life of a project, with the baseline | `doctor.go`, `internal/doctor/baseline.go` |
| `ProjectArtifacts`, `ProjectMap` | the artifacts and routes; the edges of the map and the graph | `internal/doctor/project_*.go` |
| `MCAnalysis`, `AnalysisProofs` | doctor or the map, one to a behaviour; the application of the run; what is proved of both | `internal/doctor` |

`DevLoop`, `ServeOnce` and `NativeDev` each instantiate `Supervisor` with a
refinement mapping; `AssetOutput` and `ToolInstall` instantiate `AtomicFile`.

Definitions marked "Mutant:" are what an action would be with a plausible
defect. No specification uses them; put in the place of the definition they
accompany, they break the property they are paired with. A range of lines that a
definition is said to model begins at the comment of its function.

### State and actions, against the code

**DevLoop.** A file is a version number, raised by `Save`. `tree` is the disk,
`gen` and `queries` are the versions generated files were made from, `built`
what the running application was compiled from. `pc` follows `dev` from top to
bottom: the builds are two steps each (what it reads, what it writes) with saves
in between; a failed build has written some of its outputs. `state`, `pending`,
`dirty`, `server`, `done` are the locals and fields of those names. `alive` is
the process groups that run and `exited` the exits that wait in a `serverProcess`'s
channel, so the goroutine that reaps is part of `AppExits`. `armed` says whether
`signal.Notify` is in effect: a signal while it is not ends the process at once
(`DefaultSignal`). `noticed`, `base` and `absorbed` are observations.

**ServeOnce, NativeDev.** The same vocabulary. `NativeDev` rereads nothing after
a rebuild, which is why it loses no save but one made during the first rebuild.

**BuildCache.** `used` is the modification time, `touched` the real time of the
last read. `Env`, `Skip`, `Due`, `WriteStamp`, `Walk`, `Measured`, `Break`,
`Check`, `Remove` are `trim` in order; the stat of `unusedSince` and the removal
are two steps. `Compile` and `Read` are the toolchain, external to the
repository: a hit refreshes a time only when it is older than `Refresh`. The sum of
what was walked is counted a unit of size at a time, so that it is a number of things.

**AssetOutput.** Files are inodes, names lead to inodes: a name may come to lead
to another build's file while the first is open. `Create` is O_CREATE|O_EXCL
and `Cleanup` the deferred removal, which runs after a successful rename as well.

**ToolInstall.** A download turns out to be one of `Bodies`; `Verified` is what
`Ensure` demands of it. The rest is `install`, step by step, each of which may
fail, and the sweep beside it.

**PackageTargets, PackageBuild.** A platform is a program of steps (`Step`,
`Start`, `Await`, `Unless`, `ForEach` ...), each one call that may fail and that
may write an artifact or settle what an artifact declares. `PackageBuild` runs
the program of a request under the lock: `apply` sets the package's variables and
`restore` puts them back; `StartCompile` and `Wait` are the errgroup, and `Begin` and
`CompileEnds` a goroutine that may begin and go on after the call that started it answered;
`strayed` holds the calls one of whose goroutines began under other settings.

**WindowsBuild.** The staged programs of two architectures, the resource file
each compile leaves, the previous executables moved to backups, and a rollback
whose steps may fail too.

**AndroidManifest, AppleSigning.** Loops over a list of inputs: libraries whose
elements are merged, a child at a time, and profiles that are tried. A component is
known by its tag and its full name, `activity-alias` among the tags. `signApple` writes into the bundle
before it knows whether the profile fits.

**Migrations.** `readMigrationInventory` is two readings (the directory, then each
file); `createExclusively` decides between two commands that chose one name. A
command may be killed between any two steps and a write may leave a partial file;
the developer removes files, and the day may change.

**ModelBuild, Skills, FontFiles.** A plan is read from the disk file by file, then
files are written one by one; edits come between, any write may fail or be torn,
and another command starts from what that left. A planned skill keeps the file it was
planned for (`existing`). The origins hand out their skills in
an order, and the first to hand out a name owns it. The name of a font file is in pieces,
so that a hash and a number can be put at its end, as far as it takes to be free; `Drop`
removes a file only when no other role notes it.

**ViewCompile.** A source is a revision, a revision is sound, unparsed or
rejected by the generator. `compileViews` is a loop over `todo` in the order
`Before`; writing an output is a truncation and a write; `Fail` is any error or
a kill. `Find`, `Prune`, `Report`, `Style` are `findViews`, `pruneCompiled`, the
report of the problems and the rest of `buildViews`. `EnsureBuilds` and
`EnsureSkips` are `ensureViews`.

**TestRun.** An argument is a record of what it is to each flag. `Scanned` is the loop
of `parseTestArgs`: `Taken` is what it makes of the argument after a flag that takes a
value (`--shard` and `--driver` take whatever follows, a flag too, as `Text`), `Read` of
any other, and `Finished` of a line that ends where a value is due. `takeFlag` is the
loop of `takeTags` and `takeRun`. `Tests` is go test, external: the last `-tags` and the last `-run`
count, and what follows a bare `--` or an `-args` belongs to the tests. A `Pattern` is what
`-run` selects by it and what `-list` prints by it: `-run` reads it up to its first slash and
leaves the rest to the subtests, `-list` holds all of it against a name. Each machine runs the
same actions with its own number; `shardTests` is its list, its slice and the
calls of go test made of it, and a call that fails does not stop the next.

**Recorder.** An address is its segments, whether it has a query and whether it is
of another application; an empty segment matches no parameter. `routeTarget` chooses the name, `fillPattern` is how the
kit turns a name back. Events cross a wire to a goroutine (`event`), so the command
may stop with some of them unreported; the person, the window and a file of the
same name that comes meanwhile are external.

**BrowserSession.** A call waits for the lock, acts in steps on the page and
answers under the lock. `step` is the call of the page with its deferred function:
what it failed with and what the page reported meanwhile. `Report` and `Dies` are
the page and the browser, at any moment.

**LspServer.** The editor writes frames to a bounded pipe; the loop takes one,
handles it to its end, and takes the next. The gates are in the code's order:
malformed, exit, requests that lost their id, not initialized or shut down, then
the method. `project.analysis` is its stamp, one read per document, the rule
about the pipelines, then the cache; `Publish` is `refresh`. A diagnostic is a
document and who reports it. `ever` and `always` are observations: the findings
the files had at some moment, and at every moment, of the present refresh.

**Kyse.** Markup is tokens and a line of a view is what the parser decided about
it. `KyseMarkup` is the scanner of HTML positions. The parser keeps its stack of
open blocks and what it skips after a mistake; the generator keeps the scanner's
position at the entry of each branch (`Rejoin` puts them together); the Go is a
sequence of statements that read and declare names. The page is then drawn through
whichever branches and rounds the data takes.

**Doctor.** A project is its files with the declarations a rule can recognise, and
each rule is one operator that answers a set of findings, named after the function
in the code. `Edit`, `Break`, `ChangeProfile`, `Fix` are the author, and `Remedies` the
ways a finding names: where it says what to write, or where to put a file, the author does
that, and where it only says what is wrong the file is put back as the project had it; `RunDoctor` is the
command, and `WriteBaseline` and `passed` its strict runs. How a rule recognises a
call in Go syntax is abstracted to a named shape ("db.Query").

**ProjectMap.** An entity's name is a sequence of words. `Routes` reads the route
files, groups and resources included; the edges are the functions of
`project_map_edges.go`. `visit` is the order in which the analysing process walks
Go maps, one of the `Orders`; `AddFile` and `RemoveFile` change the tree and `Again`
reads it once more in another order.

## 3. Runs

Six runs pass and six end in the violation of one property, a finding of section 4.
A run that holds several components starts each behaviour in one of them: `part`,
`of`, `command` and `drawn` say which.

| run | question | bounds and why they are enough |
|---|---|---|
| `launchers` (`Launchers`) | do the commands that start a program supervise it, forget nothing, settle and end? | `aru dev`: one view input and one Go file, three versions each: a first save that is built, a second that races it and a third after that; the two kinds of file are the only distinction the loop makes. `aru serve`: two view inputs, so that a build may write one and not the other. `aru native:dev`: one tree, five versions: three rebuilds and saves within them. |
| `outputs` (`MCOutputs`) | what does a command leave on disk for the next one? | Trim: three outputs of different sizes, a command that may be killed and started again, times so that an output is old, exactly at the limit, recent, or refreshed during the trim. Asset output: one builder, six files: several builds with kills and failures between. Tool: two installers, one shipped body and one other. Packages: two calls, each of any request `native:build` can make or of nine of the package's own interface; any step may fail. Windows: two architectures, two releases. Manifests: three libraries out of those with self-closed, relative and placeholder elements. Signing: two profiles of every kind. Migrations: two commands, two names, two days. Models: one entity, a hand-written file and factories, two builds and two edits. Skills: two origins in two versions that share a skill, two edits. Fonts: two roles, three faces of one name, three commands. |
| `analysis` (`MCAnalysis`) | do doctor's rules agree with each other over edits, broken files and profiles, and where does one tree have two maps? | An application of the skeleton's shape with no finding; one edit out of those that break each rule, one more file that stops parsing or the other profile, and then the author who follows the report for as long as there is one. The map: seventeen files, and two that come or go out of eight: a model with its table and an invokable controller, both of the seventeen, a second model of a table, a second event of a name, a singleton's routes, and tests in three places; files walked forwards and backwards. |
| `journeys` (`MCJourneys`) | what do the commands around a running application leave or say? | Views: a layout with a declared type, a page that sorts before it and a page that reads its data; three revisions, each of any form: good, broken, good again. Tests: three packages, one of them the journeys, with one name in two packages and two smoke tests; every line of at most two of seventeen phrases, and `--shard` before two that narrow; up to three machines. Recorder: routes with a parameter, with a rest and literal ones that tie, pages with a query and of another application; two gestures or typed addresses after the first page. Browser: three calls of the six tools, two errors of the page, a browser that may die. |
| `lsp_server` (`LspServer`) | are requests answered once, and does the editor show the truth? | three requests (`initialize` and two more, one of which may be `shutdown`), one frame in the pipe behind the one being handled, one change of the files during an analysis; one view and one journey, which carries the pipeline finding. The proofs cover any number of each. |
| `kyse` (`MCKyse`) | does a view become the page it says? | Ten families, each with an alphabet of lines chosen for one part of the compiler (structure, header, forms of arguments, types, branches, tags, values, sections, loops, names); every view of up to six to eight lines of a family, the clause and its tag among them, and every page it draws with up to two rounds of a loop. |
| `dev_loop_lost_save`, `dev_loop_nil_server` (`DevLoop`) | is every change served; does the loop survive a start that fails? | two versions: one save is enough |
| `build_cache_recent_use` (`MCOutputs`) | is an output used within the hour kept? | two outputs, times to 5 |
| `asset_output_two` (`AssetOutput`) | does a build rename its own file? | two builders, three files: the third is the one renamed unfinished |
| `kyse_loops` (`MCKyse`) | does every value in a loop land where its escape fits? | the family of loops |
| `skills_line_endings` (`MCOutputs`) | is a custom block carried over an update, whatever ends its lines? | the skills of `outputs` |

What the properties say:

- `EveryoneSupervises` (each command implements `Supervisor`), `NoticedIsOwed`,
  `ServesTheSave`, `BinaryNotInUse`, `InterruptEnds`, `SaveIsShown`: no second
  program, no change seen and dropped, no view older than the tree `serve` was typed
  on, no rebuild under a running window, a signal ends the command, and once the
  saving stops what was saved is what runs, unless the command said otherwise.
- `KeepsRecent`, `OldestFirst`, `MakesRoom`: what a trim may remove, in which order
  and how much. `Installs` (two refinements of `AtomicFile`), `TempsAreOwned`,
  `NothingUnchecked`: outputs and tools are absent or complete, checked, and nothing
  beside them is in anybody's way.
- `SettingsAreItsOwn`, `PreviousSurvives`, `EveryDeclarationOnce`,
  `SignedAsEmbedded`: a package is built under its own settings and has every part
  that was reported; both Windows programs are replaced or none is, and what cannot
  be undone is said; merged manifests lose and double nothing; the bundle is signed
  with what the embedded profile allows.
- `ReportedIsItsOwn`, `CurrentWhenDone`, `ReplacesOnlyItsOwn`, `WorkIsKept`,
  `SyncSettles`, `FontsAgree`: of two commands in one project none takes the other's
  file for its own, and a migration has a number above every one its command had read (two
  that read the same directory may take one number, `makemigration.go:354`); derived files
  agree with what they come from when a command says it is done; a query somebody wrote
  by hand is not touched, and of the skills only what was planned is written, over no edit
  the plan had read.
- `EveryRegistrationIsShown`, `AbsenceIsAsked`, `ProfileOnlyAdds`,
  `ReportCanBeFollowed`, `OneMapOfTheCode`: see the inventory.
  `ReportCanBeFollowed` is a liveness property: no two rules send the author back
  and forth.
- `NothingOutOfDate`, `Inherits`, `NoOrphans`; `SuiteIsRunOnce`; `JourneyReplays`;
  `BrowserIsKept`: see the inventory. `JourneyReplays` plays the journey that was
  written on the site it was recorded on and compares every address it expects.
- `AnsweredOnce`, `ShownMatches`, `CacheIsHonest`, `FindingsWereThere` of the
  language server; `OneMistakeOneError`, `EscapesFitThePage`, `NothingInvented` of
  the view language.

Some of them except what the code does otherwise; the exceptions are the disagreements
listed at the end of section 4, and each is named in the comment of its property.

`CHECK_DEADLOCK FALSE` is given where the system may stop: commands end, bounded
saves run out.

### Fairness

Only the supervisors and doctor's author have liveness properties. For the loops:
Go schedules a goroutine that can run, and the builds a loop calls return (`Loop`,
`Once!Command`, `Native!Loop`); `go run` goes on to compile (`AppCompiles`); a
process group that was sent SIGTERM goes away (`term /\ AppExits`): the code relies on
exactly that when it waits on `exited` with no timeout, and an application that
ignores the signal holds the loop. Nobody is obliged to save, to send a signal, or,
without one, to exit. For doctor: the author runs it, with a new baseline where
it refuses the one that is there, and follows what it says; nobody is obliged to edit. The other modules promise nothing
about progress: the processes in them may fail or be killed at every step.

## 4. Findings

- **A save during a rebuild can be lost** (`dev_loop_lost_save`). The snapshot
  after the builds, `dev.go:247`, is there to absorb the loop's own output and
  absorbs as well a view saved after the view build read it. `SaveIsShown`, in
  `launchers`, shows that this window, and the one before the first snapshot, are the
  only exceptions.
- **A restart that cannot start its process ends the loop** (`dev_loop_nil_server`).
  The error is printed and the loop goes on with `server == nil`, whose `exited`
  the next select reads.
- **An output used within the hour can be removed** (`build_cache_recent_use`).
  The comment promises it is not; the time on disk may lag the last use by an
  hour, which is also the limit.
- **A build can rename another build's unfinished file** (`asset_output_two`).
  The deferred removal works by name; O_EXCL keeps two builds from opening one
  file, not from removing each other's.
- **The second round of a loop can be drawn under the wrong escape** (`kyse_loops`).
  A body that does not end where it began leaves the position of the next round to
  the data, and `rejoin` gives the position up only for what follows the block. The
  escapes stay safe, each for another place than the one its value is at.
- **An update drops the custom block of a skill with Windows line endings**
  (`skills_line_endings`). `Edited` normalizes the file and `customBlock` does not, so
  the block is neither a conflict nor found.

The models have these disagreements too. No run of its own ends in them: the property
that would refute each is stated with the exception, so that it says what holds beside it.

- **A compile of a build that failed reads the settings of the next**
  (`SettingsAreItsOwn`). `buildAndroid` and `buildIOS` return past their `Wait`
  (`internal/pack/androidbuild.go:302-343`, `iosbuild.go:796`); the goroutine goes on and
  reads `printCommands` and `output` (`pack.go:447`) when the lock is another build's.
  `pack.go:156-163` says that the lock turns that race into a wait.
- **With `--shard`, a `-run` that names a subtest runs nothing and passes**
  (`SuiteIsRunOnce`). `shardTests` gives the pattern to `-list` (`runtests.go:209`), which
  does not split it at the slash: for `-run TestA/sub` every machine prints that its shard
  has no test to run and answers ok. Of `A|B/x` only the tests of `A` run.
- **A bare `--` or an `-args` takes what `aru test` puts after it** (`SuiteIsRunOnce`):
  `-run` and the packages (`runtests.go:131`, `151`, `171`) go to the tests of the root
  package. And a `-run`, `-tags` or `--driver` without its value takes the flag after it,
  or what `aru test` puts next (`Complete`).
- **An edit made after the plan of a skill is overwritten, and a write that fails drops a
  custom block** (`WorkIsKept`). `Apply` does not look at the file again and writes with
  `os.WriteFile` (`internal/skills/plan.go:155`), against `skills.go:22-24`. The model build is the same
  about a query edited between look and write (`CurrentWhenDone`, `ReplacesOnlyItsOwn`).
- **Ten rules conclude from an absence and do not ask** (`AbsenceIsAsked`), against
  `internal/doctor/doctor.go:187`. `repository-without-policy` asks by the name of the file,
  though the type decides (`rules.go:155`, `213`); `handler-reaches-the-model`,
  `grant-not-checked` and `grant-check-discarded` take a conversion for a query when the
  type of the model is in the file (`reachesdata.go:124`); `enum-rule-not-derived` (`551`),
  `policy-declares-no-writes` (`911`), `sensitive-field-not-redacted` (`1868`),
  `resource-not-reauthorized` (`3331`), `rollback-does-nothing` (`4803`) and
  `model-core-outside-models` (`5077`) look into the other files for what they find missing.
  One file that stops parsing makes each report what nobody did.
- **Declaring a migration irreversible does not quiet the rule that asks for it**
  (`ReportCanBeFollowed`). The finding says to write the Down "or declare Irreversible"
  (`rules.go:4816`), and the rule looks for the Down alone (`4803`).
- **One tree has two maps where two events have one name or two models one table**
  (`OneMapOfTheCode`). The last event walked takes the listeners
  (`project_map_edges.go:270-289`) and the first model with a feature holds the migration
  (`344-377`), and the walks are Go's of its maps. The test that two builds of one tree
  are equal (`project_map_test.go:424`) has a project with neither.
- **The recorder looks at no time** (`JourneyReplays`), though its comment does
  (`e2erecord.go:175`): an address typed after a gesture that led nowhere is not
  recorded; and the answer of `gen.Write` is not looked at, so that a file it skipped is
  called created (`e2erecord.go:358`).

## 5. Proofs

A proof module extends the module whose run checks the property, so a theorem is
about the very specification TLC explores: `LauncherSpec`, `OutputsSpec`, `MCSpec`
and `AnalysisSpec` are the sums of components the runs start, and `KyseSpec` the way of
any view of any family. Of the 40 properties
of the passing runs 35 are theorems.

The assumptions are the ASSUMEs of the modules; every one is evaluated by a run. They
say

- that bounds and sizes are natural numbers, that orders are orders, that names are
  distinct from "none", and that a cache and a suite are finite (`BoundsNat`,
  `OutputsBounds`, `Finite`, `PathOrder` and their like);
- what an input looks like: manifests, faces, requests, skills, pages and lines are
  sequences of records of the kinds the code reads (`SourcesAssumption`,
  `FontsAssumption`, `RequestsAssumption`, `SkillsAssumption`, `PagesAssumption`,
  `LinesAssumption`), a project has what a project has (`ProjectAssumption`), and the
  files the tree of the map is made of are files of one project (`TreeAssumption`, below);
- what the kit and go test see to: a test is known by its package and name
  (`SuiteAssumption`); a route by its name, which is not empty, and "the rest" stands at
  the end of a pattern only (`RoutesAssumption`); a click on a field leads nowhere
  (`PagesAssumption`);
- the family of views that is about blocks is made of the lines that open and close
  them, with those of Go apart, below a clause without a mistake (`StructureAssumption`:
  it says which views the property speaks of, for it asks nothing of the other families);
- and that a string that is written out is a string (`StringsAssumption`), which the
  provers do not know.

Otherwise the sets of files, commands, installers, builds, profiles, manifests, faces,
origins, documents, requests, routes and arguments are arbitrary, and so are the bounds.
Four theorems have a hypothesis of their own: `Alone` in `Refinement` and `Ownership` (one
builder of an asset output, because two break the property, see `asset_output_two`); in
`StopsWhereItMust` that one command trims, because two may each count what the other
removes (its half `RoomIsLeft` is without it); and in `BrowserKept` that no call is
called `Nobody` and that the number of errors is a natural number.

| theorem | states | argument |
|---|---|---|
| `LaunchersProofs!TypeCorrect` | types of `aru dev` | one step per action |
| `LaunchersProofs!Supervision` | `OneApplication`, `NoOrphan` | `ProcessInv`: `alive` is `{server}` or empty, and each location knows whether the exit was taken. Without it "one process" is not inductive: nothing says the process the loop forgets is dead. |
| `LaunchersProofs!NothingForgotten` | `NoticedIsOwed`, `RestartNotBehind` | `ViewInv`: where the loop is past the view build, nothing is pending, and what the build read is no older than what was noticed |
| `LaunchersProofs!NoRestartForOutput` | `RestartHasAnEdit` | `EditInv`: while a change waits or is acted on, the snapshot that holds it differs from the one of the last restart, and saves only raise versions |
| `LaunchersProofs!ServedIsCurrent` | `ServesTheSave` | `ServeInv`: `ServeViews` (from the step that reads a view on, its output is no older than the tree `serve` was typed on), `ServeProcess` and `ServeSignals` |
| `LaunchersProofs!NeverOverwritesARunningWindow` | `BinaryNotInUse` | `NativeInv`: what is alive is what `running` holds, and `running` is none from the compile to the opening of the next window |
| `LaunchersProofs!AllSupervise` | `EveryoneSupervises` | each command's steps map to steps of `Supervisor` or to none, from `ProcessInv` and `SignalInv`, `ServeInv` and `NativeInv`; `EachIsACommand` splits the behaviours. `Refinement` is the part about `aru dev`. |
| `BuildCacheProofs!RecentIsKept` | `KeepsRecent` | `VictimInv`: what the removal is about to remove was old at the stat |
| `BuildCacheProofs!LeastRecentlyUsed` | `OldestFirst` | `SeenInv`: an old output on disk is on the list with its present time, or still to be walked, or could not be removed; none is lost from sight, so the head of the list is the oldest of the disk |
| `BuildCacheProofs!RoomIsLeft`, `!StopsWhereItMust` | the second half of `MakesRoom`; all of it | `CountInv`: the total is `Overhead` and the sizes of a set `K` of outputs that holds every old output on disk the walk has passed, each of them on the list at most once; alone, `K` is of the disk |
| `OutputsProofs!WindowsPublishesAll` | `PreviousSurvives` | `WindowsInv`: `WindowsPlaces` says, for each architecture, at which of its three names each release is in every step of the publication and of its undoing; `WindowsAnswers` what an answer says of them; `WindowsHidden` that no resource file or key outlives its build |
| `OutputsProofs!SignsWithItsProfile` | `SignedAsEmbedded` | `SigningInv`: what is in the bundle is the profile being tried, and a refusal has seen every profile before it fail |
| `OutputsProofs!MigrationsAreOwned` | `ReportedIsItsOwn` | `MigrationInv`: `MigrationSees` (what a command read is on disk or was removed since), `MigrationOwns` (what it says it created it wrote last, or was forced over), `MigrationKnows` (a file's number is above every one its command had read) |
| `OutputsProofs!ModelsAreCurrent`, `!ModelsTouchTheirOwn` | `CurrentWhenDone`, `ReplacesOnlyItsOwn` | `ModelInv`: `BuildKnows` relates, for each build and entity, the plan to the source it read and to what was written since by anybody; an entity is `touched` when someone else came between |
| `OutputsProofs!SkillsKeepWork` | `WorkIsKept` | `SkillsInv`: `SkillsPlan` says of each planned write that it is allowed over the file that was read, and that this file is on disk unless somebody changed it since |
| `OutputsProofs!PackagesAreDelivered` | `SettingsAreItsOwn` | `PackageInv`: only the call that holds the lock is at a step that reads or sets the settings, and with the lock free they are those of the process; a compile that begins under other settings belongs to a call that has answered an error. `StepsInv`: of every request, `Reached` says what a number of the steps of its platform has left: an artifact is whole when the last step that wrote it was, and a compile that runs or failed is waited for by a step to come. That the platforms are such programs is a lemma of each (`StepsAreFine`). |
| `OutputsProofs!ManifestsMergeOnce` | `EveryDeclarationOnce` | `ManifestInv`: what is merged so far declares (`Declares`) the elements of the libraries and children read so far, each once; a lemma for each step of the merge |
| `OutputsProofs!FontsStayInStep` | `FontsAgree` | `FontInv`: `Working` says what a command has written and has still to write, and that no face of it has the name of a file of another role (`Fresh` finds one that is free, whatever is taken) |
| `OutputsProofs!SyncsSettle` | `SyncSettles` | `SyncInv`: a skill that was looked at is settled or something planned settles it (`Foreseen`), and of one that was not, the first that is still received is of the origin that owns it (`FirstIs`) |
| `OutputsProofs!CheckedBinary`, `!Ownership` | `NothingUnchecked`, `TempsAreOwned` | `ToolInv`: nobody knows a file above the counter (`ToolFresh`), the body in a temporary file is the one its owner verified (`ToolChecking`); `AssetInv` for the builder |
| `OutputsProofs!Refinement` | `Installs` | `ToolStages`, `ToolFinished`: the step that renames is the one that makes the content complete, and every other is a stutter of `AtomicFile` |
| `JourneysProofs!TypeCorrect` | types | one step per action |
| `JourneysProofs!Freshness`, `!TypesAgree`, `!Pruned`, `!Ensured` | `NothingOutOfDate`, `Inherits`, `NoOrphans`, `EnsureIsEnough` | one loop invariant for the four: `Behind` (sources the loop has passed are handled, and layouts are passed before any page), `Known` (what a passed layout published is what it was compiled from), `Writing` (what is about to be written is what the step decided), `Forward` (sources only move forward) |
| `JourneysProofs!BrowserKept` | `BrowserIsKept` | `SessionInv`: `HeldByItsCall` (the lock belongs to the one call that is at work), `OneBrowser` (the only browser alive is the one the session holds, and none is after the server returned), `ErrorsWait` (an error was not reported yet, is with the page, or was told to at most one call, which failed) |
| `JourneysProofs!RecordedJourneyReplays` | `JourneyReplays` | `LeadsBack`: the name and the parameters `routeTarget` chooses for an address are those `fillPattern` makes the same address of. `RecordInv`: the journey of what was reported is where the person is (`Tracks`), and what is still on the wire leads on from there |
| `JourneysProofs!SuiteRunsOnce` | `SuiteIsRunOnce` | `Joint` relates, argument by argument, what a line says to what is left of it after `parseTestArgs`, `takeTags` and `takeRun` (`LinesAgree`): the tests go test picks by it are those `Wanted`. `TestInv`: of those a machine has its own (`Mine`: the place modulo the machines), and the calls it has left divide what of them it has not run (`Divides`, `Progress`) |
| `LspServerProofs!Answers` | `AnsweredOnce` | `Numbered`: ids in the pipe are distinct, and the frames the loop takes in silence have none; `Served`: the request being served is no longer in the pipe |
| `LspServerProofs!Reusable` | `CacheIsHonest` | `ReadSoFar`: while the disk still has the stamp, what was read is what is there |
| `LspServerProofs!Truthful` | `FindingsWereThere` | `Window` and `Seen`: each file's findings are read at a moment of the refresh, or come from a cache that is honest at one |
| `LspServerProofs!Shown` | `ShownMatches` | `VInv`: the frames in the pipe are what the editor did since, in order (`Framed`), so that what the server holds of a document is what the editor had before the first frame about it; nothing is published before `Enabled` |
| `KyseProofs!OneMistakeIsOneError` | `OneMistakeOneError` | `Structured`: the parser's stack and errors are those made of the lines read so far, one after another (`ParsedBy`, `Agrees`). While there is no error the open blocks are those the depths say (`Sound`, `BalancedIs`). Read side by side with the one that was meant, from the mistake on a view has one more block open or one error more (`Behind`), and a line that is none there changes neither (`StaysBehind`) |
| `AnalysisProofs!AbsenceIsAskedAlways` | `AbsenceIsAsked` | rule by rule, of the whole report: the rules that look at the whole project and ask answer nothing for one with a broken file; those that look in some directories answer nothing when the broken file is there (`RequestsAsk` and its like); and of the others each finding about a file that was read stands in that file, so that taking another away (`Cut`) adds none, or moves it. The invariant is that the report is the one of the project it was run on. |
| `AnalysisProofs!ProfileOnlyAddsAlways` | `ProfileOnlyAdds` | a project and the same of the other profile are equal once the profile is taken out (`Plain`), and every rule but three answers for `Plain(q)` what it answers for `q`; the three answer nothing for a conventional project. The invariant adds that a change of profile starts from one (`Conventional`). |
| `AnalysisProofs!EveryRegistrationIsShownAlways` | `EveryRegistrationIsShown` | `RoutesOfOne`: the routes of one registration differ in method or pattern, so their nodes are as many; `NumbersGrow`: of two registrations of one method and pattern the later has the greater number, because what stands before the earlier, and the earlier itself, stands before the later |
| `AnalysisProofs!OneMapOfTheCodeAlways` | `OneMapOfTheCode` | `MapInv`: every tree of a behaviour is a part of `Everything`. `PartsAreWellFormed` gives any part of a project what the analysis relies on; `SameMap` shows that the order of the walk changes nothing but the listeners of namesakes and the feature of disputed migrations (`FirstWalked` and `LastWalked` say whom a walk chooses, `SameListeners` and `OneMigrationFeature` that there is no choice elsewhere), and `SameOfTests` that two trees with the same code have the same artifacts, features, actions, routes, edges and nodes |

The type invariants are proved where there is a proof module and are not run a second
time.

What `TreeAssumption` asks of all the files there may be together:

- `Ordered`: a file has a rank in the order of the paths, and what it uses has a line.
- `Walks`, `Ends`: each of the orders Go may take its maps in meets every file, and one of
  them last.
- `TestsBesideCode`: a file of tests repeats no method of the code's controllers, which
  would not compile beside it; the model build does not write one; no routes file takes
  a controller from a struct a test declares, which would not compile without it; and it
  shares no path with the code. Without this a test could be drawn as code, and
  `OneMapOfTheCode` says none is.
- `RoutesApart`: registrations are finitely many and stand at lines of their own, as
  `gofmt` leaves them, and the actions of one resource are at addresses of their own.
  Of all names this excludes `edit.edit`, where the address that lists and the one that
  edits are the same, and the two actions would share the node of one route.

Much of this is about what a recursive function makes of a list. The library's induction
theorems take an operator, which the provers cannot instantiate, so `PartsProofs` states
induction over the numbers as a fact about sets (a set of numbers that holds 0 and with
each its successor is all of them), and the lemmas about a function such as the names of
the faces or the scan of a line apply it to the set of the lengths for which they hold.

The attempts that failed changed the model, not the theorem:

- `ReportedIsItsOwn` was not inductive and turned out to be false of the model for three
  or four commands: when the developer removes a migration, the next command may take its
  number again, below that of a command that had read it. The code cannot know, so
  what a developer has removed is now an observation (`removed`) and the property
  speaks of the files that stayed.
- `BrowserIsKept` had been given as a PROPERTY without its box and was thus
  checked of the first state only. It is `[](...)` now, and proved.
- `Uses`, the declarations of the map and the routes were written with CHOOSE and
  filters inside LET, which no proof could name; they are operators of their own
  (`HandlerOf`, `RouteTo`, `NumberOf`, `HoldingAction`, `HoldingRoute`).
- `EveryRegistrationIsShown` does not hold of every set of names: `edit.edit` is the
  counter-example that became `RoutesApart`.
- `SyncSettles` was false for three versions: an upgrade of a module between the plan and
  the writes changes what is handed out, which is a touch of the names of the version that
  was required before as much as of those of the one required now (`Upgrade`).
- `JourneyReplays` could not be proved while a parameter matched an empty segment;
  `matchPattern` does not let it (`e2eroutes.go:88`), nor does the model now.
- `EveryDeclarationOnce` needs to know which tags are components; the model had left out
  `activity-alias` (`componentTags`).
- The choice of a page's type was written with filters of sequences, of which no prover
  knows anything; it is made among sets of declarations now, and the handlers of the
  parser are disjunctions where they were CASEs.
- `SuiteIsRunOnce` had to read a line argument by argument: `--shard` and `--driver` take
  whatever follows, a flag too, and the model took only a word; and two branches of a CASE
  were open at once, where the code has an order.

## 6. Only model-checked

- The liveness properties (`InterruptEnds`, `SaveIsShown`, `ReportCanBeFollowed`),
  because the prover has no rules for fairness and ENABLED.
- Of the view language `EscapesFitThePage` and `NothingInvented`. The generator's positions
  after branches and the page that is drawn are two recursions over one source, and an
  invariant of both was not attempted.
- The half of `ReportCanBeFollowed` that is no liveness (`LessNeverFails`) compares the
  numbers of findings of two reports; it needs every report to be finite, rule by rule.
- That every request of the language server is eventually answered was tried as a
  liveness property and is too expensive at any bound that matters; `AnsweredOnce` says
  it of every state where the loop is behind the request.

## 7. Not modelled, and why

Components:

- Icons, the import catalogue, `go.mod` rewriting, manifests, contracts, the model
  upgrade tool: pure functions of text or bytes.
- `aru new`, `aru build`, keys, editor settings: sequences of calls of other
  programs, with nothing read after it could have changed.
- Templates, messages, position arithmetic, completion. Where a property depends on
  their outcome, the outcome is a choice (a revision parses or not, a digest matches
  or not, a compile fails or not).
- Packages named by hand on the line of `aru test`: they are tested beside those it names.
- Installing browsers and explaining traces (`e2e:install`, `e2e:explain`); the
  inventory of `test:list`.
- Downloads, SDKs, Docker, git: external programs whose failure is one step of
  the caller.
- Windows halves of Unix code: the process group is killed with `taskkill`, and
  names of open files behave otherwise.
- Two builds of the views at once, two font commands at once, the text of a licence,
  and a project whose sources are walked while a directory is renamed.

Behaviour seen while reading that no property is about:

- The stamp of the language server does not cover the CI pipelines the analysis
  reads (`internal/lsp/projectmap.go:106`); the model has it (`EditPipeline` leaves
  the stamp alone), and `CacheIsHonest` is stated of the files the stamp covers.
- Routes are linked to a controller by its bare name (`project_map.go:506`,
  `project_map_routes.go:406`): two of one name in two packages are one.
- An installer that is killed leaves its `.partial-*` file for good
  (`internal/toolchain/toolchain.go:303`).
- A view output torn by a kill is repaired by the next build that finds it different
  (`viewcompile.go:145`), not by `ensureViews`.
- `mergeJSFiles` answers a write that failed with the result of closing the file, which
  is nil (`internal/pack/jsbuild.go:142-146`): the build reports a cut script. The
  model has it (`MergeFails`), and `SettingsAreItsOwn` excepts such a build (`lost`).
- Two trims at once may each count what the other removes
  (`internal/buildcache/buildcache.go:212`).
- A parameter of a path with an escaped percent sign is decoded twice
  (`e2eroutes.go:91`, with `u.Path` from line 116).
- With `--shard`, examples and fuzz seeds are not run (`runtests.go:154`, `223`).
- `e2e_open` ignores `base` and `headed` while a page is open, and a browser that
  died is replaced only after `e2e_close`, though every step says it failed
  (`mcpbrowser.go:134`).

## 8. Plan

Done: every component whose state outlives a call, except as said in section 7.

Left, in this order:

1. Theorems: `LessNeverFails`, with the finiteness of reports; `NothingInvented`, with an
   invariant of what the generator has declared.
2. Two font commands at once, with `FontsAgree` weakened to what the last one finished
   leaves.
3. `aru build`: views, compile, checksum, with a kill between the binary and its
   checksum; `aru new` interrupted half way.
4. The stale pipeline finding of the language server as a run of its own.
5. Algorithms against definitions: position conversion in the language server,
   `go.mod` floors, import spellings.
