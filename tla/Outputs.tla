------------------------------ MODULE Outputs -------------------------------
(***************************************************************************)
(* The parts of a command of aru that leave something on disk for the next *)
(* command to find.  A behaviour is of one of them: they meet on no file.  *)
(***************************************************************************)
EXTENDS BuildCache, Sequences

CONSTANTS
    Parts,                              \* the parts looked at
    Builders, MaxTemps,                 \* AssetOutput
    Installers, Bodies, Shipped, Known, Failures, MaxFiles,  \* ToolInstall
    Callers, Requests,                  \* PackageBuild
    Archs, Runs,                        \* WindowsBuild
    Sources, Values,                    \* AndroidManifest
    Profiles, Installed, Required, MaxProfiles,    \* AppleSigning
    Generators, Asks, LastDay,          \* Migrations
    Entities, Runners, MaxEdits,        \* ModelBuild
    Origins, Distributes, Unstampable, MaxTouches, \* Skills
    Roles, Faces, MaxFonts              \* FontFiles

\* A Windows package has a program, and a build of it is run.
ASSUME OutputsBounds ==
    /\ Archs \in Nat \ {0} /\ Runs \in Nat \ {0}
    /\ MaxTemps \in Nat /\ MaxProfiles \in Nat /\ LastDay \in Nat

VARIABLES
    part,                               \* which of them this behaviour is of
    temp, name, aCreated, aWhole, aPc, open, ok, killed,
    pin, cached, temps, created, body, whole, runnable, retired, tPc, got, tmp,
    request, pPc, building, settings, previous, work, steps, started, running, failed,
    settled, dest, pAnswer, lost, strayed,
    run, wPc, arch, signer, had, syso, store, staged, public, backup, keep, published, undone, wAnswer,
    sources, src, nth, out, error,
    profiles, at, embedded, matched, missing, unread, result,
    today, dir, ask, gPc, seen, declared, left, made, skipped, gAnswer, removed,
    source, query, factory, edits, mPc, checks, unparsed, found, changes, unplanned, since, mAnswer,
    version, file, touches, sPc, forced, received, planned, taken, looked, sAnswer,
    woff, css, go, toml, fontPc, role, entries, faces, drop, broken, commands, fontAnswer

Asset == INSTANCE AssetOutput
    WITH MaxFiles <- MaxTemps, created <- aCreated, whole <- aWhole, pc <- aPc
Tool == INSTANCE ToolInstall WITH pc <- tPc
Package == INSTANCE PackageBuild WITH pc <- pPc, todo <- steps, answer <- pAnswer
Windows == INSTANCE WindowsBuild WITH pc <- wPc, at <- arch, stuck <- undone, answer <- wAnswer
Manifest == INSTANCE AndroidManifest
Signing == INSTANCE AppleSigning
Migration == INSTANCE Migrations
Model == INSTANCE ModelBuild
Skill == INSTANCE Skills
Font == INSTANCE FontFiles

asset == <<temp, name, aCreated, aWhole, aPc, open, ok, killed>>
tool == <<pin, cached, temps, created, body, whole, runnable, retired, tPc, got, tmp>>
package == <<request, pPc, building, settings, previous, work, steps, started, running, failed,
             settled, dest, pAnswer, lost, strayed>>
windows == <<run, wPc, arch, signer, had, syso, store, staged, public, backup, keep, published,
             undone, wAnswer>>
manifest == <<sources, src, nth, out, error>>
signing == <<profiles, at, embedded, matched, missing, unread, result>>
migrations == <<today, dir, ask, gPc, seen, declared, left, made, skipped, gAnswer, removed>>
models == <<source, query, factory, edits, mPc, checks, unparsed, found, changes, unplanned, since,
            mAnswer>>
skills == <<version, file, touches, sPc, forced, received, planned, taken, looked, sAnswer>>
fontFiles == <<woff, css, go, toml, fontPc, role, entries, faces, drop, broken, commands, fontAnswer>>
project == <<migrations, models, skills, fontFiles>>
all == <<part, vars, asset, tool, package, windows, manifest, signing, project>>

\* What is known of the tool outside the release is one of its downloads.
ASSUME KnownBody == Known \in Bodies /\ Shipped \in BOOLEAN
ASSUME NotBodies == Tool!NoPin \notin Bodies /\ Tool!NoEntry \notin Bodies
ASSUME FailuresBoolean == Failures \in BOOLEAN
ASSUME MaxFilesNat == MaxFiles \in Nat

\* The manifests of one application: each is a package and its elements.
ASSUME SourcesAssumption == Sources \subseteq Seq(Manifest!Source)

\* The roles an application draws its text in, and the faces a family comes in:
\* a name in pieces, the range and the contents.
ASSUME FontsAssumption ==
    /\ Roles \in Seq(STRING) /\ Roles # <<>>
    /\ Faces \subseteq [file : Seq(STRING), range : Nat, body : Nat]

\* A package is asked for with architectures, the levels and the libraries' levels.
ASSUME RequestsAssumption ==
    \A r \in Requests : /\ r.archs \in Seq(STRING) /\ r.libraries \in Seq(Nat)
                        /\ r.minsdk \in Nat /\ r.targetsdk \in Nat

\* The origins are read in an order; each has a version, and hands its skills in an order.
ASSUME SkillsAssumption ==
    /\ Origins \in Seq(Skill!ToSet(Origins))
    /\ \A o \in Skill!ToSet(Origins) : Distributes[o] \in Seq(Seq(Skill!Names)) /\ Distributes[o] # <<>>

-----------------------------------------------------------------------------
(* A part this behaviour is not of.                                        *)

Off == "not in this behaviour"

NoTrim ==
    /\ clock = Off /\ onDisk = Off /\ used = Off /\ touched = Off /\ stamp = Off /\ now = Off
    /\ unwalked = Off /\ todo = Off /\ total = Off /\ victim = Off /\ checked = Off /\ stuck = Off
    /\ pc = [c \in Commands |-> "idle"]
NoAsset ==
    /\ temp = Off /\ name = {} /\ aCreated = Off /\ aWhole = Off /\ aPc = Off
    /\ open = Off /\ ok = Off /\ killed = Off
NoTool ==
    /\ pin = Off /\ cached = {} /\ temps = Off /\ created = Off /\ body = Off /\ whole = Off
    /\ runnable = Off /\ retired = Off /\ tPc = Off /\ got = Off /\ tmp = Off
NoPackage ==
    /\ request = Off /\ pPc = Off /\ building = Off /\ settings = Off /\ previous = Off /\ work = Off
    /\ steps = Off /\ started = Off /\ running = Off /\ failed = Off /\ settled = Off /\ dest = Off
    /\ pAnswer = Off /\ lost = Off /\ strayed = Off
NoWindows ==
    /\ run = Off /\ wPc = Off /\ arch = Off /\ signer = Off /\ had = Off /\ syso = Off /\ store = Off
    /\ staged = Off /\ public = Off /\ backup = Off /\ keep = Off /\ published = Off /\ undone = Off
    /\ wAnswer = Off
NoManifest == sources = Off /\ src = Off /\ nth = Off /\ out = Off /\ error = Off
NoSigning ==
    /\ profiles = Off /\ at = Off /\ embedded = Off /\ matched = Off /\ missing = Off
    /\ unread = Off /\ result = Off
NoMigrations ==
    /\ today = Off /\ dir = Off /\ ask = Off /\ gPc = Off /\ seen = Off /\ declared = Off
    /\ left = Off /\ made = Off /\ skipped = Off /\ gAnswer = Off /\ removed = Off
NoModels ==
    /\ source = Off /\ query = Off /\ factory = Off /\ edits = Off /\ mPc = Off /\ checks = Off
    /\ unparsed = Off /\ found = Off /\ changes = Off /\ unplanned = Off /\ since = Off /\ mAnswer = Off
NoSkills ==
    /\ version = Off /\ file = Off /\ touches = Off /\ sPc = Off /\ forced = Off /\ received = Off
    /\ planned = Off /\ taken = Off /\ looked = Off /\ sAnswer = Off
NoFonts ==
    /\ woff = Off /\ css = Off /\ go = Off /\ toml = Off /\ fontPc = Off /\ role = Off
    /\ entries = Off /\ faces = Off /\ drop = Off /\ broken = Off /\ commands = Off /\ fontAnswer = Off

OutputsInit ==
    /\ part \in Parts
    /\ IF part = "trim"     THEN Init          ELSE NoTrim
    /\ IF part = "asset"    THEN Asset!Init    ELSE NoAsset
    /\ IF part = "tool"     THEN Tool!Init     ELSE NoTool
    /\ IF part = "package"  THEN Package!Init  ELSE NoPackage
    /\ IF part = "windows"  THEN Windows!Init  ELSE NoWindows
    /\ IF part = "manifest" THEN Manifest!Init ELSE NoManifest
    /\ IF part = "signing"  THEN Signing!Init  ELSE NoSigning
    /\ IF part = "migrations" THEN Migration!Init ELSE NoMigrations
    /\ IF part = "models"   THEN Model!Init    ELSE NoModels
    /\ IF part = "skills"   THEN Skill!Init    ELSE NoSkills
    /\ IF part = "fonts"    THEN Font!Init     ELSE NoFonts

OutputsNext ==
    /\ UNCHANGED part
    /\ IF part = "trim"     THEN Next          ELSE UNCHANGED vars
    /\ IF part = "asset"    THEN Asset!Next    ELSE UNCHANGED asset
    /\ IF part = "tool"     THEN Tool!Next     ELSE UNCHANGED tool
    /\ IF part = "package"  THEN Package!Next  ELSE UNCHANGED package
    /\ IF part = "windows"  THEN Windows!Next  ELSE UNCHANGED windows
    /\ IF part = "manifest" THEN Manifest!Next ELSE UNCHANGED manifest
    /\ IF part = "signing"  THEN Signing!Next  ELSE UNCHANGED signing
    /\ IF part = "migrations" THEN Migration!Next ELSE UNCHANGED migrations
    /\ IF part = "models"   THEN Model!Next    ELSE UNCHANGED models
    /\ IF part = "skills"   THEN Skill!Next    ELSE UNCHANGED skills
    /\ IF part = "fonts"    THEN Font!Next     ELSE UNCHANGED fontFiles

OutputsSpec == OutputsInit /\ [][OutputsNext]_all

-----------------------------------------------------------------------------
(* The properties of the parts, each in the behaviours it is about.        *)

\* Whoever reads the output of a build, or runs the downloaded tool, and
\* whenever: it is absent or complete (writeAssetOutput, install).
Installs == Asset!Installs /\ Tool!Installs

\* What lies beside an output was left by a killed build or by an installer that
\* still works on it, and refuses no later one; see AssetOutput and ToolInstall.
TempsAreOwned ==
    /\ part = "asset" => Asset!NeverRefusedByItself
    /\ part = "tool" => Tool!TempsAreOwned

\* What is installed was checked against both digests; see ToolInstall.
NothingUnchecked == part = "tool" => Tool!NothingUnchecked

\* Of a package build: the call works under its own settings and leaves those it
\* found, its compiles too unless it failed and left them behind, and what it
\* reports has every part; see PackageBuild, WindowsBuild, AndroidManifest and
\* AppleSigning.
SettingsAreItsOwn == part = "package" => Package!SettingsAreItsOwn /\ Package!ReportedIsDelivered
PreviousSurvives ==
    part = "windows" => Windows!PreviousSurvives /\ Windows!AllOrNothing /\ Windows!NothingStays
EveryDeclarationOnce == part = "manifest" => Manifest!EveryDeclarationOnce
SignedAsEmbedded == part = "signing" => Signing!SignedAsEmbedded

\* Of the commands that write into a project: a migration is reported by the
\* command that wrote it, whole, and is after every one its reading saw; see
\* Migrations, ModelBuild, Skills and FontFiles.
ReportedIsItsOwn == part = "migrations" => Migration!ReportedIsItsOwn /\ Migration!WrittenKnowing
ReplacesOnlyItsOwn == [][part = "models" => Model!TouchesItsOwn]_all
CurrentWhenDone == part = "models" => Model!CurrentWhenDone
WorkIsKept == [][part = "skills" => Skill!ReplacesNoWork]_all
SyncSettles == part = "skills" => Skill!SyncSettles
\* The custom blocks of a skill, whatever ends its lines.
CustomIsCarried == Skill!CustomIsCarried
FontsAgree == part = "fonts" => Font!FontsAgree
=============================================================================
