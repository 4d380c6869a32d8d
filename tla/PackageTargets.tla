--------------------------- MODULE PackageTargets ---------------------------
(***************************************************************************)
(* What each platform's build does, in order (internal/pack: jsbuild,      *)
(* androidbuild, iosbuild, macosbuild, windowsbuild).  A step is one call  *)
(* that may fail.  Most work in the directory Build made; the ones that    *)
(* write an artifact say what its name leads to when they fail, and when   *)
(* they do not.  A step may also settle a fact about what is delivered:    *)
(* the platform and the lowest version a program was compiled for, or that *)
(* a description of it declares.                                           *)
(***************************************************************************)
EXTENDS Naturals, Sequences, FiniteSets, SequencesExt, FiniteSetsExt

-----------------------------------------------------------------------------
(***************************************************************************)
(* `aru native:build` (native.go, nativepackage.go): which platforms there *)
(* are, which of them only an installable artifact is of use on, and what  *)
(* the packager is asked for.  A file name is known by its suffix.         *)
(***************************************************************************)
Bare(suffix) == [packages |-> "", arch |-> "", suffix |-> "", installable |-> FALSE, extension |-> suffix]

nativeTargets == [name \in {"darwin/arm64", "windows/amd64", "linux/amd64", "js/wasm",
                            "android/arm64", "ios/arm64", "ios/amd64", "iossimulator/arm64"} |->
    CASE name = "darwin/arm64"  -> [Bare("") EXCEPT !.packages = "macos"]
      [] name = "windows/amd64" -> [Bare(".exe") EXCEPT !.packages = "windows"]
      [] name = "linux/amd64"   -> Bare("")
      [] name = "js/wasm"       -> [Bare(".wasm") EXCEPT !.packages = "js"]
      [] name = "android/arm64" -> [Bare("") EXCEPT !.packages = "android", !.installable = TRUE]
      [] name = "ios/arm64"     -> [Bare("") EXCEPT !.packages = "ios", !.installable = TRUE]
      [] name = "ios/amd64"     -> [Bare("") EXCEPT !.packages = "ios", !.suffix = ".app", !.installable = TRUE]
      [] OTHER -> [Bare("") EXCEPT !.packages = "ios", !.arch = "simarm64", !.suffix = ".app", !.installable = TRUE]]

archOf(name) == CASE name = "js/wasm" -> "wasm"
                  [] name \in {"windows/amd64", "linux/amd64", "ios/amd64"} -> "amd64"
                  [] OTHER -> "arm64"

artifactSuffix(platform) ==
    CASE platform = "macos" -> ".app" [] platform = "windows" -> ".exe"
      [] platform = "android" -> ".apk" [] platform \in {"ios", "tvos"} -> ".ipa" [] OTHER -> ""

Packaging(name, pack) == pack \/ nativeTargets[name].installable

\* The suffix of -output, or of the name made up when there is none.
PackageOutput(name, output) ==
    LET t == nativeTargets[name]
    IN IF output # "none" THEN output
       ELSE IF t.suffix # "" THEN t.suffix ELSE artifactSuffix(t.packages)

\* Refused before anything is compiled.
NativeRefuses(name, pack, output) ==
    LET t == nativeTargets[name]
    IN /\ Packaging(name, pack)
       /\ \/ t.packages = ""
          \/ t.suffix # "" /\ PackageOutput(name, output) # t.suffix

\* pack.Options, as packageNative fills them: one architecture, always named.
packageNative(name, output, base) ==
    LET t == nativeTargets[name]
    IN [base EXCEPT !.target = t.packages, !.suffix = PackageOutput(name, output),
                    !.archs = <<IF t.arch # "" THEN t.arch ELSE archOf(name)>>]

\* Every platform but the browser takes cgo.
cgoFor(name) == name # "js/wasm"

-----------------------------------------------------------------------------
(***************************************************************************)
(* What a package build reads before it builds (internal/pack: build_info, *)
(* runtime, linkedsymbols, and Options.validate): the graph of the         *)
(* application's packages, the one of them that is the runtime, and what   *)
(* the linker will be able to tell it.  A request is what `native:build`   *)
(* asks of the packager, over such a graph.                                *)
(***************************************************************************)
Targets == {"android", "ios", "tvos", "js", "windows", "macos"}

\* The graph: who imports whom, who has Go files for this target, whose
\* directory is known, and who carries a marker file beside its sources.
Packages(graph) == DOMAIN graph.imports

\* Every package is visited once; a visitor may stop below one.
walkGraph(graph, Descends(_)) ==
    LET seen[n \in Nat] ==
            IF n = 0 THEN {graph.root}
            ELSE seen[n - 1] \cup UNION {graph.imports[p] : p \in {q \in seen[n - 1] : Descends(q)}}
    IN seen[Cardinality(Packages(graph))]

HasGoFiles(graph, p) == p \in graph.compiled
packageDir(graph, p) == p \in graph.compiled \/ p \in graph.placed
carriesMarker(graph, p) == p \in graph.marked

\* A package excluded by a constraint is still looked at: the bindings decide.
Runtimes(graph) == {p \in walkGraph(graph, LAMBDA p : TRUE) : packageDir(graph, p) /\ carriesMarker(graph, p)}
findRuntimePackage(graph) == Cardinality(Runtimes(graph)) = 1

-----------------------------------------------------------------------------
(* What the linker writes into the runtime package.                        *)

linkedSymbols == {"ID", "extraArgs", "schemesURI"}

\* A type that is written out, or that of a literal that can be read.
declaredKind(value) ==
    IF value.type # "" THEN value.type
    ELSE IF value.literal \in {"string", "int", "float64", "rune", "bool"} THEN value.literal
    ELSE "of a type that cannot be read here"

\* The last file that declares a name is the one that counts.
packageVariables(files) ==
    [s \in UNION {DOMAIN files[i] : i \in DOMAIN files} |->
        LET last == CHOOSE i \in DOMAIN files : s \in DOMAIN files[i] /\ \A j \in DOMAIN files : s \in DOMAIN files[j] => j <= i
        IN [constant |-> files[last][s].constant, kind |-> declaredKind(files[last][s])]]

verifyLinkedSymbols(files) ==
    LET declared == packageVariables(files)
    IN files # <<>> /\ \A s \in linkedSymbols :
           s \in DOMAIN declared /\ ~declared[s].constant /\ declared[s].kind = "string"

-----------------------------------------------------------------------------
(* The request.                                                            *)

notaryGiven(r) == Cardinality({f \in {"id", "pass", "team"} : f \in r.notary})

validate(r) ==
    /\ r.target \in Targets
    /\ r.mode \in {"exe", "archive"}
    /\ (r.pass => r.key)
    /\ notaryGiven(r) \in {0, 3}

\* Every architecture the platform ships, when none is named.
getArchs(r) ==
    IF r.archs # <<>> THEN r.archs
    ELSE CASE r.target = "js" -> <<"wasm">>
           [] r.target \in {"ios", "tvos", "macos"} -> <<"arm64", "amd64">>
           [] r.target = "android" -> <<"arm", "arm64", "386", "amd64">>
           [] OTHER -> <<"amd64">>

\* The part of newBuildInfo the request decides; the tools it runs may fail too.
newBuildInfo(r) == r.semver /\ findRuntimePackage(r.graph) /\ verifyLinkedSymbols(r.runtimeFiles)

\* The permissions the application reaches, by the package each is under.
graphPermissions(r) == walkGraph(r.graph, LAMBDA p : TRUE) \cap r.graph.permissions

-----------------------------------------------------------------------------
(* The steps.                                                              *)

Keep == "as it was"

Step(op, what, on, failed, done, makes) ==
    <<[op |-> op, what |-> what, on |-> on, failed |-> failed, done |-> done, makes |-> makes]>>
Do(what)                 == Step("do", what, {}, Keep, Keep, {})
Makes(what, fact)        == Step("do", what, {}, Keep, Keep, {fact})
Out(what, failed, done)  == Step("do", what, {"it"}, failed, done, {})
To(on, what, failed, done) == Step("do", what, on, failed, done, {})
Start(what, fact)        == Step("start", what, {}, Keep, Keep, {fact})
Await                    == Step("await", "builds.Wait", {}, Keep, Keep, {})
Refuse(what)             == Step("refuse", what, {}, Keep, Keep, {})
Unless(ok, what)         == IF ok THEN <<>> ELSE Refuse(what)
OnlyIf(cond, steps)      == IF cond THEN steps ELSE <<>>
ForEach(seq, Body(_))    == FlattenSeq([i \in DOMAIN seq |-> Body(seq[i])])

\* Several architectures are several artifacts on the platforms that do not join them.
Artifacts(r) ==
    IF r.target \in {"windows", "macos"} /\ Len(getArchs(r)) > 1 THEN ToSet(getArchs(r)) ELSE {"it"}

Program(arch, min) == [of |-> "program", arch |-> arch, min |-> min]

-----------------------------------------------------------------------------
(* js.                                                                     *)

\* The deferred close of the merged file answers for the copy: see MergeFails.
mergeJSFiles(r) == Step("merge", "wasm.js", {"it"}, "partial", "whole", {})

buildJS(r) ==
    Do("MkdirAll") \o To({"it"}, "main.wasm", Keep, "partial") \o Out("icon", "partial", "partial")
    \o Out("index.html", "partial", "partial") \o Out("wasm_exec.js", "partial", "partial")
    \o mergeJSFiles(r)

-----------------------------------------------------------------------------
(* android.                                                                *)

\* The floor of the compiler is 17 and that of the manifest 16.
CompilerFloor(r) == Max({r.minsdk, 17})
ManifestFloor(r) == Max({r.minsdk, 16} \cup ToSet(r.libraries))
TargetSDK(r)     == Max({IF r.targetsdk > 0 THEN r.targetsdk ELSE 35, ManifestFloor(r)})

\* A compile is started as soon as its compiler is known; the checks after it do not wait.
compileAndroid(r) ==
    Do("javac") \o Do("NDK")
    \o ForEach(getArchs(r), LAMBDA a : Do("clang") \o Do("jni") \o Start(a, Program(a, CompilerFloor(r))))
    \o Unless(r.java, "the runtime carries no .java files") \o Do("classes")
    \o Start("javac", [of |-> "classes", arch |-> "any", min |-> 0]) \o Await

archiveAndroid(r) ==
    Unless(r.suffix = ".aar", "not .aar") \o Out("create", Keep, "partial")
    \o Out("entries", "partial", "partial") \o Out("classes.jar", "partial", "partial")
    \o Out("close", "partial", "whole")

Resources(r) ==
    Do("icons") \o Do("themes") \o Do("google services") \o Do("aapt2 compile")
    \o ForEach(r.libraries, LAMBDA min : Do("aapt2 compile, library"))
LinkAndroid(r) ==
    Makes("AndroidManifest.xml", [of |-> "manifest", min |-> ManifestFloor(r), target |-> TargetSDK(r)])
    \o Do("aapt2 link") \o Do("R classes")
DexAndroid(r) == Do("d8") \o Do("app.zip")
exeAndroid(r) == Do("classes") \o Resources(r) \o LinkAndroid(r) \o DexAndroid(r)

\* The aligned file is already under its own name when it is signed.
Keystore(r) == OnlyIf(~r.key, Do("debug keystore"))
signAPK(r) == Out("zipalign", "partial", "unsigned") \o Keystore(r) \o Out("apksigner", "unsigned", "whole")
signAAB(r) ==
    Do("bundletool") \o Do("build-bundle") \o Out("zipalign", "partial", "unsigned") \o Keystore(r)
    \o Do("keytool") \o Out("jarsigner", "unsigned", "whole")

buildAndroid(r) ==
    Do("SDK") \o Do("platform and build-tools") \o Do("packages") \o Do("libraries") \o compileAndroid(r)
    \o IF r.mode = "archive" THEN archiveAndroid(r)
       ELSE Unless(r.suffix \in {".apk", ".aab"}, "neither .apk nor .aab") \o exeAndroid(r)
            \o IF r.suffix = ".aab" THEN signAAB(r) ELSE signAPK(r)

-----------------------------------------------------------------------------
(* ios, tvos.                                                              *)

Device == {"arm", "arm64"}
iosSimulatorArch(a) == a \in {"386", "amd64", "simarm64"}
iosSimulatorBuild(archs) == archs # <<>> /\ iosSimulatorArch(archs[1])

\* The floor is applied once, to the architectures that were asked for.
IOSFloor(r) ==
    IF r.minsdk # 0 THEN r.minsdk ELSE IF r.target = "tvos" THEN 11 ELSE 13

iosPlatform(target, simulator) == <<IF target = "ios" THEN "iphone" ELSE "appletv", simulator>>
iosCompilerConfiguration(r, a) ==
    [of |-> "program", arch |-> a, platform |-> iosPlatform(r.target, iosSimulatorArch(a)), min |-> IOSFloor(r)]
iosManifestFor(r, archs) ==
    [of |-> "plist", platform |-> iosPlatform(r.target, iosSimulatorBuild(archs)), min |-> IOSFloor(r),
     modes |-> IF "notifications" \in graphPermissions(r) THEN {"remote-notification"} ELSE {}]

Compiles(r, archs) ==
    ForEach(archs, LAMBDA a :
        Unless(a \in Device \/ iosSimulatorArch(a), "unsupported -arch") \o Do("xcrun")
        \o Start(a, iosCompilerConfiguration(r, a))) \o Await

\* lipo has nothing to join when no architecture was left.
exeIOS(r, archs, at) ==
    To(at, "RemoveAll", "partial", "partial") \o Compiles(r, archs) \o Unless(archs # <<>>, "lipo") \o Do("lipo")
    \o Makes("Info.plist", iosManifestFor(r, archs)) \o Do("icons") \o To(at, "plutil", "partial", "whole")

archiveIOS(r, archs) ==
    Unless(r.suffix = ".framework", "not .framework") \o Out("RemoveAll", "partial", "partial")
    \o Do("symlinks") \o Compiles(r, archs) \o Do("lipo") \o Do("header") \o Out("modulemap", "partial", "whole")

\* Only the device's programs go into an .ipa, only the simulator's into an .app.
ForDevice(r) == r.suffix \in {"", ".ipa"}
Kept(r, a) == IF ForDevice(r) THEN a \in Device ELSE iosSimulatorArch(a)

buildIOS(r) ==
    LET archs == ForEach(getArchs(r), LAMBDA a : OnlyIf(Kept(r, a), <<a>>))
    IN IF r.mode = "archive" THEN archiveIOS(r, getArchs(r))
       ELSE IF ~ForDevice(r) THEN Unless(r.suffix = ".app", "neither .app nor .ipa") \o exeIOS(r, archs, {"it"})
       ELSE exeIOS(r, archs, {}) \o Do("profiles") \o Do("signApple") \o Out("zip", "partial", "whole")

-----------------------------------------------------------------------------
(* macos and windows.                                                      *)

Delivered(r, a) == IF Artifacts(r) = {"it"} THEN {"it"} ELSE {a}

buildMac(r) ==
    Unless(r.suffix \in {"", ".app"}, "not .app") \o Do("icon")
    \o ForEach(getArchs(r), LAMBDA a :
           Do("buildProgram") \o Do(IF r.key THEN "signProgram" ELSE "signAdHoc") \o Do("dittozip")
           \o OnlyIf("id" \in r.notary, Do("notarize")) \o To(Delivered(r, a), "dittounzip", "partial", "whole"))

\* WindowsBuild has what is in these steps: everything is staged, then published or put back.
buildWindows(r) ==
    Do("windowsSignerFor") \o Unless(r.suffix \in {"", ".exe"}, "not .exe") \o Unless(r.minsdk <= 10, "minsdk") \o Do("icon")
    \o ForEach(getArchs(r), LAMBDA a : Do("buildArch"))
    \o To(Artifacts(r), "publishPrograms", Keep, "whole")

Build(r) ==
    CASE r.target = "js" -> buildJS(r)
      [] r.target \in {"ios", "tvos"} -> buildIOS(r)
      [] r.target = "android" -> buildAndroid(r)
      [] r.target = "windows" -> buildWindows(r)
      [] OTHER -> buildMac(r)
=============================================================================
