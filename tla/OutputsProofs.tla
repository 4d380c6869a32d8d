--------------------------- MODULE OutputsProofs ----------------------------
(***************************************************************************)
(* Of the parts of Outputs, for every value of their constants: what each  *)
(* keeps true of the files it writes, and the theorems that follow.        *)
(*                                                                         *)
(* Each part has an inductive invariant, the lemma that its initial states *)
(* satisfy it (Start), that a step keeps it (Step) and what follows from   *)
(* it (Safe).  A behaviour is of one part, so the invariants of the parts  *)
(* are one of OutputsSpec.                                                 *)
(***************************************************************************)
EXTENDS PartsProofs

(***************************************************************************)
(* The Windows build: what each program's name leads to and what is set    *)
(* aside, at every location.                                               *)
(***************************************************************************)
Architectures == 1 .. Archs
Finished == IF signer THEN "verified" ELSE "linked"
Before(a) == IF a \in had THEN "old" ELSE "none"

Untouched(a) == public[a] = Before(a) /\ backup[a] = "none"
SetAside(a)  == public[a] = "none" /\ backup[a] = Before(a)
InPlace(a)   == public[a] = Finished /\ backup[a] = Before(a)
Survives(a)  == /\ public[a] \in {"none", "old", Finished}
                /\ a \in had => public[a] = "old" \/ backup[a] = "old"
Restored(a)  == Survives(a) /\ (~undone => Untouched(a))

SignPcs == {"import", "sign", "verify", "forget"}
BuildPcs == {"resource", "reserve", "link", "keep", "clean"} \cup SignPcs

WindowsType ==
    /\ arch \in Architectures /\ run \in Nat \ {0}
    /\ had \subseteq Architectures /\ syso \subseteq Architectures
    /\ store \subseteq 1 .. run
    /\ staged \in [Architectures -> Windows!Programs]
    /\ public \in [Architectures -> Windows!Programs]
    /\ backup \in [Architectures -> {"none", "old"}]

WindowsPlaces ==
    /\ wPc \in BuildPcs => published = {} /\ ~undone /\ \A a \in Architectures : Untouched(a)
    /\ wPc = "preserve" =>
           /\ published = {} /\ ~undone
           /\ \A a \in Architectures : IF a < arch THEN SetAside(a) ELSE Untouched(a)
    /\ wPc = "publish" =>
           /\ published = 1 .. arch - 1 /\ ~undone
           /\ \A a \in Architectures : IF a < arch THEN InPlace(a) ELSE SetAside(a)
    /\ wPc = "rollback" =>
           /\ published # Architectures
           /\ \A a \in Architectures :
                 IF a > arch THEN Restored(a)
                 ELSE IF a \in published THEN InPlace(a) ELSE Untouched(a) \/ SetAside(a)
    /\ wPc = "drop" =>
           /\ published = Architectures /\ ~undone
           /\ \A a \in Architectures : public[a] = Finished /\ (a < arch => backup[a] = "none")
    /\ wPc \in {"unstage", "returned"} =>
           \/ published = Architectures /\ \A a \in Architectures : public[a] = Finished
           \/ published # Architectures /\ wAnswer = "error" /\ \A a \in Architectures : Restored(a)
    /\ wPc = "killed" => Windows!PreviousSurvives

(***************************************************************************)
(* What a run that has not failed has put beside the programs.             *)
(***************************************************************************)
PublishPcs == {"preserve", "publish", "drop"}

WindowsAnswers ==
    /\ wPc \in BuildPcs \cup PublishPcs \cup {"rollback", "unstage", "returned", "killed"}
    /\ wPc \in BuildPcs \cup PublishPcs /\ wPc \notin {"forget", "clean"} => wAnswer = "none"
    /\ wPc \in {"forget", "clean", "unstage", "killed"} => wAnswer \in {"none", "error"}
    /\ wPc = "rollback" => wAnswer = "error"
    /\ wPc \in SignPcs => signer
    /\ wPc \notin {"sign", "verify", "forget", "killed"} /\ wAnswer # "error" => run \notin store

WindowsHidden ==
    /\ wPc \in BuildPcs => \A a \in Architectures : a < arch => staged[a] = Finished /\ a \notin syso
    /\ wPc = "forget" /\ wAnswer = "none" => staged[arch] = "verified"
    /\ wPc \in {"keep", "clean"} /\ wAnswer = "none" => staged[arch] = Finished
    /\ wPc = "preserve" => \A a \in Architectures : staged[a] = Finished
    /\ wPc = "publish" => \A a \in Architectures : staged[a] = IF a < arch THEN "none" ELSE Finished
    /\ wPc = "drop" => staged = Windows!None
    /\ wPc \in PublishPcs => syso = {}
    /\ wPc = "unstage" /\ wAnswer = "none" => syso = {} /\ staged = Windows!None /\ backup = Windows!None
    /\ Windows!NothingStays

WindowsInv == WindowsType /\ WindowsPlaces /\ WindowsAnswers /\ WindowsHidden

LEMMA WindowsStart == Windows!Init => WindowsInv
<1> SUFFICES ASSUME Windows!Init PROVE WindowsInv
  OBVIOUS
<1> USE OutputsBounds DEF Windows!Init, Architectures, Windows!Arch, Windows!Programs, Windows!None
<1>1. WindowsType
  BY DEF WindowsType
<1>2. WindowsPlaces
  BY DEF WindowsPlaces, BuildPcs, SignPcs, Untouched, Before
<1>3. WindowsAnswers /\ WindowsHidden
  BY DEF WindowsAnswers, WindowsHidden, BuildPcs, SignPcs, PublishPcs, Windows!NothingStays
<1> QED BY <1>1, <1>2, <1>3 DEF WindowsInv

LEMMA WindowsSurvive == WindowsType /\ WindowsPlaces /\ WindowsAnswers => Windows!PreviousSurvives /\ Windows!AllOrNothing
<1> SUFFICES ASSUME WindowsType, WindowsPlaces, WindowsAnswers PROVE Windows!PreviousSurvives /\ Windows!AllOrNothing
  OBVIOUS
<1> USE DEF Architectures, Windows!Arch, Finished
<1>1. Windows!PreviousSurvives
  <2>1. CASE wPc = "killed"
    BY <2>1 DEF WindowsPlaces
  <2>2. CASE published = Architectures /\ \A a \in Architectures : public[a] = Finished
    BY <2>2 DEF Windows!PreviousSurvives
  <2>3. CASE wPc # "killed" /\ ~(published = Architectures /\ \A a \in Architectures : public[a] = Finished)
    <3>1. \A a \in Architectures : Untouched(a) \/ SetAside(a) \/ InPlace(a) \/ Restored(a)
      BY <2>3 DEF WindowsPlaces, WindowsAnswers, PublishPcs
    <3>2. \A a \in Architectures : Survives(a)
      BY <3>1 DEF Untouched, SetAside, InPlace, Restored, Survives, Before
    <3> QED BY <3>2 DEF Windows!PreviousSurvives, Survives
  <2> QED BY <2>1, <2>2, <2>3
<1>2. Windows!AllOrNothing
  <2> SUFFICES ASSUME wPc = "returned", ~undone
               PROVE \/ \A a \in Architectures : Windows!New(a)
                     \/ \A a \in Architectures : public[a] = IF a \in had THEN "old" ELSE "none"
    BY DEF Windows!AllOrNothing
  <2>1. CASE \A a \in Architectures : public[a] = Finished
    BY <2>1 DEF Windows!New
  <2>2. CASE \A a \in Architectures : Restored(a)
    BY <2>2 DEF Restored, Untouched, Before
  <2> QED BY <2>1, <2>2 DEF WindowsPlaces
<1> QED BY <1>1, <1>2

\* The steps between the resource and the last clean: no program's name is touched.
BuildStep ==
    \/ Windows!Resource \/ Windows!NoResource \/ Windows!Reserve \/ Windows!Link \/ Windows!LinkFails
    \/ Windows!Import \/ Windows!ImportFails \/ Windows!Sign \/ Windows!Verify \/ Windows!SignFails
    \/ Windows!Forget \/ Windows!Kept \/ Windows!Clean(TRUE) \/ Windows!Clean(FALSE)

LEMMA WindowsTypeStep == WindowsType /\ [Windows!Next]_(Windows!vars) => WindowsType'
<1> SUFFICES ASSUME WindowsType, [Windows!Next]_(Windows!vars) PROVE WindowsType'
  OBVIOUS
<1> USE OutputsBounds DEF WindowsType, Architectures, Windows!Arch, Windows!files, Windows!Programs
<1>1. CASE Windows!Resource \/ Windows!NoResource
  BY <1>1 DEF Windows!Resource, Windows!NoResource
<1>2. CASE Windows!Reserve \/ Windows!LinkFails \/ Windows!SignFails \/ Windows!Kept
           \/ Windows!DropFails \/ Windows!Kill \/ UNCHANGED Windows!vars
  <2>1. UNCHANGED <<arch, run, had, syso, store, staged, public, backup>>
    BY <1>2 DEF Windows!Reserve, Windows!LinkFails, Windows!SignFails, Windows!Kept, Windows!DropFails,
                Windows!Kill, Windows!vars
  <2> QED BY <2>1
<1>3. CASE Windows!Link \/ Windows!Sign \/ Windows!Verify
  <2>1. /\ UNCHANGED <<arch, run, had, syso, store, public, backup>>
        /\ \E x \in {"linked", "signed", "verified"} : staged' = [staged EXCEPT ![arch] = x]
    BY <1>3 DEF Windows!Link, Windows!Sign, Windows!Verify
  <2> QED BY <2>1
<1>4. CASE Windows!Import
  BY <1>4 DEF Windows!Import
<1>5. CASE Windows!ImportFails \/ Windows!Forget
  <2>1. /\ UNCHANGED <<arch, run, had, syso, public, backup>>
        /\ store' \subseteq store
        /\ staged' = staged \/ staged' = [staged EXCEPT ![arch] = "none"]
    BY <1>5 DEF Windows!ImportFails, Windows!Forget, Windows!Unstaged
  <2> QED BY <2>1
<1>6. CASE Windows!Clean(TRUE) \/ Windows!Clean(FALSE)
  <2>1. /\ UNCHANGED <<run, had, store, staged, public, backup>>
        /\ syso' \subseteq syso /\ arch' \in {arch, 1} \cup {n \in {arch + 1} : arch < Archs}
    BY <1>6 DEF Windows!Clean
  <2> QED BY <2>1
<1>7. CASE Windows!Preserve \/ Windows!Publish \/ Windows!Drop
  <2>1. /\ UNCHANGED <<run, had, syso, store>>
        /\ arch' \in {1} \cup {n \in {arch + 1} : arch < Archs}
    BY <1>7 DEF Windows!Preserve, Windows!Publish, Windows!Drop, Windows!Along
  <2>2. staged' \in [Architectures -> Windows!Programs]
    BY <1>7 DEF Windows!Preserve, Windows!Publish, Windows!Drop
  <2>3. public' \in [Architectures -> Windows!Programs]
    BY <1>7 DEF Windows!Preserve, Windows!Publish, Windows!Drop
  <2>4. backup' \in [Architectures -> {"none", "old"}]
    BY <1>7 DEF Windows!Preserve, Windows!Publish, Windows!Drop
  <2> QED BY <2>1, <2>2, <2>3, <2>4
<1>8. CASE Windows!GivesUp
  BY <1>8 DEF Windows!GivesUp
<1>9. CASE Windows!Rollback \/ Windows!RollbackFails
  <2>1. /\ UNCHANGED <<run, had, syso, store, staged>>
        /\ arch' \in {1} \cup {n \in {arch - 1} : arch > 1}
    BY <1>9 DEF Windows!Rollback, Windows!RollbackFails, Windows!Back
  <2>2. public' \in [Architectures -> Windows!Programs] /\ backup' \in [Architectures -> {"none", "old"}]
    BY <1>9 DEF Windows!Rollback, Windows!RollbackFails
  <2> QED BY <2>1, <2>2
<1>10. CASE Windows!Unstage
  BY <1>10 DEF Windows!Unstage
<1>11. CASE Windows!Again
  BY <1>11 DEF Windows!Again, Windows!None
<1> QED
  BY <1>1, <1>2, <1>3, <1>4, <1>5, <1>6, <1>7, <1>8, <1>9, <1>10, <1>11 DEF Windows!Next

LEMMA WindowsPlacesStep == WindowsInv /\ [Windows!Next]_(Windows!vars) => WindowsPlaces'
<1> SUFFICES ASSUME WindowsInv, [Windows!Next]_(Windows!vars) PROVE WindowsPlaces'
  OBVIOUS
<1>t. WindowsType /\ WindowsPlaces /\ WindowsAnswers /\ WindowsHidden /\ WindowsType'
  BY WindowsTypeStep DEF WindowsInv
<1> USE OutputsBounds DEF Architectures, Windows!Arch
<1>1. CASE BuildStep
  <2>1. wPc \in BuildPcs /\ UNCHANGED <<signer, had, public, backup, published, undone>>
    BY <1>1 DEF BuildStep, Windows!Resource, Windows!NoResource, Windows!Reserve, Windows!Link,
                Windows!LinkFails, Windows!Import, Windows!ImportFails, Windows!Sign, Windows!Verify,
                Windows!SignFails, Windows!Forget, Windows!Kept, Windows!Clean, Windows!Goto,
                Windows!files, BuildPcs, SignPcs
  <2>2. \/ wPc' \in BuildPcs
        \/ wPc' = "returned" /\ wAnswer' = "error"
        \/ wPc' = "preserve" /\ arch' = 1
    BY <1>1 DEF BuildStep, Windows!Resource, Windows!NoResource, Windows!Reserve, Windows!Link,
                Windows!LinkFails, Windows!Import, Windows!ImportFails, Windows!Sign, Windows!Verify,
                Windows!SignFails, Windows!Forget, Windows!Kept, Windows!Clean, Windows!Goto,
                Windows!Fails, BuildPcs, SignPcs
  <2>3. published = {} /\ ~undone /\ \A a \in Architectures : Untouched(a)
    BY <1>t, <2>1 DEF WindowsPlaces
  <2>4. published' = {} /\ ~undone' /\ \A a \in Architectures : Untouched(a)'
    BY <2>1, <2>3 DEF Untouched, Before
  <2>5. \A a \in Architectures : Restored(a)'
    BY <2>4 DEF Restored, Survives, Untouched, Before, Finished
  <2>6. published' # Architectures
    BY <2>4
  <2>7. CASE wPc' \in BuildPcs
    BY <2>4, <2>7 DEF WindowsPlaces, BuildPcs, SignPcs
  <2>8. CASE wPc' = "returned" /\ wAnswer' = "error"
    BY <2>5, <2>6, <2>8 DEF WindowsPlaces, BuildPcs, SignPcs
  <2>9. CASE wPc' = "preserve" /\ arch' = 1
    BY <2>4, <2>9 DEF WindowsPlaces, BuildPcs, SignPcs
  <2> QED BY <2>2, <2>7, <2>8, <2>9
<1>2. CASE Windows!Preserve
  <2>1. /\ wPc = "preserve" /\ UNCHANGED <<had, signer, published, undone, wAnswer>>
        /\ IF public[arch] = "none" THEN UNCHANGED <<public, backup>>
           ELSE public' = [public EXCEPT ![arch] = "none"] /\ backup' = [backup EXCEPT ![arch] = "old"]
        /\ IF arch < Archs THEN arch' = arch + 1 /\ wPc' = wPc ELSE arch' = 1 /\ wPc' = "publish"
    BY <1>2 DEF Windows!Preserve, Windows!Along
  <2>2. published = {} /\ ~undone /\ \A a \in Architectures : IF a < arch THEN SetAside(a) ELSE Untouched(a)
    BY <1>t, <2>1 DEF WindowsPlaces
  <2>3. \A a \in Architectures : a < arch => SetAside(a)'
    BY <1>t, <2>1, <2>2 DEF SetAside, Before, WindowsType
  <2>4. \A a \in Architectures : a = arch => SetAside(a)'
    BY <1>t, <2>1, <2>2 DEF SetAside, Untouched, Before, WindowsType
  <2>5. \A a \in Architectures : a > arch => Untouched(a)'
    BY <1>t, <2>1, <2>2 DEF Untouched, Before, WindowsType
  <2>6. CASE arch < Archs
    <3>1. wPc' = "preserve" /\ \A a \in Architectures : IF a < arch' THEN SetAside(a)' ELSE Untouched(a)'
      BY <1>t, <2>1, <2>3, <2>4, <2>5, <2>6 DEF WindowsType
    <3> QED BY <2>1, <2>2, <3>1 DEF WindowsPlaces, BuildPcs, SignPcs
  <2>7. CASE ~(arch < Archs)
    <3>1. wPc' = "publish" /\ arch' = 1 /\ \A a \in Architectures : SetAside(a)'
      BY <1>t, <2>1, <2>3, <2>4, <2>7 DEF WindowsType
    <3>2. published' = 1 .. arch' - 1
      BY <2>1, <2>2, <3>1
    <3>3. \A a \in Architectures : ~(a < arch')
      BY <3>1
    <3> QED BY <2>1, <2>2, <3>1, <3>2, <3>3 DEF WindowsPlaces, BuildPcs, SignPcs
  <2> QED BY <2>6, <2>7
<1>3. CASE Windows!Publish
  <2>1. /\ wPc = "publish" /\ UNCHANGED <<had, signer, backup, undone, wAnswer>>
        /\ public' = [public EXCEPT ![arch] = staged[arch]] /\ published' = published \cup {arch}
        /\ IF arch < Archs THEN arch' = arch + 1 /\ wPc' = wPc ELSE arch' = 1 /\ wPc' = "drop"
    BY <1>3 DEF Windows!Publish, Windows!Along
  <2>2. /\ published = 1 .. arch - 1 /\ ~undone
        /\ \A a \in Architectures : IF a < arch THEN InPlace(a) ELSE SetAside(a)
    BY <1>t, <2>1 DEF WindowsPlaces
  <2>3. staged[arch] = Finished
    BY <1>t, <2>1 DEF WindowsHidden, WindowsType
  <2>4. \A a \in Architectures : a <= arch => InPlace(a)'
    BY <1>t, <2>1, <2>2, <2>3 DEF InPlace, SetAside, Before, Finished, WindowsType
  <2>5. \A a \in Architectures : a > arch => SetAside(a)'
    BY <1>t, <2>1, <2>2 DEF SetAside, Before, WindowsType
  <2>6. published' = 1 .. arch
    BY <1>t, <2>1, <2>2 DEF WindowsType
  <2>7. CASE arch < Archs
    <3>1. /\ wPc' = "publish" /\ published' = 1 .. arch' - 1
          /\ \A a \in Architectures : IF a < arch' THEN InPlace(a)' ELSE SetAside(a)'
      BY <1>t, <2>1, <2>4, <2>5, <2>6, <2>7 DEF WindowsType
    <3> QED BY <2>1, <2>2, <3>1 DEF WindowsPlaces, BuildPcs, SignPcs
  <2>8. CASE ~(arch < Archs)
    <3>1. arch = Archs
      BY <1>t, <2>8 DEF WindowsType
    <3> QED BY <1>t, <2>1, <2>2, <2>4, <2>6, <3>1 DEF WindowsPlaces, WindowsType, InPlace, BuildPcs, SignPcs
  <2> QED BY <2>7, <2>8
<1>4. CASE Windows!GivesUp
  <2>1. /\ wPc \in {"preserve", "publish"} /\ wPc' = "rollback" /\ arch' = Archs /\ wAnswer' = "error"
        /\ UNCHANGED <<had, signer, public, backup, published, undone>>
    BY <1>4 DEF Windows!GivesUp, Windows!files, Windows!Fails
  <2>2. Archs \notin published /\ published' = published
    BY <1>t, <2>1 DEF WindowsPlaces, WindowsType
  <2>3. \A a \in Architectures : IF a \in published THEN InPlace(a) ELSE Untouched(a) \/ SetAside(a)
    BY <1>t, <2>1 DEF WindowsPlaces, WindowsType
  <2>4. \A a \in Architectures : IF a \in published' THEN InPlace(a)' ELSE Untouched(a)' \/ SetAside(a)'
    BY <2>1, <2>3 DEF InPlace, Untouched, SetAside, Before, Finished
  <2> QED BY <2>1, <2>2, <2>4 DEF WindowsPlaces, BuildPcs, SignPcs
<1>5. CASE Windows!Rollback \/ Windows!RollbackFails
  <2>1. /\ wPc = "rollback" /\ UNCHANGED <<had, signer, published, wAnswer>>
        /\ IF arch > 1 THEN arch' = arch - 1 /\ wPc' = wPc ELSE arch' = 1 /\ wPc' = "unstage"
    BY <1>5 DEF Windows!Rollback, Windows!RollbackFails, Windows!Back
  <2>2. /\ published # Architectures
        /\ \A a \in Architectures :
               IF a > arch THEN Restored(a)
               ELSE IF a \in published THEN InPlace(a) ELSE Untouched(a) \/ SetAside(a)
    BY <1>t, <2>1 DEF WindowsPlaces
  <2>3. \A a \in Architectures \ {arch} : public'[a] = public[a] /\ backup'[a] = backup[a]
    BY <1>t, <1>5 DEF Windows!Rollback, Windows!RollbackFails, WindowsType
  <2>4. undone => undone'
    BY <1>5 DEF Windows!Rollback, Windows!RollbackFails
  <2>5. \A a \in Architectures : a > arch => Restored(a)'
    BY <1>t, <2>1, <2>2, <2>3, <2>4 DEF Restored, Survives, Untouched, Before, Finished, WindowsType
  <2>6. \A a \in Architectures : a < arch => IF a \in published' THEN InPlace(a)' ELSE Untouched(a)' \/ SetAside(a)'
    BY <1>t, <2>1, <2>2, <2>3 DEF InPlace, SetAside, Untouched, Before, Finished, WindowsType
  <2>7. \A a \in Architectures : a = arch => Restored(a)'
    <3>1. IF arch \in published THEN InPlace(arch) ELSE Untouched(arch) \/ SetAside(arch)
      BY <1>t, <2>2 DEF WindowsType
    <3>2. CASE Windows!Rollback
      <4>1. /\ public'[arch] = IF backup[arch] = "old" THEN "old" ELSE IF arch \in published THEN "none" ELSE public[arch]
            /\ backup'[arch] = "none"
        BY <1>t, <3>2 DEF Windows!Rollback, WindowsType
      <4> QED BY <2>1, <3>1, <4>1 DEF Restored, Survives, Untouched, InPlace, SetAside, Before, Finished
    <3>3. CASE Windows!RollbackFails
      <4>1. /\ undone' /\ backup'[arch] = backup[arch]
            /\ \/ arch \in published /\ backup[arch] = "none" /\ public' = public
               \/ backup[arch] = "old" /\ public'[arch] = IF arch \in published THEN "none" ELSE public[arch]
        BY <1>t, <3>3 DEF Windows!RollbackFails, WindowsType
      <4> QED BY <2>1, <3>1, <4>1 DEF Restored, Survives, InPlace, SetAside, Untouched, Before, Finished
    <3> QED BY <1>5, <3>2, <3>3
  <2>8. CASE arch > 1
    <3>1. \A a \in Architectures :
              IF a > arch' THEN Restored(a)'
              ELSE IF a \in published' THEN InPlace(a)' ELSE Untouched(a)' \/ SetAside(a)'
      BY <1>t, <2>1, <2>5, <2>6, <2>7, <2>8 DEF WindowsType
    <3> QED BY <2>1, <2>2, <2>8, <3>1 DEF WindowsPlaces, BuildPcs, SignPcs
  <2>9. CASE ~(arch > 1)
    <3>1. \A a \in Architectures : Restored(a)'
      BY <1>t, <2>5, <2>7, <2>9 DEF WindowsType
    <3>2. wAnswer' = "error"
      BY <1>t, <2>1 DEF WindowsAnswers
    <3> QED BY <2>1, <2>2, <2>9, <3>1, <3>2 DEF WindowsPlaces, BuildPcs, SignPcs
  <2> QED BY <2>8, <2>9
<1>6. CASE Windows!Drop
  <2>1. /\ wPc = "drop" /\ UNCHANGED <<public, signer, published, undone>>
        /\ backup' = [backup EXCEPT ![arch] = "none"]
        /\ IF arch < Archs THEN arch' = arch + 1 /\ wPc' = wPc ELSE arch' = 1 /\ wPc' = "unstage"
    BY <1>6 DEF Windows!Drop, Windows!Along
  <2>2. /\ published = Architectures /\ ~undone
        /\ \A a \in Architectures : public[a] = Finished /\ (a < arch => backup[a] = "none")
    BY <1>t, <2>1 DEF WindowsPlaces
  <2>3. Finished' = Finished
    BY <2>1 DEF Finished
  <2> QED BY <1>t, <2>1, <2>2, <2>3 DEF WindowsPlaces, WindowsType, BuildPcs, SignPcs
<1>7. CASE Windows!DropFails \/ Windows!Unstage
  <2>1. /\ wPc \in {"drop", "unstage"} /\ wPc' \in {"unstage", "returned"}
        /\ UNCHANGED <<had, signer, public, backup, published, undone>>
        /\ wAnswer = "error" => wAnswer' = "error"
    BY <1>7 DEF Windows!DropFails, Windows!Unstage, Windows!Fails, Windows!files
  <2>2. \/ published = Architectures /\ \A a \in Architectures : public[a] = Finished
        \/ published # Architectures /\ wAnswer = "error" /\ \A a \in Architectures : Restored(a)
    BY <1>t, <2>1 DEF WindowsPlaces
  <2>3. Finished' = Finished /\ \A a \in Architectures : Restored(a) => Restored(a)'
    BY <2>1 DEF Finished, Restored, Survives, Untouched, Before
  <2> QED BY <2>1, <2>2, <2>3 DEF WindowsPlaces, BuildPcs, SignPcs
<1>8. CASE Windows!Kill
  <2>1. wPc' = "killed" /\ UNCHANGED <<had, signer, public, backup, published>>
    BY <1>8 DEF Windows!Kill, Windows!files
  <2>2. Windows!PreviousSurvives'
    BY <1>t, <2>1, WindowsSurvive DEF Windows!PreviousSurvives
  <2> QED BY <2>1, <2>2 DEF WindowsPlaces, BuildPcs, SignPcs
<1>9. CASE Windows!Again
  <2>1. /\ wPc' = "resource" /\ published' = {} /\ ~undone' /\ backup' = Windows!None
        /\ public' = [a \in Architectures |-> IF public[a] = "none" THEN "none" ELSE "old"]
        /\ had' = {a \in Architectures : public'[a] = "old"}
    BY <1>9 DEF Windows!Again
  <2>2. \A a \in Architectures : Untouched(a)'
    BY <2>1 DEF Untouched, Before, Windows!None
  <2> QED BY <2>1, <2>2 DEF WindowsPlaces, BuildPcs, SignPcs
<1>10. CASE UNCHANGED Windows!vars
  <2>1. UNCHANGED <<wPc, arch, signer, had, public, backup, published, undone, wAnswer>>
    BY <1>10 DEF Windows!vars, Windows!files
  <2> QED BY <1>t, <2>1 DEF WindowsPlaces, Untouched, SetAside, InPlace, Restored, Survives, Before, Finished,
                            Windows!PreviousSurvives
<1> QED
  BY <1>1, <1>2, <1>3, <1>4, <1>5, <1>6, <1>7, <1>8, <1>9, <1>10 DEF Windows!Next, BuildStep

LEMMA WindowsHiddenStep == WindowsInv /\ [Windows!Next]_(Windows!vars) => WindowsAnswers' /\ WindowsHidden'
<1> SUFFICES ASSUME WindowsInv, [Windows!Next]_(Windows!vars) PROVE WindowsAnswers' /\ WindowsHidden'
  OBVIOUS
<1>t. WindowsType /\ WindowsPlaces /\ WindowsAnswers /\ WindowsHidden /\ WindowsType'
  BY WindowsTypeStep DEF WindowsInv
<1> USE OutputsBounds DEF Architectures, Windows!Arch, BuildPcs, SignPcs, PublishPcs
\* A step of a build that goes on, from facts on what it leaves.
<1>b. ASSUME wPc' \in BuildPcs, arch' = arch, signer' = signer, syso' = syso \/ syso' = syso \cup {arch},
             \A a \in Architectures : a < arch => staged'[a] = staged[a],
             wPc \in BuildPcs,
             wPc' \in SignPcs => signer,
             wPc' \notin {"forget", "clean"} => wAnswer' = "none",
             wAnswer' \in {"none", "error"},
             wPc' = "forget" /\ wAnswer' = "none" => staged'[arch] = "verified",
             wPc' \in {"keep", "clean"} /\ wAnswer' = "none" => staged'[arch] = Finished,
             wPc' \notin {"sign", "verify", "forget"} /\ wAnswer' # "error" => run' \notin store'
      PROVE  WindowsAnswers' /\ WindowsHidden'
  BY <1>b, <1>t DEF WindowsAnswers, WindowsHidden, WindowsType, Finished, Windows!NothingStays
<1>1. CASE Windows!Resource \/ Windows!NoResource \/ Windows!Reserve \/ Windows!LinkFails
  <2>1. /\ UNCHANGED <<run, arch, signer, store, staged>> /\ (syso' = syso \/ syso' = syso \cup {arch})
        /\ wPc \in {"resource", "reserve", "link"}
        /\ \/ wPc' \in {"reserve", "link"} /\ wAnswer' = wAnswer
           \/ wPc' = "clean" /\ wAnswer' = "error"
    BY <1>1 DEF Windows!Resource, Windows!NoResource, Windows!Reserve, Windows!LinkFails, Windows!Goto,
                Windows!Fails, Windows!files
  <2>2. wAnswer = "none" /\ run \notin store
    BY <1>t, <2>1 DEF WindowsAnswers, WindowsHidden
  <2> QED BY <1>b, <2>1, <2>2
<1>2. CASE Windows!Link \/ Windows!Sign \/ Windows!Verify
  <2>1. /\ UNCHANGED <<run, arch, signer, store, syso, wAnswer>>
        /\ wPc \in {"link", "sign", "verify"}
        /\ \A a \in Architectures : a # arch => staged'[a] = staged[a]
        /\ \/ wPc = "link" /\ wPc' = (IF signer THEN "import" ELSE "keep") /\ staged'[arch] = "linked"
           \/ wPc = "sign" /\ wPc' = "verify" /\ staged'[arch] = "signed"
           \/ wPc = "verify" /\ wPc' = "forget" /\ staged'[arch] = "verified"
    BY <1>2, <1>t DEF Windows!Link, Windows!Sign, Windows!Verify, Windows!Goto, WindowsType
  <2>2. wAnswer = "none" /\ (wPc = "link" => run \notin store) /\ (wPc \in SignPcs => signer)
    BY <1>t, <2>1 DEF WindowsAnswers, WindowsHidden
  <2> QED BY <1>b, <1>t, <2>1, <2>2 DEF Finished, WindowsType
<1>3. CASE Windows!Import \/ Windows!ImportFails \/ Windows!SignFails
  <2>1. /\ UNCHANGED <<run, arch, signer, syso>>
        /\ \A a \in Architectures : a # arch => staged'[a] = staged[a]
        /\ \/ wPc = "import" /\ wPc' = "sign" /\ wAnswer' = wAnswer
           \/ wPc \in {"import", "sign", "verify"} /\ wPc' \in {"clean", "forget"} /\ wAnswer' = "error"
    BY <1>3, <1>t DEF Windows!Import, Windows!ImportFails, Windows!SignFails, Windows!Unstaged, Windows!Goto,
                      Windows!Fails, Windows!files, WindowsType
  <2>2. wAnswer = "none" /\ signer
    BY <1>t, <2>1 DEF WindowsAnswers, WindowsHidden
  <2> QED BY <1>b, <1>t, <2>1, <2>2 DEF WindowsType
<1>4. CASE Windows!Forget
  <2>1. /\ wPc = "forget" /\ UNCHANGED <<run, arch, signer, syso>>
        /\ \A a \in Architectures : a # arch => staged'[a] = staged[a]
        /\ \/ /\ wAnswer # "error" /\ wPc' = "keep" /\ UNCHANGED <<wAnswer, staged>> /\ store' = store \ {run}
           \/ wPc' = "clean" /\ wAnswer' = "error"
    BY <1>4, <1>t DEF Windows!Forget, Windows!Unstaged, Windows!Fails, WindowsType
  <2>2. wAnswer \in {"none", "error"} /\ signer /\ (wAnswer = "none" => staged[arch] = "verified")
    BY <1>t, <2>1 DEF WindowsAnswers, WindowsHidden
  <2> QED BY <1>b, <1>t, <2>1, <2>2 DEF Finished, WindowsType
<1>5. CASE Windows!Kept
  <2>1. /\ wPc = "keep" /\ wPc' = "clean" /\ UNCHANGED <<run, arch, signer, store, staged, syso, wAnswer>>
    BY <1>5 DEF Windows!Kept, Windows!Goto, Windows!files
  <2>2. wAnswer = "none" /\ run \notin store /\ staged[arch] = Finished
    BY <1>t, <2>1 DEF WindowsAnswers, WindowsHidden
  <2> QED BY <1>b, <2>1, <2>2
<1>6. CASE Windows!Clean(TRUE) \/ Windows!Clean(FALSE)
  <2>1. wPc = "clean" /\ UNCHANGED <<run, signer, store, staged>>
    BY <1>6 DEF Windows!Clean
  <2>2. wAnswer \in {"none", "error"} /\ \A a \in Architectures : a < arch => staged[a] = Finished /\ a \notin syso
    BY <1>t, <2>1 DEF WindowsAnswers, WindowsHidden
  <2>3. CASE wPc' = "returned" /\ wAnswer' = "error"
    BY <2>3 DEF WindowsAnswers, WindowsHidden, Windows!NothingStays
  <2>4. CASE wAnswer # "error" /\ wAnswer' = wAnswer /\ syso' = syso \ {arch}
             /\ IF arch < Archs THEN arch' = arch + 1 /\ wPc' = "resource" ELSE arch' = 1 /\ wPc' = "preserve"
    <3>1. staged[arch] = Finished /\ run \notin store /\ wAnswer = "none"
      BY <1>t, <2>1, <2>2, <2>4 DEF WindowsAnswers, WindowsHidden
    <3>2. \A a \in Architectures : a <= arch => staged'[a] = Finished' /\ a \notin syso'
      BY <1>t, <2>1, <2>2, <2>4, <3>1 DEF Finished, WindowsType
    <3>3. CASE arch < Archs
      <4>1. \A a \in Architectures : a < arch' => staged'[a] = Finished' /\ a \notin syso'
        BY <1>t, <2>4, <3>2, <3>3 DEF WindowsType
      <4> QED BY <2>1, <2>4, <3>1, <3>3, <4>1 DEF WindowsAnswers, WindowsHidden, Windows!NothingStays
    <3>4. CASE ~(arch < Archs)
      <4>1. arch = Archs /\ wPc' = "preserve"
        BY <1>t, <2>4, <3>4 DEF WindowsType
      <4>2. \A a \in Architectures : staged'[a] = Finished' /\ a \notin syso'
        BY <1>t, <3>2, <4>1 DEF WindowsType
      <4>3. syso' = {}
        BY <1>t, <4>2 DEF WindowsType
      <4> QED BY <2>1, <2>4, <3>1, <4>1, <4>2, <4>3 DEF WindowsAnswers, WindowsHidden, Windows!NothingStays
    <3> QED BY <3>3, <3>4
  <2> QED BY <1>6, <2>3, <2>4 DEF Windows!Clean, Windows!Fails
<1>7. CASE Windows!Preserve
  <2>1. /\ wPc = "preserve" /\ UNCHANGED <<run, signer, store, staged, syso, wAnswer>>
        /\ IF arch < Archs THEN arch' = arch + 1 /\ wPc' = wPc ELSE arch' = 1 /\ wPc' = "publish"
    BY <1>7 DEF Windows!Preserve, Windows!Along
  <2>2. /\ wAnswer = "none" /\ run \notin store /\ syso = {}
        /\ \A a \in Architectures : staged[a] = Finished
    BY <1>t, <2>1 DEF WindowsAnswers, WindowsHidden
  <2>3. Finished' = Finished
    BY <2>1 DEF Finished
  <2>4. wPc' = "publish" => \A a \in Architectures : ~(a < arch')
    BY <2>1
  <2> QED BY <2>1, <2>2, <2>3, <2>4 DEF WindowsAnswers, WindowsHidden, Windows!NothingStays
<1>8. CASE Windows!Publish
  <2>1. /\ wPc = "publish" /\ UNCHANGED <<run, signer, store, syso, wAnswer>>
        /\ staged' = [staged EXCEPT ![arch] = "none"]
        /\ IF arch < Archs THEN arch' = arch + 1 /\ wPc' = wPc ELSE arch' = 1 /\ wPc' = "drop"
    BY <1>8 DEF Windows!Publish, Windows!Along
  <2>2. /\ wAnswer = "none" /\ run \notin store /\ syso = {}
        /\ \A a \in Architectures : staged[a] = IF a < arch THEN "none" ELSE Finished
    BY <1>t, <2>1 DEF WindowsAnswers, WindowsHidden
  <2>3. \A a \in Architectures : staged'[a] = IF a < arch + 1 THEN "none" ELSE Finished
    BY <1>t, <2>1, <2>2 DEF WindowsType
  <2>4. Finished' = Finished
    BY <2>1 DEF Finished
  <2>5. CASE arch < Archs
    BY <2>1, <2>2, <2>3, <2>4, <2>5 DEF WindowsAnswers, WindowsHidden, Windows!NothingStays
  <2>6. CASE ~(arch < Archs)
    <3>1. arch = Archs
      BY <1>t, <2>6 DEF WindowsType
    <3>2. \A a \in Architectures : staged'[a] = "none"
      BY <2>3, <3>1
    <3>3. staged' = Windows!None
      BY <1>t, <3>2 DEF WindowsType, Windows!None
    <3> QED BY <2>1, <2>2, <2>6, <3>3 DEF WindowsAnswers, WindowsHidden, Windows!NothingStays
  <2> QED BY <2>5, <2>6
<1>9. CASE Windows!GivesUp \/ Windows!DropFails
  <2>1. wAnswer' = "error" /\ wPc' \in {"rollback", "unstage"}
    BY <1>9 DEF Windows!GivesUp, Windows!DropFails, Windows!Fails
  <2> QED BY <2>1 DEF WindowsAnswers, WindowsHidden, Windows!NothingStays
<1>10. CASE Windows!Rollback \/ Windows!RollbackFails
  <2>1. wPc = "rollback" /\ wAnswer' = wAnswer /\ wPc' \in {"rollback", "unstage"}
    BY <1>10 DEF Windows!Rollback, Windows!RollbackFails, Windows!Back
  <2>2. wAnswer' = "error"
    BY <1>t, <2>1 DEF WindowsAnswers, WindowsHidden
  <2> QED BY <2>1, <2>2 DEF WindowsAnswers, WindowsHidden, Windows!NothingStays
<1>11. CASE Windows!Drop
  <2>1. /\ wPc = "drop" /\ UNCHANGED <<run, signer, store, staged, syso, wAnswer>>
        /\ backup' = [backup EXCEPT ![arch] = "none"]
        /\ IF arch < Archs THEN arch' = arch + 1 /\ wPc' = wPc ELSE arch' = 1 /\ wPc' = "unstage"
    BY <1>11 DEF Windows!Drop, Windows!Along
  <2>2. wAnswer = "none" /\ run \notin store /\ syso = {} /\ staged = Windows!None
    BY <1>t, <2>1 DEF WindowsAnswers, WindowsHidden
  <2>3. Windows!None' = Windows!None
    BY DEF Windows!None
  <2>4. wPc' = "unstage" => backup' = Windows!None
    <3> SUFFICES ASSUME wPc' = "unstage" PROVE backup' = Windows!None
      OBVIOUS
    <3>1. arch = Archs
      BY <1>t, <2>1 DEF WindowsType
    <3>2. \A a \in Architectures : a < arch => backup[a] = "none"
      BY <1>t, <2>1 DEF WindowsPlaces
    <3>3. \A a \in Architectures : backup'[a] = "none"
      BY <1>t, <2>1, <3>1, <3>2 DEF WindowsType
    <3> QED BY <1>t, <3>3 DEF WindowsType, Windows!None
  <2> QED BY <2>1, <2>2, <2>3, <2>4 DEF WindowsAnswers, WindowsHidden, Windows!NothingStays
<1>12. CASE Windows!Unstage
  <2>1. /\ wPc = "unstage" /\ wPc' = "returned" /\ UNCHANGED <<run, store, syso, backup>>
        /\ \E stays \in SUBSET keep : staged' = [a \in Architectures |-> IF a \in keep \ stays THEN "none" ELSE staged[a]]
        /\ wAnswer' = IF wAnswer = "none" THEN "nil" ELSE wAnswer
    BY <1>12 DEF Windows!Unstage
  <2>2. wAnswer \in {"none", "error"} /\ (wAnswer = "none" => run \notin store)
        /\ (wAnswer = "none" => syso = {} /\ staged = Windows!None /\ backup = Windows!None)
    BY <1>t, <2>1 DEF WindowsAnswers, WindowsHidden
  <2>3. wAnswer = "none" => staged' = Windows!None
    BY <2>1, <2>2 DEF Windows!None
  <2> QED BY <2>1, <2>2, <2>3 DEF WindowsAnswers, WindowsHidden, Windows!NothingStays
<1>13. CASE Windows!Kill
  <2>1. wPc \notin {"returned", "killed"} /\ wPc' = "killed" /\ wAnswer' = wAnswer
    BY <1>13 DEF Windows!Kill
  <2>2. wAnswer' \in {"none", "error"}
    BY <1>t, <2>1 DEF WindowsAnswers, WindowsHidden
  <2> QED BY <2>1, <2>2 DEF WindowsAnswers, WindowsHidden, Windows!NothingStays
<1>14. CASE Windows!Again
  <2>1. /\ run' = run + 1 /\ wPc' = "resource" /\ arch' = 1 /\ wAnswer' = "none" /\ store' = store
    BY <1>14 DEF Windows!Again
  <2>2. run' \notin store'
    BY <1>t, <2>1 DEF WindowsType
  <2>3. \A a \in Architectures : ~(a < arch')
    BY <2>1
  <2> QED BY <2>1, <2>2, <2>3 DEF WindowsAnswers, WindowsHidden, Windows!NothingStays
<1>15. CASE UNCHANGED Windows!vars
  <2>1. UNCHANGED <<run, wPc, arch, signer, syso, store, staged, backup, wAnswer>>
    BY <1>15 DEF Windows!vars, Windows!files
  <2> QED BY <1>t, <2>1 DEF WindowsAnswers, WindowsHidden, Finished, Windows!None, Windows!NothingStays
<1> QED
  BY <1>1, <1>2, <1>3, <1>4, <1>5, <1>6, <1>7, <1>8, <1>9, <1>10, <1>11, <1>12, <1>13, <1>14, <1>15
  DEF Windows!Next

LEMMA WindowsStep == WindowsInv /\ [Windows!Next]_(Windows!vars) => WindowsInv'
BY WindowsTypeStep, WindowsPlacesStep, WindowsHiddenStep DEF WindowsInv

(***************************************************************************)
(* Apple signing: the profiles already looked at.                          *)
(***************************************************************************)
Lacks(p) == Signing!Matches(p) /\ Signing!missingEntitlement(p) # {}

SigningInv ==
    /\ at \in Nat \ {0}
    /\ \E n \in Nat : DOMAIN profiles = 1 .. n
    /\ \A i \in DOMAIN profiles : i < at /\ Signing!Fits(profiles[i]) => i \in unread
    /\ missing => \E i \in DOMAIN profiles : Lacks(profiles[i])
    /\ result = "signed" => embedded = at /\ Signing!Fits(profiles[at])
    /\ result \in {"no entitlement", "no identity", "no profile"} => at \notin DOMAIN profiles
    /\ result = "no entitlement" => missing

LEMMA SigningStart == Signing!Init => SigningInv
<1> SUFFICES ASSUME Signing!Init PROVE SigningInv
  OBVIOUS
<1>1. PICK n \in 0 .. MaxProfiles : profiles \in [1 .. n -> Profiles]
  BY DEF Signing!Init
<1>2. n \in Nat /\ DOMAIN profiles = 1 .. n
  BY <1>1, OutputsBounds
<1>3. \A i \in DOMAIN profiles : ~(i < at)
  BY <1>2 DEF Signing!Init
<1> QED BY <1>2, <1>3 DEF Signing!Init, SigningInv

LEMMA SigningStep == SigningInv /\ [Signing!Next]_(Signing!vars) => SigningInv'
<1> SUFFICES ASSUME SigningInv, [Signing!Next]_(Signing!vars) PROVE SigningInv'
  OBVIOUS
\* The next profile: this one cannot be the one that fits, or was not read.
<1>c. ASSUME Signing!Looking, Signing!Continue, unread \subseteq unread',
             Signing!Fits(Signing!Profile) => at \in unread',
             missing' => missing \/ Lacks(Signing!Profile)
      PROVE  SigningInv'
  <2>1. at \in DOMAIN profiles /\ at' = at + 1 /\ profiles' = profiles /\ result = "none" /\ result' = "none"
    BY <1>c DEF Signing!Looking, Signing!Continue
  <2>2. \A i \in DOMAIN profiles : i < at + 1 /\ Signing!Fits(profiles[i]) => i \in unread'
    <3>1. at \in Nat /\ \E n \in Nat : DOMAIN profiles = 1 .. n
      BY DEF SigningInv
    <3>2. \A i \in DOMAIN profiles : i < at + 1 => i < at \/ i = at
      BY <3>1
    <3> QED BY <1>c, <3>2 DEF SigningInv, Signing!Profile
  <2>3. missing' => \E i \in DOMAIN profiles : Lacks(profiles[i])
    BY <1>c, <2>1 DEF SigningInv, Signing!Profile
  <2> QED BY <2>1, <2>2, <2>3 DEF SigningInv
<1>1. CASE Signing!Unreadable
  BY <1>1, <1>c DEF Signing!Unreadable
<1>2. CASE Signing!NotThisOne
  BY <1>2, <1>c DEF Signing!NotThisOne, Signing!Fits
<1>3. CASE Signing!EntitlementsUnread
  BY <1>3, <1>c DEF Signing!EntitlementsUnread, Signing!Candidate
<1>4. CASE Signing!LacksOne
  BY <1>4, <1>c DEF Signing!LacksOne, Signing!Candidate, Signing!Fits, Lacks
<1>5. CASE Signing!Signs("signed") \/ Signing!Signs("failed")
  <2>1. /\ UNCHANGED <<profiles, at, missing, unread>> /\ embedded' = at
        /\ result' \in {"signed", "failed"} /\ Signing!Fits(profiles[at])
    BY <1>5 DEF Signing!Signs, Signing!Embeds, Signing!Candidate, Signing!Fits, Signing!Profile
  <2> QED BY <2>1 DEF SigningInv
<1>6. CASE Signing!Refuses
  BY <1>6 DEF Signing!Refuses, SigningInv
<1>7. CASE UNCHANGED Signing!vars
  BY <1>7 DEF Signing!vars, SigningInv
<1> QED BY <1>1, <1>2, <1>3, <1>4, <1>5, <1>6, <1>7 DEF Signing!Next

LEMMA SigningSafe == SigningInv => Signing!SignedAsEmbedded
<1> SUFFICES ASSUME SigningInv PROVE Signing!SignedAsEmbedded
  OBVIOUS
<1>0. at \in Nat \ {0} /\ \E n \in Nat : DOMAIN profiles = 1 .. n
  BY DEF SigningInv
<1>1. at \notin DOMAIN profiles => \A i \in DOMAIN profiles : i < at
  BY <1>0
<1> QED BY <1>1 DEF SigningInv, Signing!SignedAsEmbedded, Lacks

(***************************************************************************)
(* The migrations.                                                         *)
(***************************************************************************)
Names == {a.name : a \in Asks} \cup {"another"}
Ids == [kind : {"migration", "legacy", "model"}, date : Nat, seq : Nat, name : Names]
CommandPcs == {"list", "parse", "number", "write", "fill", "returned"}
NumberedUpTo(S, b) == \A p \in S : p.seq <= b
Numbered(S) == \E b \in Nat : NumberedUpTo(S, b)

\* A file comes after what its command saw, and declares another type.
Knowing(q, saw) == \A p \in saw \ {q} : (p.date = q.date => p.seq < q.seq) /\ p.name # q.name

MigrationType ==
    /\ today \in Nat
    /\ DOMAIN dir \subseteq Ids
    /\ \A p \in DOMAIN dir : DOMAIN dir[p] = {"by", "whole", "saw"}
    /\ ask \in [Generators -> Asks] /\ gPc \in [Generators -> CommandPcs]
    /\ seen \in [Generators -> SUBSET Ids] /\ declared \in [Generators -> SUBSET Ids]
    /\ made \in [Generators -> SUBSET Ids] /\ left \in [Generators -> Seq(Ids)]
    /\ Numbered(DOMAIN dir) /\ \A g \in Generators : Numbered(seen[g])

LEMMA LeastNatural ==
    ASSUME NEW S \in SUBSET Nat, S # {}
    PROVE  \E n \in S : \A m \in S : n <= m
<1>1. PICK x \in S : \A y \in S : ~(<<y, x>> \in OpToRel(<, Nat))
  BY WFMin, NatLessThanWellFounded
<1>2. \A y \in S : ~(y < x)
  BY <1>1 DEF OpToRel
<1> QED BY <1>2

LEMMA LargestOfBounded ==
    ASSUME NEW S \in SUBSET Nat, S # {}, NEW b \in Nat, \A x \in S : x <= b
    PROVE  Migration!Max(S) \in S /\ \A x \in S : x <= Migration!Max(S)
<1> DEFINE T == {b - x : x \in S}
<1>1. T \in SUBSET Nat /\ T # {}
  <2>1. \A x \in S : b - x \in Nat
    OBVIOUS
  <2> QED BY <2>1
<1>2. PICK n \in T : \A m \in T : n <= m
  BY <1>1, LeastNatural
<1>3. PICK x \in S : n = b - x
  BY <1>2
<1>4. \A y \in S : x >= y
  <2> SUFFICES ASSUME NEW y \in S PROVE x >= y
    OBVIOUS
  <2>1. b - y \in T
    OBVIOUS
  <2> QED BY <1>2, <1>3, <2>1
<1>5. PICK z : z \in S /\ \A y \in S : z >= y
  BY <1>4
<1> QED BY <1>4 DEF Migration!Max

LEMMA NextIsAfter ==
    ASSUME MigrationType, NEW g \in Generators
    PROVE  /\ Migration!nextSequence(seen[g]) \in Nat
           /\ \A p \in seen[g] : p.date = today => p.seq < Migration!nextSequence(seen[g])
<1> DEFINE S == {0} \cup {p.seq : p \in {q \in seen[g] : q.date = today}}
<1>1. PICK b \in Nat : NumberedUpTo(seen[g], b)
  BY DEF MigrationType, Numbered
<1>2. S \in SUBSET Nat /\ S # {} /\ \A x \in S : x <= b
  BY <1>1 DEF MigrationType, Ids, NumberedUpTo
<1>3. Migration!Max(S) \in S /\ \A x \in S : x <= Migration!Max(S)
  BY <1>2, LargestOfBounded
<1>4. Migration!nextSequence(seen[g]) = Migration!Max(S) + 1
  BY DEF Migration!nextSequence
<1> HIDE DEF S
<1>5. Migration!Max(S) \in Nat
  BY <1>2, <1>3
<1>6. \A p \in seen[g] : p.date = today => p.seq \in S /\ p.seq \in Nat
  BY <1>2 DEF S
<1> QED BY <1>3, <1>4, <1>5, <1>6

LEMMA FirstIsDeclared ==
    ASSUME MigrationType, NEW g \in Generators, declared[g] # {}
    PROVE  Migration!declaredBy(g) \in declared[g]
<1> DEFINE D == {p.date : p \in declared[g]}
<1>1. D \in SUBSET Nat /\ D # {}
  BY DEF MigrationType, Ids
<1>2. PICK d \in D : \A e \in D : d <= e
  BY <1>1, LeastNatural
<1> DEFINE S == {p.seq : p \in {q \in declared[g] : q.date = d}}
<1>3. S \in SUBSET Nat /\ S # {}
  BY <1>2 DEF MigrationType, Ids
<1>4. PICK n \in S : \A m \in S : n <= m
  BY <1>3, LeastNatural
<1>5. PICK p \in declared[g] : p.date = d /\ p.seq = n
  BY <1>4
<1>6. \A q \in declared[g] : p.date < q.date \/ (p.date = q.date /\ p.seq <= q.seq)
  <2> SUFFICES ASSUME NEW q \in declared[g] PROVE p.date < q.date \/ (p.date = q.date /\ p.seq <= q.seq)
    OBVIOUS
  <2>1. q.date \in D /\ d <= q.date /\ q.date \in Nat /\ d \in Nat
    BY <1>1, <1>2
  <2>2. q.date = d => q.seq \in S /\ n <= q.seq
    BY <1>4
  <2> QED BY <1>5, <2>1, <2>2
<1> QED BY <1>5, <1>6 DEF Migration!declaredBy

\* What a command read and what it is about to write.
MigrationSees ==
    \A g \in Generators :
        /\ gPc[g] = "number" => declared[g] = {p \in seen[g] : p.name = Migration!Name(g)}
        /\ gPc[g] \in {"list", "parse", "number"} => left[g] = << >>
        /\ \A i \in DOMAIN left[g] :
              left[g][i].kind = "model" \/ left[g][i] \in seen[g] \/ Knowing(left[g][i], seen[g])
        /\ \A p \in seen[g] : p.kind # "model" /\ p \in DOMAIN dir \cup removed

\* Who wrote the files.
Owns(g, p) == p \in DOMAIN dir /\ (dir[p].by = g \/ ask[dir[p].by].force)
OwnsItsFiles(g) ==
    /\ \A p \in made[g] \ removed : Owns(g, p)
    /\ gPc[g] = "fill" => left[g] # << >> /\ \A p : p = Migration!File(g) => Owns(g, p)
MigrationOwns == \A g \in Generators : OwnsItsFiles(g)

MigrationKnows == \A q \in Migration!InDirectory \ removed : Knowing(q, dir[q].saw)

MigrationInv == MigrationType /\ MigrationSees /\ MigrationOwns /\ MigrationKnows

LEMMA MigrationStart ==
    ASSUME Migration!Init
    PROVE  MigrationInv
<1>1. MigrationType
  <2>1. Migration!Id(1, 2, "another") \in Ids
    BY DEF Migration!Id, Ids, Names
  <2>2. DOMAIN dir \subseteq {Migration!Id(1, 2, "another")} /\ \A p \in DOMAIN dir : DOMAIN dir[p] = {"by", "whole", "saw"}
    BY DEF Migration!Init, Migration!Absent, Migration!Remaining
  <2>3. \A p \in DOMAIN dir : p.seq <= 2
    BY <2>2 DEF Migration!Id
  <2>4. Numbered(DOMAIN dir) /\ \A g \in Generators : Numbered(seen[g])
    <3>1. \A g \in Generators : seen[g] = {}
      BY DEF Migration!Init
    <3> QED BY <2>3, <3>1 DEF Numbered, NumberedUpTo
  <2>5. /\ today \in Nat /\ ask \in [Generators -> Asks] /\ gPc \in [Generators -> CommandPcs]
        /\ seen \in [Generators -> SUBSET Ids] /\ declared \in [Generators -> SUBSET Ids]
        /\ made \in [Generators -> SUBSET Ids]
    <3>1. gPc \in [Generators -> CommandPcs] /\ today \in Nat /\ ask \in [Generators -> Asks]
      <4>1. today = 1 /\ ask \in [Generators -> Asks] /\ gPc = [g \in Generators |-> "list"]
        BY DEF Migration!Init
      <4>2. [g \in Generators |-> "list"] \in [Generators -> CommandPcs]
        BY DEF CommandPcs
      <4> QED BY <4>1, <4>2
    <3>2. [g \in Generators |-> {}] \in [Generators -> SUBSET Ids]
      OBVIOUS
    <3> QED BY <3>1, <3>2 DEF Migration!Init
  <2>6. left \in [Generators -> Seq(Ids)]
    <3>1. left = [g \in Generators |-> << >>] /\ << >> \in Seq(Ids)
      BY DEF Migration!Init
    <3> QED BY <3>1
  <2> QED BY <2>1, <2>2, <2>4, <2>5, <2>6 DEF MigrationType
<1>2. MigrationSees
  BY DEF Migration!Init, MigrationSees
<1>3. MigrationOwns
  BY DEF Migration!Init, MigrationOwns, OwnsItsFiles
<1>4. MigrationKnows
  <2>1. \A q \in DOMAIN dir : dir[q].saw = {}
    <3>1. CASE dir = Migration!Absent
      BY <3>1 DEF Migration!Absent
    <3>2. CASE dir = Migration!Remaining
      BY <3>2 DEF Migration!Remaining
    <3> QED BY <3>1, <3>2 DEF Migration!Init
  <2> QED BY <2>1 DEF MigrationKnows, Knowing, Migration!InDirectory
<1> QED BY <1>1, <1>2, <1>3, <1>4 DEF MigrationInv

LEMMA NumberIsKnowing ==
    ASSUME MigrationType, MigrationSees, NEW g \in Generators, gPc[g] = "number", ~Migration!Refused(g)
    PROVE  /\ Migration!Model(Migration!Name(g)) \in Ids
           /\ IF ask[g].kind = "module"
              THEN /\ Migration!resolveMigrationID(g) \in Ids
                   /\ \/ Migration!resolveMigrationID(g) \in seen[g]
                      \/ Knowing(Migration!resolveMigrationID(g), seen[g])
              ELSE Migration!makeMigration(g) \in Ids /\ Knowing(Migration!makeMigration(g), seen[g])
<1> DEFINE new == Migration!makeMigration(g)
<1>1. Migration!Name(g) \in Names /\ ask[g] \in Asks
  BY DEF MigrationType, Migration!Name, Names
<1>2. /\ Migration!nextSequence(seen[g]) \in Nat
      /\ \A p \in seen[g] : p.date = today => p.seq < Migration!nextSequence(seen[g])
  BY NextIsAfter
<1>3. /\ new \in Ids /\ new.date = today /\ new.seq = Migration!nextSequence(seen[g])
      /\ new.name = Migration!Name(g)
  BY <1>1, <1>2 DEF Migration!makeMigration, Migration!Id, Ids, MigrationType
<1>4. Migration!Model(Migration!Name(g)) \in Ids
  BY <1>1 DEF Migration!Model, Ids
<1>5. declared[g] = {p \in seen[g] : p.name = Migration!Name(g)}
  BY DEF MigrationSees
<1>6. declared[g] \ {new} = {} => Knowing(new, seen[g])
  BY <1>2, <1>3, <1>5 DEF Knowing
<1>7. CASE ask[g].kind = "module"
  <2>1. CASE declared[g] = {}
    BY <1>3, <1>4, <1>6, <1>7, <2>1 DEF Migration!resolveMigrationID, Migration!makeMigration
  <2>2. CASE declared[g] # {}
    <3>1. Migration!resolveMigrationID(g) \in declared[g]
      BY <2>2, FirstIsDeclared DEF Migration!resolveMigrationID
    <3>2. declared[g] \subseteq seen[g] /\ seen[g] \subseteq Ids
      BY <1>5 DEF MigrationType
    <3> QED BY <1>4, <1>7, <3>1, <3>2
  <2> QED BY <2>1, <2>2
<1>8. CASE ask[g].kind # "module"
  BY <1>3, <1>4, <1>6, <1>8 DEF Migration!Refused
<1> QED BY <1>7, <1>8

LEMMA MigrationTypeStep ==
    ASSUME MigrationType, MigrationSees, MigrationOwns, OutputsBounds, [Migration!Next]_(Migration!migrations)
    PROVE  MigrationType'
<1> USE DEF CommandPcs
<1>1. ASSUME NEW g \in Generators, Migration!List(g)
      PROVE  MigrationType'
  <2>1. Numbered(Migration!InDirectory) /\ Migration!InDirectory \subseteq Ids
    BY DEF MigrationType, Migration!InDirectory, Numbered, NumberedUpTo
  <2> QED BY <1>1, <2>1 DEF MigrationType, Migration!List, Migration!Goto
<1>2. ASSUME NEW g \in Generators, Migration!Parse(g)
      PROVE  MigrationType'
  BY <1>2 DEF MigrationType, Migration!Parse, Migration!Goto
<1>3. ASSUME NEW g \in Generators, Migration!ParseFails(g) \/ Migration!Refuses(g) \/ Migration!WriteFails(g)
                                   \/ Migration!Report(g) \/ Migration!Kill(g)
      PROVE  MigrationType'
  BY <1>3 DEF MigrationType, Migration!ParseFails, Migration!Refuses, Migration!WriteFails,
              Migration!Report, Migration!Kill, Migration!Goto
<1>4. ASSUME NEW g \in Generators, Migration!Number(g)
      PROVE  MigrationType'
  <2> DEFINE files == IF ask[g].kind = "module"
                      THEN <<Migration!Model(Migration!Name(g)), Migration!resolveMigrationID(g)>>
                      ELSE <<Migration!makeMigration(g)>>
  <2>1. files \in Seq(Ids)
    BY <1>4, NumberIsKnowing DEF Migration!Number, Migration!Goto
  <2>2. /\ left' = [left EXCEPT ![g] = files]
        /\ UNCHANGED <<today, dir, ask, seen, declared, made>>
    BY <1>4 DEF Migration!Number
  <2>3. gPc' = [gPc EXCEPT ![g] = "write"]
    BY <1>4 DEF Migration!Number, Migration!Goto
  <2> QED BY <2>1, <2>2, <2>3 DEF MigrationType
<1>5. ASSUME NEW g \in Generators, Migration!Create(g)
      PROVE  MigrationType'
  <2>1. /\ left[g] # << >> /\ gPc' = [gPc EXCEPT ![g] = "fill"]
        /\ UNCHANGED <<today, ask, seen, declared, left, made>>
    BY <1>5 DEF Migration!Create, Migration!Writing
  <2>2. Migration!File(g) \in Ids
    BY <2>1 DEF MigrationType, Migration!File
  <2>3. /\ DOMAIN dir' = DOMAIN dir \cup {Migration!File(g)}
        /\ \A p \in DOMAIN dir' : DOMAIN dir'[p] = {"by", "whole", "saw"}
    BY <1>5 DEF Migration!Create, Migration!Opened, MigrationType
  <2>4. Numbered(DOMAIN dir')
    <3>1. PICK b \in Nat : NumberedUpTo(DOMAIN dir, b)
      BY DEF MigrationType, Numbered
    <3>2. Migration!File(g).seq \in Nat /\ \A p \in DOMAIN dir : p.seq \in Nat
      BY <2>2 DEF Ids, MigrationType
    <3>3. NumberedUpTo(DOMAIN dir', b + Migration!File(g).seq)
      BY <2>3, <3>1, <3>2 DEF NumberedUpTo
    <3> QED BY <3>2, <3>3 DEF Numbered
  <2> QED BY <2>1, <2>2, <2>3, <2>4 DEF MigrationType
<1>6. ASSUME NEW g \in Generators, Migration!Skip(g)
      PROVE  MigrationType'
  BY <1>6, HeadTailProperties DEF MigrationType, Migration!Skip, Migration!Rest, Migration!Writing
<1>7. ASSUME NEW g \in Generators, Migration!Fill(g)
      PROVE  MigrationType'
  <2>1. left[g] # << >> /\ left[g] \in Seq(Ids) /\ Migration!File(g) \in Ids
    BY <1>7 DEF MigrationOwns, OwnsItsFiles, Owns, MigrationType, Migration!Fill, Migration!Goto, Migration!File
  <2>2. Tail(left[g]) \in Seq(Ids)
    BY <2>1
  <2>3. DOMAIN dir' = DOMAIN dir /\ \A p \in DOMAIN dir' : DOMAIN dir'[p] = {"by", "whole", "saw"}
    BY <1>7 DEF Migration!Fill, MigrationType
  <2>4. /\ gPc' = [gPc EXCEPT ![g] = "write"] /\ left' = [left EXCEPT ![g] = Tail(left[g])]
        /\ made' = [made EXCEPT ![g] = made[g] \cup {Migration!File(g)}]
        /\ UNCHANGED <<today, ask, seen, declared>>
    BY <1>7 DEF Migration!Fill, Migration!Goto, Migration!Rest
  <2> QED BY <2>1, <2>2, <2>3, <2>4 DEF MigrationType
<1>8. ASSUME Migration!Midnight
      PROVE  MigrationType'
  BY <1>8 DEF MigrationType, Migration!Midnight
<1>9. ASSUME Migration!ByHand
      PROVE  MigrationType'
  <2>1. PICK g \in Generators : dir' = [p \in {Migration!Legacy(Migration!Name(g))} |->
                                           [by |-> "the developer", whole |-> TRUE, saw |-> {}]]
    BY <1>9 DEF Migration!ByHand
  <2>2. Migration!Legacy(Migration!Name(g)) \in Ids
    BY DEF Migration!Legacy, Migration!Name, Ids, Names, MigrationType, OutputsBounds
  <2>3. Numbered(DOMAIN dir')
    <3>1. \A p \in DOMAIN dir' : p.seq <= 0
      <4>1. DOMAIN dir' = {Migration!Legacy(Migration!Name(g))}
        BY <2>1
      <4> QED BY <4>1 DEF Migration!Legacy
    <3> QED BY <3>1 DEF Numbered, NumberedUpTo
  <2>4. UNCHANGED <<today, ask, gPc, seen, declared, left, made>>
    BY <1>9 DEF Migration!ByHand
  <2> QED BY <2>1, <2>2, <2>3, <2>4 DEF MigrationType
<1>10. ASSUME Migration!Tidy
       PROVE  MigrationType'
  <2>1. PICK p \in DOMAIN dir : dir' = [q \in DOMAIN dir \ {p} |-> dir[q]]
    BY <1>10 DEF Migration!Tidy
  <2>2. Numbered(DOMAIN dir')
    BY <2>1 DEF MigrationType, Numbered, NumberedUpTo
  <2>3. UNCHANGED <<today, ask, gPc, seen, declared, left, made>>
    BY <1>10 DEF Migration!Tidy
  <2> QED BY <2>1, <2>2, <2>3 DEF MigrationType
<1>11. ASSUME UNCHANGED Migration!migrations
       PROVE  MigrationType'
  BY <1>11 DEF MigrationType, Migration!migrations
<1> QED BY <1>1, <1>2, <1>3, <1>4, <1>5, <1>6, <1>7, <1>8, <1>9, <1>10, <1>11 DEF Migration!Next

\* What a step does to what a command saw and to what it has to write.
CommandStep(h) ==
    /\ \/ seen'[h] = seen[h]
       \/ gPc[h] = "list" /\ gPc'[h] = "parse" /\ seen'[h] = Migration!InDirectory
    /\ gPc'[h] = "number" =>
          \/ declared'[h] = {p \in seen[h] : p.name = Migration!Name(h)}
          \/ gPc[h] = "number" /\ declared'[h] = declared[h]
    /\ gPc'[h] \in {"list", "parse", "number"} => gPc[h] \in {"list", "parse", "number"}
    /\ \/ left'[h] = left[h]
       \/ left[h] # << >> /\ left'[h] = Tail(left[h])
       \/ Migration!Number(h)

LEMMA CommandsStep ==
    ASSUME MigrationType, MigrationOwns, [Migration!Next]_(Migration!migrations), NEW h \in Generators
    PROVE  CommandStep(h)
<1> USE DEF CommandPcs, CommandStep
<1>1. ASSUME NEW g \in Generators, Migration!List(g)
      PROVE  CommandStep(h)
  BY <1>1 DEF Migration!List, Migration!Goto, MigrationType
<1>2. ASSUME NEW g \in Generators, Migration!Parse(g)
      PROVE  CommandStep(h)
  BY <1>2 DEF Migration!Parse, Migration!Goto, MigrationType
<1>3. ASSUME NEW g \in Generators, Migration!ParseFails(g) \/ Migration!Refuses(g) \/ Migration!WriteFails(g)
                                   \/ Migration!Report(g) \/ Migration!Kill(g)
      PROVE  CommandStep(h)
  BY <1>3 DEF MigrationType, Migration!ParseFails, Migration!Refuses, Migration!WriteFails,
              Migration!Report, Migration!Kill, Migration!Goto
<1>4. ASSUME NEW g \in Generators, Migration!Number(g)
      PROVE  CommandStep(h)
  <2>1. /\ seen' = seen /\ declared' = declared /\ gPc' = [gPc EXCEPT ![g] = "write"]
        /\ g # h => left'[h] = left[h]
    BY <1>4 DEF Migration!Number, Migration!Goto, MigrationType
  <2>2. gPc'[h] = "number" => gPc[h] = "number"
    BY <2>1 DEF MigrationType
  <2> QED BY <1>4, <2>1, <2>2
<1>5. ASSUME NEW g \in Generators, Migration!Create(g)
      PROVE  CommandStep(h)
  BY <1>5 DEF Migration!Create, MigrationType
<1>6. ASSUME NEW g \in Generators, Migration!Skip(g)
      PROVE  CommandStep(h)
  BY <1>6 DEF Migration!Skip, Migration!Rest, Migration!Writing, MigrationType
<1>7. ASSUME NEW g \in Generators, Migration!Fill(g)
      PROVE  CommandStep(h)
  BY <1>7 DEF Migration!Fill, Migration!Goto, Migration!Rest, MigrationType, MigrationOwns, OwnsItsFiles
<1>8. ASSUME Migration!Midnight \/ Migration!ByHand \/ Migration!Tidy \/ UNCHANGED Migration!migrations
      PROVE  CommandStep(h)
  BY <1>8 DEF Migration!Midnight, Migration!ByHand, Migration!Tidy, Migration!migrations
<1> QED BY <1>1, <1>2, <1>3, <1>4, <1>5, <1>6, <1>7, <1>8 DEF Migration!Next

LEMMA DirectoryGrows ==
    ASSUME MigrationType, [Migration!Next]_(Migration!migrations)
    PROVE  ask' = ask /\ DOMAIN dir \cup removed \subseteq DOMAIN dir' \cup removed'
<1>1. ASSUME NEW g \in Generators,
             \/ Migration!List(g) \/ Migration!Parse(g) \/ Migration!ParseFails(g) \/ Migration!Number(g)
             \/ Migration!Refuses(g) \/ Migration!Skip(g) \/ Migration!WriteFails(g) \/ Migration!Report(g)
             \/ Migration!Kill(g)
      PROVE  ask' = ask /\ dir' = dir /\ removed' = removed
  BY <1>1 DEF Migration!List, Migration!Parse, Migration!ParseFails, Migration!Number, Migration!Refuses,
              Migration!Skip, Migration!WriteFails, Migration!Report, Migration!Kill
<1>2. ASSUME NEW g \in Generators, Migration!Create(g) \/ Migration!Fill(g)
      PROVE  ask' = ask /\ DOMAIN dir \subseteq DOMAIN dir' /\ removed' = removed
  BY <1>2 DEF Migration!Create, Migration!Opened, Migration!Fill
<1>3. ASSUME Migration!ByHand
      PROVE  ask' = ask /\ DOMAIN dir = {} /\ removed' = removed
  BY <1>3 DEF Migration!ByHand, Migration!Absent
<1>4. ASSUME Migration!Tidy
      PROVE  ask' = ask /\ DOMAIN dir \cup removed \subseteq DOMAIN dir' \cup removed'
  BY <1>4 DEF Migration!Tidy
<1>5. ASSUME Migration!Midnight \/ UNCHANGED Migration!migrations
      PROVE  ask' = ask /\ dir' = dir /\ removed' = removed
  BY <1>5 DEF Migration!Midnight, Migration!migrations
<1> QED BY <1>1, <1>2, <1>3, <1>4, <1>5 DEF Migration!Next

LEMMA MigrationSeesStep ==
    ASSUME MigrationInv, [Migration!Next]_(Migration!migrations)
    PROVE  MigrationSees'
<1> USE DEF MigrationInv
<1> SUFFICES ASSUME NEW h \in Generators
             PROVE  /\ gPc'[h] = "number" => declared'[h] = {p \in seen'[h] : p.name = ask'[h].name}
                    /\ gPc'[h] \in {"list", "parse", "number"} => left'[h] = << >>
                    /\ \A i \in DOMAIN left'[h] : left'[h][i].kind = "model" \/ left'[h][i] \in seen'[h]
                                                  \/ Knowing(left'[h][i], seen'[h])
                    /\ \A p \in seen'[h] : p.kind # "model" /\ p \in DOMAIN dir' \cup removed'
  BY DEF MigrationSees, Migration!Name
<1>1. CommandStep(h) /\ ask' = ask /\ DOMAIN dir \cup removed \subseteq DOMAIN dir' \cup removed'
  BY CommandsStep, DirectoryGrows
<1>2. \A p \in seen'[h] : p.kind # "model" /\ p \in DOMAIN dir' \cup removed'
  BY <1>1 DEF CommandStep, MigrationSees, Migration!InDirectory
<1>3. gPc'[h] = "number" => declared'[h] = {p \in seen'[h] : p.name = ask'[h].name}
  BY <1>1 DEF CommandStep, MigrationSees, Migration!Name
<1>4. gPc'[h] \in {"list", "parse", "number"} => left'[h] = << >>
  BY <1>1 DEF CommandStep, MigrationSees, Migration!Number, Migration!Goto, MigrationType
<1>5. ASSUME NEW i \in DOMAIN left'[h]
      PROVE  left'[h][i].kind = "model" \/ left'[h][i] \in seen'[h] \/ Knowing(left'[h][i], seen'[h])
  <2>1. left[h] # << >> => seen'[h] = seen[h]
    BY <1>1 DEF CommandStep, MigrationSees
  <2>2. CASE left'[h] = left[h]
    <3>1. i \in DOMAIN left[h] /\ left[h] # << >>
      BY <1>5, <2>2
    <3> QED BY <2>1, <2>2, <3>1 DEF MigrationSees
  <2>3. CASE left[h] # << >> /\ left'[h] = Tail(left[h])
    <3>1. left[h] \in Seq(Ids)
      BY DEF MigrationType
    <3>2. i \in 1..(Len(left[h]) - 1) /\ left'[h][i] = left[h][i + 1] /\ i + 1 \in DOMAIN left[h]
      BY <1>5, <2>3, <3>1
    <3> QED BY <2>1, <2>3, <3>2 DEF MigrationSees
  <2>4. CASE Migration!Number(h)
    <3>1. gPc[h] = "number" /\ ~Migration!Refused(h) /\ seen'[h] = seen[h]
      BY <2>4 DEF Migration!Number, Migration!Goto
    <3>2. left'[h] = IF ask[h].kind = "module"
                     THEN <<Migration!Model(Migration!Name(h)), Migration!resolveMigrationID(h)>>
                     ELSE <<Migration!makeMigration(h)>>
      BY <2>4 DEF Migration!Number, MigrationType
    <3>3. Migration!Model(Migration!Name(h)).kind = "model"
      BY DEF Migration!Model
    <3>4. CASE ask[h].kind = "module"
      <4>1. left'[h][1] = Migration!Model(Migration!Name(h)) /\ left'[h][2] = Migration!resolveMigrationID(h)
            /\ i \in {1, 2}
        BY <1>5, <3>2, <3>4
      <4> QED BY <3>1, <3>3, <3>4, <4>1, NumberIsKnowing
    <3>5. CASE ask[h].kind # "module"
      <4>1. left'[h][1] = Migration!makeMigration(h) /\ i = 1
        BY <1>5, <3>2, <3>5
      <4> QED BY <3>1, <3>5, <4>1, NumberIsKnowing
    <3> QED BY <3>4, <3>5
  <2> QED BY <1>1, <2>2, <2>3, <2>4 DEF CommandStep
<1> QED BY <1>2, <1>3, <1>4, <1>5

LEMMA MigrationOwnsStep ==
    ASSUME MigrationInv, [Migration!Next]_(Migration!migrations)
    PROVE  MigrationOwns'
<1> USE DEF MigrationInv, CommandPcs
<1> SUFFICES ASSUME NEW h \in Generators PROVE OwnsItsFiles(h)'
  BY DEF MigrationOwns
<1>a. OwnsItsFiles(h)
  BY DEF MigrationOwns
<1>b. ASSUME UNCHANGED <<dir, removed, made, ask>>,
             gPc'[h] = "fill" => gPc[h] = "fill" /\ left'[h] = left[h]
      PROVE  OwnsItsFiles(h)'
  BY <1>a, <1>b DEF OwnsItsFiles, Owns, Migration!File
<1>1. ASSUME NEW g \in Generators,
             \/ Migration!List(g) \/ Migration!Parse(g) \/ Migration!ParseFails(g) \/ Migration!Number(g)
             \/ Migration!Refuses(g) \/ Migration!WriteFails(g) \/ Migration!Report(g) \/ Migration!Kill(g)
      PROVE  OwnsItsFiles(h)'
  <2>1. UNCHANGED <<dir, removed, made, ask>>
    BY <1>1 DEF Migration!List, Migration!Parse, Migration!ParseFails, Migration!Number,
              Migration!Refuses, Migration!WriteFails, Migration!Report, Migration!Kill
  <2>2. gPc'[h] = "fill" => gPc[h] = "fill" /\ left'[h] = left[h]
    BY <1>1 DEF MigrationType, Migration!List, Migration!Parse, Migration!ParseFails, Migration!Number,
              Migration!Refuses, Migration!WriteFails, Migration!Report, Migration!Kill, Migration!Goto
  <2> QED BY <2>1, <2>2, <1>b
<1>2. ASSUME NEW g \in Generators, Migration!Skip(g)
      PROVE  OwnsItsFiles(h)'
  <2>1. UNCHANGED <<dir, removed, made, ask>>
    BY <1>2 DEF Migration!Skip
  <2>2. gPc'[h] = "fill" => gPc[h] = "fill" /\ left'[h] = left[h]
    BY <1>2 DEF MigrationType, Migration!Skip, Migration!Rest, Migration!Writing
  <2> QED BY <2>1, <2>2, <1>b
<1>3. ASSUME Migration!Midnight \/ UNCHANGED Migration!migrations
      PROVE  OwnsItsFiles(h)'
  BY <1>3, <1>b DEF Migration!Midnight, Migration!migrations
<1>4. ASSUME NEW g \in Generators, Migration!Create(g)
      PROVE  OwnsItsFiles(h)'
  <2> DEFINE f == Migration!File(g)
  <2>1. /\ UNCHANGED <<removed, made, ask, left>> /\ left[g] # << >>
        /\ gPc' = [gPc EXCEPT ![g] = "fill"]
        /\ ask[g].force \/ f \notin DOMAIN dir
    BY <1>4 DEF Migration!Create, Migration!Writing, Migration!createExclusively
  <2>2. /\ DOMAIN dir' = DOMAIN dir \cup {f} /\ dir'[f].by = g
        /\ \A p \in DOMAIN dir \ {f} : dir'[p].by = dir[p].by
    BY <1>4 DEF Migration!Create, Migration!Opened
  <2>3. ASSUME NEW p, Owns(h, p)
        PROVE  Owns(h, p)'
    BY <2>1, <2>2, <2>3 DEF Owns
  <2>4. \A p \in made'[h] \ removed' : Owns(h, p)'
    BY <1>a, <2>1, <2>3 DEF OwnsItsFiles
  <2>5. ASSUME gPc'[h] = "fill"
        PROVE  left'[h] # << >> /\ \A p : p = Migration!File(h)' => Owns(h, p)'
    <3>1. Migration!File(h)' = Migration!File(h)
      BY <2>1 DEF Migration!File
    <3>2. CASE h = g
      BY <2>1, <2>2, <3>1, <3>2 DEF Owns
    <3>3. CASE h # g
      <4>1. gPc[h] = "fill"
        BY <2>1, <2>5, <3>3 DEF MigrationType
      <4> QED BY <1>a, <2>1, <2>3, <3>1, <4>1 DEF OwnsItsFiles
    <3> QED BY <3>2, <3>3
  <2> QED BY <2>4, <2>5 DEF OwnsItsFiles
<1>5. ASSUME NEW g \in Generators, Migration!Fill(g)
      PROVE  OwnsItsFiles(h)'
  <2> DEFINE f == Migration!File(g)
  <2>1. /\ UNCHANGED <<removed, ask>> /\ gPc[g] = "fill" /\ gPc' = [gPc EXCEPT ![g] = "write"]
        /\ made' = [made EXCEPT ![g] = made[g] \cup {f}]
        /\ left' = [left EXCEPT ![g] = Tail(left[g])]
    BY <1>5 DEF Migration!Fill, Migration!Goto, Migration!Rest
  <2>2. DOMAIN dir' = DOMAIN dir /\ \A p \in DOMAIN dir : dir'[p].by = dir[p].by
    BY <1>5 DEF Migration!Fill, MigrationType
  <2>3. ASSUME NEW p, Owns(h, p)
        PROVE  Owns(h, p)'
    BY <2>1, <2>2, <2>3 DEF Owns
  <2>4. \A p \in made'[h] \ removed' : Owns(h, p)'
    <3>1. CASE h = g
      BY <1>a, <2>1, <2>3, <3>1 DEF OwnsItsFiles, MigrationType
    <3>2. CASE h # g
      BY <1>a, <2>1, <2>3, <3>2 DEF OwnsItsFiles, MigrationType
    <3> QED BY <3>1, <3>2
  <2>5. ASSUME gPc'[h] = "fill"
        PROVE  left'[h] # << >> /\ \A p : p = Migration!File(h)' => Owns(h, p)'
    <3>1. h # g /\ gPc[h] = "fill" /\ left'[h] = left[h]
      BY <2>1, <2>5 DEF MigrationType
    <3> QED BY <1>a, <2>3, <3>1 DEF OwnsItsFiles, Migration!File
  <2> QED BY <2>4, <2>5 DEF OwnsItsFiles
<1>6. ASSUME Migration!ByHand
      PROVE  OwnsItsFiles(h)'
  <2>1. UNCHANGED <<removed, made, ask, gPc, left>> /\ DOMAIN dir = {}
    BY <1>6 DEF Migration!ByHand, Migration!Absent
  <2> QED BY <1>a, <2>1 DEF OwnsItsFiles, Owns
<1>7. ASSUME Migration!Tidy
      PROVE  OwnsItsFiles(h)'
  <2>1. PICK f \in DOMAIN dir :
           /\ \A g \in Generators : gPc[g] = "fill" => Migration!File(g) # f
           /\ dir' = [q \in DOMAIN dir \ {f} |-> dir[q]] /\ removed' = removed \cup {f}
    BY <1>7 DEF Migration!Tidy
  <2>2. UNCHANGED <<ask, gPc, made, left>>
    BY <1>7 DEF Migration!Tidy
  <2>3. ASSUME NEW p, Owns(h, p), p # f
        PROVE  Owns(h, p)'
    BY <2>1, <2>2, <2>3 DEF Owns
  <2> QED BY <1>a, <2>1, <2>2, <2>3 DEF OwnsItsFiles, Migration!File
<1> QED BY <1>1, <1>2, <1>3, <1>4, <1>5, <1>6, <1>7 DEF Migration!Next

LEMMA MigrationKnowsStep ==
    ASSUME MigrationInv, [Migration!Next]_(Migration!migrations)
    PROVE  MigrationKnows'
<1> USE DEF MigrationInv, Migration!InDirectory
<1>1. ASSUME NEW g \in Generators,
             \/ Migration!List(g) \/ Migration!Parse(g) \/ Migration!ParseFails(g) \/ Migration!Number(g)
             \/ Migration!Refuses(g) \/ Migration!Skip(g) \/ Migration!WriteFails(g) \/ Migration!Report(g)
             \/ Migration!Kill(g)
      PROVE  UNCHANGED <<dir, removed>>
  BY <1>1 DEF Migration!List, Migration!Parse, Migration!ParseFails, Migration!Number, Migration!Refuses,
              Migration!Skip, Migration!WriteFails, Migration!Report, Migration!Kill
<1>2. ASSUME Migration!Midnight \/ UNCHANGED Migration!migrations
      PROVE  UNCHANGED <<dir, removed>>
  BY <1>2 DEF Migration!Midnight, Migration!migrations
<1>3. ASSUME UNCHANGED <<dir, removed>>
      PROVE  MigrationKnows'
  BY <1>3 DEF MigrationKnows
<1>4. ASSUME NEW g \in Generators, Migration!Create(g)
      PROVE  MigrationKnows'
  <2> DEFINE f == Migration!File(g)
  <2>1. /\ removed' = removed /\ left[g] # << >> /\ left[g] \in Seq(Ids)
        /\ DOMAIN dir' = DOMAIN dir \cup {f}
        /\ dir'[f].saw = IF f \in DOMAIN dir THEN dir[f].saw ELSE seen[g]
        /\ \A p \in DOMAIN dir \ {f} : dir'[p] = dir[p]
    BY <1>4 DEF Migration!Create, Migration!Opened, Migration!Writing, MigrationType
  <2>2. f.kind = "model" \/ f \in DOMAIN dir \cup removed \/ Knowing(f, seen[g])
    <3>1. 1 \in DOMAIN left[g]
      BY <2>1
    <3> QED BY <3>1 DEF MigrationSees, Migration!File
  <2> SUFFICES ASSUME NEW q \in DOMAIN dir', q.kind # "model", q \notin removed
               PROVE  Knowing(q, dir'[q].saw)
    BY <2>1 DEF MigrationKnows
  <2>3. CASE q \in DOMAIN dir
    BY <2>1, <2>3 DEF MigrationKnows
  <2>4. CASE q = f /\ q \notin DOMAIN dir
    BY <2>1, <2>2, <2>4
  <2> QED BY <2>1, <2>3, <2>4
<1>5. ASSUME NEW g \in Generators, Migration!Fill(g)
      PROVE  MigrationKnows'
  <2>1. removed' = removed /\ DOMAIN dir' = DOMAIN dir /\ \A p \in DOMAIN dir : dir'[p].saw = dir[p].saw
    BY <1>5 DEF Migration!Fill, MigrationType
  <2> QED BY <2>1 DEF MigrationKnows
<1>6. ASSUME Migration!ByHand
      PROVE  MigrationKnows'
  <2>1. \A p \in DOMAIN dir' : dir'[p].saw = {}
    <3>1. PICK g \in Generators : dir' = [p \in {Migration!Legacy(Migration!Name(g))} |->
                                             [by |-> "the developer", whole |-> TRUE, saw |-> {}]]
      BY <1>6 DEF Migration!ByHand
    <3> QED BY <3>1
  <2> QED BY <2>1 DEF MigrationKnows, Knowing
<1>7. ASSUME Migration!Tidy
      PROVE  MigrationKnows'
  BY <1>7 DEF Migration!Tidy, MigrationKnows
<1> QED BY <1>1, <1>2, <1>3, <1>4, <1>5, <1>6, <1>7 DEF Migration!Next

LEMMA MigrationStep ==
    ASSUME OutputsBounds, MigrationInv, [Migration!Next]_(Migration!migrations)
    PROVE  MigrationInv'
<1>1. MigrationType'
  BY MigrationTypeStep DEF MigrationInv
<1> QED BY <1>1, MigrationSeesStep, MigrationOwnsStep, MigrationKnowsStep DEF MigrationInv

LEMMA MigrationSafe ==
    ASSUME MigrationInv
    PROVE  Migration!WrittenKnowing /\ Migration!ReportedIsItsOwn
<1>1. Migration!WrittenKnowing
  BY DEF MigrationInv, MigrationKnows, Knowing, Migration!WrittenKnowing
<1>2. Migration!ReportedIsItsOwn
  BY DEF MigrationInv, MigrationOwns, OwnsItsFiles, Owns, Migration!ReportedIsItsOwn
<1> QED BY <1>1, <1>2

(***************************************************************************)
(* The queries of the models.                                              *)
(***************************************************************************)
Kinds == {"gone", "declared", "untabled", "unreadable"}
Files == [by : {"nobody", "hand", "build", "torn"}, of : Nat]
Answered == [is : Kinds, version : Nat, generated : BOOLEAN]
Changes == [entity : Entities, what : {"query", "factory"}, to : Files]
BuildSteps == {"called", "parse", "plan", "apply", "returned"}

ModelType ==
    /\ source \in [Entities -> [is : Kinds, version : Nat]]
    /\ query \in [Entities -> Files] /\ factory \in [Entities -> Files]
    /\ mPc \in [Runners -> BuildSteps] /\ mAnswer \in [Runners -> {"none", "error", "nil"}]
    /\ unparsed \in [Runners -> SUBSET Entities] /\ unplanned \in [Runners -> SUBSET Entities]
    /\ since \in [Runners -> SUBSET Entities]
    /\ found \in [Runners -> [Entities -> Answered]]
    /\ changes \in [Runners -> SUBSET Changes]

\* What it answered rests on its plan, and its plan on what it read.
Reads(b)    == mPc[b] \in {"parse", "plan", "apply"} \/ mAnswer[b] = "nil"
HasPlan(b)  == mPc[b] \in {"plan", "apply"} \/ mAnswer[b] = "nil"

\* How far a build is.
BuildPhase(b) ==
    /\ mPc[b] \in {"called", "parse"} => changes[b] = {}
    /\ mPc[b] # "returned" => mAnswer[b] = "none"
    /\ HasPlan(b) => unparsed[b] = {} /\ ~Model!Refused(b)
    /\ mPc[b] = "apply" \/ mAnswer[b] = "nil" => unplanned[b] = {}
    /\ mAnswer[b] = "nil" => changes[b] = {}

\* What it read is so, but for what changed since.
ReadIsSo(b, e) ==
    e \notin unparsed[b] \cup since[b] =>
        /\ Reads(b) => /\ found[b][e].is = source[e].is /\ found[b][e].version = source[e].version
                       /\ source[e].is # "unreadable"
        /\ mPc[b] \in {"parse", "plan"} => found[b][e].generated = Model!isGeneratedQuery(query[e])

\* A change of a query is the one its entity asks for.
Asked(b, c) ==
    c.what = "query" =>
        \/ found[b][c.entity].is = "declared" /\ c.to = Model!Rendered(found[b][c.entity].version)
        \/ found[b][c.entity].is = "gone" /\ c.to = Model!NoFile
\* It replaces nobody's work.
Harmless(b, c) ==
    c.what = "query" /\ c.entity \notin since[b] => query[c.entity].by \in {"nobody", "build"}
Justified(b) == \A c \in changes[b] : Asked(b, c) /\ (mPc[b] \in {"plan", "apply"} => Harmless(b, c))

\* A query that was planned is current, or a change makes it so.
PlanComplete(b, e) ==
    HasPlan(b) /\ e \notin unplanned[b] \cup since[b] =>
        /\ found[b][e].is = "declared" =>
              \/ query[e] = Model!Rendered(found[b][e].version)
              \/ Model!Change(e, "query", Model!Rendered(found[b][e].version)) \in changes[b]
        /\ found[b][e].is = "gone" =>
              ~Model!isGeneratedQuery(query[e]) \/ Model!Change(e, "query", Model!NoFile) \in changes[b]

BuildKnows(b) ==
    BuildPhase(b) /\ Justified(b) /\ \A e \in Entities : ReadIsSo(b, e) /\ PlanComplete(b, e)

ModelInv == ModelType /\ \A b \in Runners : BuildKnows(b)

LEMMA ModelStart ==
    ASSUME Model!Init
    PROVE  ModelInv
<1> USE DEF BuildSteps
<1>1. ModelType
  <2>1. source \in [Entities -> [is : Kinds, version : Nat]]
    <3>1. source \in [Entities -> [is : {"gone", "declared"}, version : {1}]]
      BY DEF Model!Init
    <3>2. [is : {"gone", "declared"}, version : {1}] \subseteq [is : Kinds, version : Nat]
      <4> SUFFICES ASSUME NEW r \in [is : {"gone", "declared"}, version : {1}]
                   PROVE  r \in [is : Kinds, version : Nat]
        OBVIOUS
      <4>1. r.is \in {"gone", "declared"} /\ r.version = 1
        OBVIOUS
      <4>2. r = [is |-> r.is, version |-> r.version]
        OBVIOUS
      <4>3. r.is \in Kinds /\ r.version \in Nat
        BY <4>1 DEF Kinds
      <4> QED BY <4>2, <4>3
    <3> QED BY <3>1, <3>2
  <2>2. query \in [Entities -> Files] /\ factory \in [Entities -> Files]
    BY DEF Model!Init, Model!NoFile, Model!HandWritten, Model!Rendered, Files
  <2>3. found \in [Runners -> [Entities -> Answered]]
    BY DEF Model!Init, Model!Nothing, Answered, Kinds
  <2>4. /\ mPc = [b \in Runners |-> "called"] /\ mAnswer = [b \in Runners |-> "none"]
        /\ unparsed = [b \in Runners |-> {}] /\ unplanned = [b \in Runners |-> {}]
        /\ since = [b \in Runners |-> {}] /\ changes = [b \in Runners |-> {}]
    BY DEF Model!Init
  <2> QED BY <2>1, <2>2, <2>3, <2>4 DEF ModelType
<1>2. ASSUME NEW b \in Runners
      PROVE  BuildKnows(b)
  <2>1. mPc[b] = "called" /\ mAnswer[b] = "none" /\ changes[b] = {}
    BY DEF Model!Init
  <2> QED BY <2>1 DEF BuildKnows, BuildPhase, Justified, ReadIsSo, PlanComplete, Reads, HasPlan
<1> QED BY <1>1, <1>2 DEF ModelInv

LEMMA ModelTypeStep ==
    ASSUME ModelType, [Model!Next]_(Model!models)
    PROVE  ModelType'
<1> USE DEF BuildSteps, Model!disk, Model!Goto, Model!Answers, Model!Fails
<1>1. ASSUME NEW b \in Runners, Model!Begin(b) \/ Model!Entitled(b)
      PROVE  ModelType'
  <2>1. /\ UNCHANGED <<source, query, factory, since, found, changes, mAnswer>>
        /\ mPc' \in [Runners -> BuildSteps]
    BY <1>1 DEF ModelType, Model!Begin, Model!Entitled
  <2>2. unparsed' \in [Runners -> SUBSET Entities] /\ unplanned' \in [Runners -> SUBSET Entities]
    <3>1. CASE Model!Begin(b)
      BY <3>1 DEF ModelType, Model!Begin
    <3>2. CASE Model!Entitled(b)
      BY <3>2 DEF ModelType, Model!Entitled
    <3> QED BY <1>1, <3>1, <3>2
  <2> QED BY <2>1, <2>2 DEF ModelType
<1>2. ASSUME NEW b \in Runners, Model!ParseFails(b) \/ Model!Untabled(b) \/ Model!PlanFails(b)
                                \/ Model!QueryListingMissing(b) \/ Model!Applied(b)
      PROVE  ModelType'
  BY <1>2 DEF ModelType, Model!ParseFails, Model!Untabled, Model!PlanFails, Model!QueryListingMissing,
              Model!Applied
<1>3. ASSUME NEW b \in Runners, Model!Planned(b)
      PROVE  ModelType'
  BY <1>3 DEF ModelType, Model!Planned
<1>4. ASSUME NEW b \in Runners, NEW e \in Entities, Model!Parse(b, e)
      PROVE  ModelType'
  <2> DEFINE new == [is |-> source[e].is, version |-> source[e].version,
                     generated |-> Model!isGeneratedQuery(query[e])]
  <2>1. source[e].is \in Kinds /\ source[e].version \in Nat
    BY DEF ModelType
  <2>2. new \in Answered
    BY <2>1 DEF Answered, Model!isGeneratedQuery
  <2>3. found' = [found EXCEPT ![b][e] = new]
    BY <1>4 DEF Model!Parse
  <2> HIDE DEF new
  <2>4. found' \in [Runners -> [Entities -> Answered]]
    BY <2>2, <2>3 DEF ModelType
  <2>5. /\ UNCHANGED <<source, query, factory, mPc, changes, unplanned, mAnswer>>
        /\ unparsed' \in [Runners -> SUBSET Entities] /\ since' \in [Runners -> SUBSET Entities]
    BY <1>4 DEF Model!Parse, ModelType
  <2> QED BY <2>4, <2>5 DEF ModelType
<1>5. ASSUME NEW b \in Runners, NEW e \in Entities, Model!Plan(b, e)
      PROVE  ModelType'
  <2>0. found[b][e].version \in Nat /\ source[e].version \in Nat
    BY DEF ModelType, Answered
  <2>a. Model!Rendered(found[b][e].version) \in Files /\ Model!Rendered(source[e].version) \in Files
    BY <2>0 DEF Model!Rendered, Files
  <2>b. Model!NoFile \in Files
    BY DEF Model!NoFile, Files
  <2>c. ASSUME NEW what \in {"query", "factory"}, NEW to \in Files
        PROVE  Model!Change(e, what, to) \in Changes
    BY DEF Model!Change, Changes
  <2>1. Model!QueryChange(b, e) \subseteq Changes
    BY <2>a, <2>b, <2>c DEF Model!QueryChange
  <2>2. Model!FactoryChange(b, e) \subseteq Changes
    BY <2>a, <2>c DEF Model!FactoryChange
  <2>3. changes' \in [Runners -> SUBSET Changes]
    BY <1>5, <2>1, <2>2 DEF ModelType, Model!Plan
  <2> QED BY <1>5, <2>3 DEF ModelType, Model!Plan
<1>6. ASSUME NEW b \in Runners, Model!Apply(b) \/ Model!ApplyFails(b)
      PROVE  ModelType'
  <2>1. PICK c \in changes[b], put \in Files :
           /\ Model!Puts(c, put) /\ Model!Touched(b, c.entity)
           /\ changes' = [changes EXCEPT ![b] = @ \ {c}]
    <3>1. CASE Model!Apply(b)
      <4>1. PICK c \in changes[b] : /\ Model!Puts(c, c.to) /\ Model!Touched(b, c.entity)
                                    /\ changes' = [changes EXCEPT ![b] = @ \ {c}]
        BY <3>1 DEF Model!Apply
      <4>2. c \in Changes
        BY DEF ModelType
      <4>3. c.to \in Files
        BY <4>2 DEF Changes
      <4> QED BY <4>1, <4>3
    <3>2. CASE Model!ApplyFails(b)
      <4>1. PICK c \in changes[b] :
               /\ Model!Puts(c, IF c.to = Model!NoFile THEN query[c.entity] ELSE Model!Torn)
               /\ Model!Touched(b, c.entity) /\ changes' = [changes EXCEPT ![b] = @ \ {c}]
        BY <3>2 DEF Model!ApplyFails
      <4>2. c \in Changes
        BY DEF ModelType
      <4>3. c.entity \in Entities
        BY <4>2 DEF Changes
      <4>4. query[c.entity] \in Files /\ Model!Torn \in Files
        BY <4>3 DEF ModelType, Model!Torn, Files
      <4> QED BY <4>1, <4>4
    <3> QED BY <1>6, <3>1, <3>2
  <2>2. query' \in [Entities -> Files] /\ factory' \in [Entities -> Files]
    <3>1. CASE c.what = "query"
      <4>1. query' = [query EXCEPT ![c.entity] = put] /\ factory' = factory
        BY <2>1, <3>1 DEF Model!Puts
      <4> QED BY <4>1 DEF ModelType
    <3>2. CASE c.what # "query"
      <4>1. factory' = [factory EXCEPT ![c.entity] = put] /\ query' = query
        BY <2>1, <3>2 DEF Model!Puts
      <4> QED BY <4>1 DEF ModelType
    <3> QED BY <3>1, <3>2
  <2>3. since' \in [Runners -> SUBSET Entities] /\ changes' \in [Runners -> SUBSET Changes]
    <3>0. c \in Changes
      BY DEF ModelType
    <3>1. c.entity \in Entities
      BY <3>0 DEF Changes
    <3>2. \A o \in Runners : since'[o] \subseteq Entities
      BY <2>1, <3>1 DEF Model!Touched, ModelType
    <3>3. since' = [o \in Runners |-> since'[o]]
      BY <2>1 DEF Model!Touched
    <3> QED BY <2>1, <3>2, <3>3 DEF ModelType
  <2>4. /\ mPc' \in [Runners -> BuildSteps] /\ mAnswer' \in [Runners -> {"none", "error", "nil"}]
        /\ UNCHANGED <<source, unparsed, found, unplanned>>
    BY <1>6 DEF Model!Apply, Model!ApplyFails, ModelType
  <2> QED BY <2>2, <2>3, <2>4 DEF ModelType
<1>7. ASSUME NEW e \in Entities, Model!Edit(e)
      PROVE  ModelType'
  <2>1. source' \in [Entities -> [is : Kinds, version : Nat]] /\ query' \in [Entities -> Files]
    <3>1. CASE query' = [query EXCEPT ![e] = Model!HandWritten] /\ source' = source
      BY <3>1 DEF ModelType, Model!HandWritten, Files
    <3>2. ASSUME NEW is \in Kinds, query' = query,
                 source' = [source EXCEPT ![e] =
                     [is |-> is, version |-> IF is = "declared" THEN @.version + 1 ELSE @.version]]
          PROVE  source' \in [Entities -> [is : Kinds, version : Nat]] /\ query' \in [Entities -> Files]
      <4>0. source[e].version \in Nat
        BY DEF ModelType
      <4>1. [is |-> is, version |-> IF is = "declared" THEN source[e].version + 1 ELSE source[e].version]
               \in [is : Kinds, version : Nat]
        BY <4>0
      <4> QED BY <3>2, <4>1 DEF ModelType
    <3> QED BY <1>7, <3>1, <3>2 DEF Model!Edit, Model!States, Kinds
  <2>2. since' \in [Runners -> SUBSET Entities]
    BY <1>7 DEF Model!Edit, ModelType
  <2> QED BY <1>7, <2>1, <2>2 DEF Model!Edit, ModelType
<1>8. ASSUME UNCHANGED Model!models
      PROVE  ModelType'
  BY <1>8 DEF Model!models, ModelType
<1> QED BY <1>1, <1>2, <1>3, <1>4, <1>5, <1>6, <1>7, <1>8 DEF Model!Next

\* A step of somebody else changes what a build read only where it says so.
Undisturbed(b) ==
    /\ mPc'[b] = mPc[b] /\ mAnswer'[b] = mAnswer[b] /\ unparsed'[b] = unparsed[b]
    /\ unplanned'[b] = unplanned[b] /\ found'[b] = found[b] /\ changes'[b] = changes[b]
    /\ since[b] \subseteq since'[b]
    /\ \A e \in Entities \ since'[b] : source'[e] = source[e] /\ query'[e] = query[e]

LEMMA OthersKeepIt ==
    ASSUME ModelType, NEW b \in Runners, BuildKnows(b), Undisturbed(b)
    PROVE  BuildKnows(b)'
<1>1. BuildPhase(b)'
  BY DEF BuildKnows, BuildPhase, Undisturbed, HasPlan, Model!Refused
<1>2. Justified(b)'
  <2> SUFFICES ASSUME NEW c \in changes[b] PROVE Asked(b, c)' /\ ((mPc[b] \in {"plan", "apply"})' => Harmless(b, c)')
    BY DEF Justified, Undisturbed
  <2>1. c \in Changes
    BY DEF ModelType
  <2>2. c.entity \in Entities
    BY <2>1 DEF Changes
  <2> QED BY <2>2 DEF BuildKnows, Justified, Undisturbed, Asked, Harmless, Model!Rendered, Model!NoFile
<1>3. ASSUME NEW e \in Entities
      PROVE  ReadIsSo(b, e)' /\ PlanComplete(b, e)'
  <2>1. ReadIsSo(b, e) /\ PlanComplete(b, e)
    BY DEF BuildKnows
  <2>2. ReadIsSo(b, e)'
    BY <2>1 DEF Undisturbed, ReadIsSo, Reads, Model!isGeneratedQuery
  <2>3. PlanComplete(b, e)'
    BY <2>1 DEF Undisturbed, PlanComplete, HasPlan, Model!isGeneratedQuery, Model!Change, Model!Rendered,
                Model!NoFile
  <2> QED BY <2>2, <2>3
<1> QED BY <1>1, <1>2, <1>3 DEF BuildKnows

\* A build that failed answers for nothing.
LEMMA FailedKnows ==
    ASSUME NEW b \in Runners, BuildKnows(b), mPc'[b] = "returned", mAnswer'[b] = "error",
           found'[b] = found[b], changes'[b] \subseteq changes[b]
    PROVE  BuildKnows(b)'
<1>1. BuildPhase(b)' /\ \A e \in Entities : ReadIsSo(b, e)' /\ PlanComplete(b, e)'
  BY DEF BuildPhase, ReadIsSo, PlanComplete, Reads, HasPlan
<1>2. Justified(b)'
  BY DEF BuildKnows, Justified, Asked, Model!Rendered, Model!NoFile
<1> QED BY <1>1, <1>2 DEF BuildKnows

LEMMA BuildReads ==
    ASSUME ModelType, NEW b \in Runners, BuildKnows(b),
           Model!Begin(b) \/ (\E e \in Entities : Model!Parse(b, e)) \/ Model!Entitled(b)
    PROVE  BuildKnows(b)'
<1> USE DEF BuildSteps, Model!disk, Model!Goto
<1>1. CASE Model!Begin(b)
  <2>1. /\ mPc[b] = "called" /\ mPc'[b] = "parse" /\ unparsed'[b] = Entities /\ changes'[b] = changes[b]
        /\ mAnswer'[b] = mAnswer[b]
    BY <1>1 DEF Model!Begin, ModelType
  <2>2. changes'[b] = {} /\ mAnswer'[b] = "none"
    BY <2>1 DEF BuildKnows, BuildPhase
  <2> QED BY <2>1, <2>2 DEF BuildKnows, BuildPhase, Justified, ReadIsSo, PlanComplete, HasPlan
<1>2. ASSUME NEW e \in Entities, Model!Parse(b, e)
      PROVE  BuildKnows(b)'
  <2>1. /\ mPc[b] = "parse" /\ mPc' = mPc /\ changes' = changes /\ mAnswer' = mAnswer
        /\ UNCHANGED <<source, query>> /\ ~Model!Unreadable(e)
        /\ unparsed'[b] = unparsed[b] \ {e} /\ since'[b] = since[b] \ {e}
    BY <1>2 DEF Model!Parse, ModelType
  <2>2. /\ found'[b][e] = [is |-> source[e].is, version |-> source[e].version,
                           generated |-> Model!isGeneratedQuery(query[e])]
        /\ \A o \in Entities \ {e} : found'[b][o] = found[b][o]
    BY <1>2 DEF Model!Parse, ModelType
  <2>3. changes'[b] = {} /\ mAnswer'[b] = "none" /\ BuildPhase(b)'
    BY <2>1 DEF BuildKnows, BuildPhase, HasPlan
  <2>4. ASSUME NEW o \in Entities
        PROVE  ReadIsSo(b, o)'
    <3>1. CASE o = e
      BY <2>1, <2>2, <3>1 DEF ReadIsSo, Model!Unreadable, Model!isGeneratedQuery
    <3>2. CASE o # e
      BY <2>1, <2>2, <3>2 DEF BuildKnows, ReadIsSo, Reads, Model!isGeneratedQuery
    <3> QED BY <3>1, <3>2
  <2> QED BY <2>1, <2>3, <2>4 DEF BuildKnows, Justified, PlanComplete, HasPlan
<1>3. CASE Model!Entitled(b)
  <2>1. /\ mPc[b] = "parse" /\ mPc'[b] = "plan" /\ unplanned'[b] = Entities /\ ~Model!Refused(b)
        /\ unparsed[b] = {} /\ UNCHANGED <<source, query, unparsed, found, changes, since, mAnswer>>
    BY <1>3 DEF Model!Entitled, ModelType
  <2>2. changes'[b] = {} /\ mAnswer'[b] = "none"
    BY <2>1 DEF BuildKnows, BuildPhase
  <2>3. BuildPhase(b)'
    BY <2>1, <2>2 DEF BuildPhase, HasPlan, Model!Refused
  <2>4. \A e \in Entities : ReadIsSo(b, e)'
    BY <2>1 DEF BuildKnows, ReadIsSo, Reads, Model!isGeneratedQuery
  <2> QED BY <2>1, <2>2, <2>3, <2>4 DEF BuildKnows, Justified, PlanComplete
<1> QED BY <1>1, <1>2, <1>3

LEMMA BuildPlans ==
    ASSUME ModelType, NEW b \in Runners, BuildKnows(b), NEW e \in Entities, Model!Plan(b, e)
    PROVE  BuildKnows(b)'
<1> DEFINE new == Model!QueryChange(b, e) \cup Model!FactoryChange(b, e)
<1>1. /\ mPc[b] = "plan" /\ ~Model!InTheWay(b, e)
      /\ UNCHANGED <<source, query, mPc, unparsed, found, since, mAnswer>>
      /\ unplanned'[b] = unplanned[b] \ {e} /\ changes'[b] = changes[b] \cup new
  BY DEF Model!Plan, Model!disk, ModelType
<1>2. BuildPhase(b)'
  BY <1>1 DEF BuildKnows, BuildPhase, HasPlan, Model!Refused
<1>3. ASSUME NEW o \in Entities
      PROVE  ReadIsSo(b, o)'
  BY <1>1 DEF BuildKnows, ReadIsSo, Reads, Model!isGeneratedQuery
<1>4. \A c \in new : c.entity = e /\ c.what \in {"query", "factory"}
  BY DEF Model!QueryChange, Model!FactoryChange, Model!Change
<1>5. \A c \in new : c.what = "query" => c \in Model!QueryChange(b, e)
  BY DEF Model!FactoryChange, Model!Change
<1>6. ASSUME NEW c \in Model!QueryChange(b, e)
      PROVE  Asked(b, c) /\ (e \notin since[b] => query[e].by \in {"nobody", "build"})
  <2>1. query[e] \in Files /\ unparsed[b] = {} /\ ReadIsSo(b, e)
    BY <1>1 DEF ModelType, BuildKnows, BuildPhase, HasPlan
  <2>2. CASE found[b][e].is = "declared"
    <3>1. Asked(b, c)
      BY <1>6, <2>2 DEF Model!QueryChange, Model!Change, Asked
    <3>2. query[e].by \in {"nobody", "build"}
      BY <1>1, <2>1, <2>2 DEF Model!InTheWay, Files
    <3> QED BY <3>1, <3>2
  <2>3. CASE found[b][e].is # "declared"
    <3>1. found[b][e].is = "gone" /\ found[b][e].generated /\ Asked(b, c)
      BY <1>6, <2>3 DEF Model!QueryChange, Model!Change, Asked
    <3>2. e \notin since[b] => Model!isGeneratedQuery(query[e])
      BY <1>1, <2>1, <3>1 DEF ReadIsSo
    <3> QED BY <3>1, <3>2 DEF Model!isGeneratedQuery
  <2> QED BY <2>2, <2>3
<1> HIDE DEF new
<1>7. Justified(b)'
  <2> SUFFICES ASSUME NEW c \in changes'[b] PROVE Asked(b, c)' /\ Harmless(b, c)'
    BY DEF Justified
  <2>1. CASE c \in changes[b]
    BY <1>1, <2>1 DEF BuildKnows, Justified, Asked, Harmless, Model!Rendered, Model!NoFile
  <2>2. CASE c \in new
    BY <1>1, <1>4, <1>5, <1>6, <2>2 DEF Asked, Harmless, Model!Rendered, Model!NoFile
  <2> QED BY <1>1, <2>1, <2>2
<1>8. ASSUME NEW o \in Entities
      PROVE  PlanComplete(b, o)'
  <2>1. CASE o # e
    BY <1>1, <2>1 DEF BuildKnows, PlanComplete, HasPlan, Model!isGeneratedQuery, Model!Change,
                      Model!Rendered, Model!NoFile
  <2>2. CASE o = e /\ e \notin since[b]
    <3>1. unparsed[b] = {} /\ ReadIsSo(b, e)
      BY <1>1 DEF BuildKnows, BuildPhase, HasPlan
    <3>2. found[b][e].generated = Model!isGeneratedQuery(query[e])
      BY <1>1, <2>2, <3>1 DEF ReadIsSo
    <3>3. Model!QueryChange(b, e) \subseteq changes'[b]
      BY <1>1 DEF new
    <3>4. found[b][e].is = "declared" =>
             \/ query[e] = Model!Rendered(found[b][e].version)
             \/ Model!Change(e, "query", Model!Rendered(found[b][e].version)) \in changes'[b]
      BY <3>3 DEF Model!QueryChange
    <3>5. found[b][e].is = "gone" =>
             ~Model!isGeneratedQuery(query[e]) \/ Model!Change(e, "query", Model!NoFile) \in changes'[b]
      BY <3>2, <3>3 DEF Model!QueryChange
    <3> QED BY <1>1, <2>2, <3>4, <3>5 DEF PlanComplete, Model!isGeneratedQuery, Model!Change,
                      Model!Rendered, Model!NoFile
  <2>3. CASE o = e /\ e \in since[b]
    BY <1>1, <2>3 DEF PlanComplete
  <2> QED BY <2>1, <2>2, <2>3
<1> QED BY <1>2, <1>3, <1>7, <1>8 DEF BuildKnows

\* The write of one change, as the build that makes it sees it.
LEMMA BuildApplies ==
    ASSUME ModelType, NEW b \in Runners, BuildKnows(b), Model!Apply(b)
    PROVE  BuildKnows(b)'
<1>1. PICK c \in changes[b] :
         /\ Model!Puts(c, c.to) /\ Model!Touched(b, c.entity)
         /\ changes' = [changes EXCEPT ![b] = changes[b] \ {c}]
  BY DEF Model!Apply
<1>2. /\ mPc[b] = "apply" /\ UNCHANGED <<source, mPc, unparsed, found, unplanned, mAnswer>>
      /\ since'[b] = since[b] /\ changes'[b] = changes[b] \ {c}
  BY <1>1 DEF Model!Apply, Model!Touched, ModelType
<1>3. c \in Changes
  BY DEF ModelType
<1>4. c.entity \in Entities /\ c.what \in {"query", "factory"} /\ c = Model!Change(c.entity, c.what, c.to)
  BY <1>3 DEF Changes, Model!Change
<1>5. /\ c.what = "query" => query'[c.entity] = c.to
      /\ \A e \in Entities : e # c.entity \/ c.what # "query" => query'[e] = query[e]
  BY <1>1, <1>4 DEF Model!Puts, ModelType
<1>6. BuildPhase(b)'
  BY <1>2 DEF BuildKnows, BuildPhase, HasPlan, Model!Refused
<1>7. \A d \in changes[b] : Asked(b, d) /\ Harmless(b, d)
  BY <1>2 DEF BuildKnows, Justified
<1>8. Justified(b)'
  <2> SUFFICES ASSUME NEW d \in changes[b] \ {c} PROVE Asked(b, d)' /\ Harmless(b, d)'
    BY <1>2 DEF Justified
  <2>1. Asked(b, d)'
    BY <1>2, <1>7 DEF Asked, Model!Rendered, Model!NoFile
  <2>2. d \in Changes
    BY DEF ModelType
  <2>3. d.entity \in Entities /\ d = Model!Change(d.entity, d.what, d.to)
    BY <2>2 DEF Changes, Model!Change
  <2>4. CASE d.what = "query" /\ c.what = "query" /\ d.entity = c.entity
    <3>1. d.to = c.to
      BY <1>7, <2>4 DEF Asked
    <3> QED BY <1>4, <2>3, <2>4, <3>1
  <2>5. CASE ~(d.what = "query" /\ c.what = "query" /\ d.entity = c.entity)
    <3>1. Harmless(b, d)
      BY <1>7
    <3>2. d.what = "query" => query'[d.entity] = query[d.entity]
      BY <1>5, <2>3, <2>5
    <3> QED BY <1>2, <2>1, <3>1, <3>2 DEF Harmless
  <2> QED BY <2>4, <2>5
<1>9. ASSUME NEW e \in Entities
      PROVE  ReadIsSo(b, e)'
  BY <1>2 DEF BuildKnows, ReadIsSo, Reads
<1>10. ASSUME NEW e \in Entities
       PROVE  PlanComplete(b, e)'
  <2> SUFFICES ASSUME e \notin since[b], unplanned[b] = {}
               PROVE  PlanComplete(b, e)'
    BY <1>2 DEF PlanComplete, BuildKnows, BuildPhase
  <2>1. /\ found[b][e].is = "declared" =>
              \/ query[e] = Model!Rendered(found[b][e].version)
              \/ Model!Change(e, "query", Model!Rendered(found[b][e].version)) \in changes[b]
        /\ found[b][e].is = "gone" =>
              ~Model!isGeneratedQuery(query[e]) \/ Model!Change(e, "query", Model!NoFile) \in changes[b]
    BY <1>2 DEF BuildKnows, PlanComplete, HasPlan
  <2>2. CASE e = c.entity /\ c.what = "query"
    <3>1. /\ found[b][e].is = "declared" => query'[e] = Model!Rendered(found[b][e].version)
          /\ found[b][e].is = "gone" => query'[e] = Model!NoFile
      BY <1>5, <1>7, <2>2 DEF Asked
    <3>2. ~Model!isGeneratedQuery(Model!NoFile)
      BY DEF Model!isGeneratedQuery, Model!NoFile
    <3> QED BY <1>2, <3>1, <3>2 DEF PlanComplete, Model!isGeneratedQuery, Model!Rendered, Model!NoFile
  <2>3. CASE ~(e = c.entity /\ c.what = "query")
    <3>1. query'[e] = query[e]
      BY <1>5, <2>3
    <3>2. \A to : Model!Change(e, "query", to) # c
      BY <2>3 DEF Model!Change
    <3>3. /\ found[b][e].is = "declared" =>
              \/ query[e] = Model!Rendered(found[b][e].version)
              \/ Model!Change(e, "query", Model!Rendered(found[b][e].version)) \in changes'[b]
          /\ found[b][e].is = "gone" =>
              ~Model!isGeneratedQuery(query[e]) \/ Model!Change(e, "query", Model!NoFile) \in changes'[b]
      BY <1>2, <2>1, <3>2
    <3> QED BY <1>2, <3>1, <3>3 DEF PlanComplete, Model!isGeneratedQuery, Model!Change, Model!Rendered,
                      Model!NoFile
  <2> QED BY <2>2, <2>3
<1> QED BY <1>6, <1>8, <1>9, <1>10 DEF BuildKnows

LEMMA BuildReturns ==
    ASSUME ModelType, NEW b \in Runners, BuildKnows(b), Model!Planned(b) \/ Model!Applied(b)
    PROVE  BuildKnows(b)'
<1>1. /\ UNCHANGED <<source, query, unparsed, found, unplanned, changes, since>>
      /\ mPc[b] \in {"plan", "apply"} /\ unplanned[b] = {}
      /\ \/ mPc'[b] = "apply" /\ mAnswer'[b] = mAnswer[b]
         \/ mPc'[b] = "returned" /\ mAnswer'[b] = "error"
         \/ mPc'[b] = "returned" /\ mAnswer'[b] = "nil" /\ changes[b] = {}
  <2>1. CASE Model!Planned(b)
    BY <2>1 DEF Model!Planned, Model!disk, Model!Goto, Model!Answers, ModelType
  <2>2. CASE Model!Applied(b)
    <3>1. mPc[b] = "apply"
      BY <2>2 DEF Model!Applied, Model!Goto
    <3> QED BY <2>2, <3>1 DEF Model!Applied, Model!disk, Model!Goto, Model!Answers, ModelType,
                              BuildKnows, BuildPhase
  <2> QED BY <2>1, <2>2
<1>2. CASE mPc'[b] = "returned" /\ mAnswer'[b] = "error"
  BY <1>1, <1>2, FailedKnows
<1>3. CASE ~(mPc'[b] = "returned" /\ mAnswer'[b] = "error")
  <2>1. \/ mPc'[b] = "apply" /\ mAnswer'[b] = mAnswer[b]
        \/ mPc'[b] = "returned" /\ mAnswer'[b] = "nil" /\ changes[b] = {}
    BY <1>1, <1>3
  <2>2. HasPlan(b) /\ Reads(b) /\ unparsed[b] = {} /\ ~Model!Refused(b) /\ mAnswer[b] = "none"
    BY <1>1 DEF HasPlan, Reads, BuildKnows, BuildPhase
  <2>3. BuildPhase(b)'
    BY <1>1, <2>1, <2>2 DEF BuildPhase, Model!Refused
  <2>4. Justified(b)'
    BY <1>1, <2>1 DEF BuildKnows, Justified, Asked, Harmless, Model!Rendered, Model!NoFile
  <2>5. \A e \in Entities : ReadIsSo(b, e)'
    BY <1>1, <2>1, <2>2 DEF BuildKnows, ReadIsSo
  <2>6. \A e \in Entities : PlanComplete(b, e)'
    BY <1>1, <2>2 DEF BuildKnows, PlanComplete, Model!isGeneratedQuery, Model!Change, Model!Rendered,
                      Model!NoFile
  <2> QED BY <2>3, <2>4, <2>5, <2>6 DEF BuildKnows
<1> QED BY <1>2, <1>3

LEMMA BuildFails ==
    ASSUME ModelType, NEW b \in Runners, BuildKnows(b),
           \/ Model!ParseFails(b) \/ Model!Untabled(b) \/ Model!PlanFails(b)
           \/ Model!QueryListingMissing(b) \/ Model!ApplyFails(b)
    PROVE  BuildKnows(b)'
<1>1. mPc'[b] = "returned" /\ mAnswer'[b] = "error" /\ found' = found /\ changes'[b] \subseteq changes[b]
  BY DEF Model!ParseFails, Model!Untabled, Model!PlanFails, Model!QueryListingMissing, Model!ApplyFails,
         Model!Fails, Model!Goto, Model!Answers, ModelType
<1> QED BY <1>1, FailedKnows

LEMMA ModelOthers ==
    ASSUME ModelType, NEW b \in Runners, NEW o \in Runners \ {b},
           \/ Model!Begin(o) \/ (\E e \in Entities : Model!Parse(o, e) \/ Model!Plan(o, e))
           \/ Model!ParseFails(o) \/ Model!Entitled(o) \/ Model!Untabled(o) \/ Model!PlanFails(o)
           \/ Model!Planned(o) \/ Model!QueryListingMissing(o) \/ Model!Apply(o) \/ Model!ApplyFails(o)
           \/ Model!Applied(o)
    PROVE  Undisturbed(b)
<1> USE DEF Model!disk, Model!Goto, Model!Answers, Model!Fails
<1>1. CASE Model!Begin(o) \/ Model!Entitled(o) \/ \E e \in Entities : Model!Parse(o, e) \/ Model!Plan(o, e)
  BY <1>1 DEF Undisturbed, ModelType, Model!Begin, Model!Entitled, Model!Parse, Model!Plan
<1>2. CASE \/ Model!ParseFails(o) \/ Model!Untabled(o) \/ Model!PlanFails(o) \/ Model!Planned(o)
           \/ Model!QueryListingMissing(o) \/ Model!Applied(o)
  BY <1>2 DEF Undisturbed, ModelType, Model!ParseFails, Model!Untabled, Model!PlanFails, Model!Planned,
              Model!QueryListingMissing, Model!Applied
<1>3. CASE Model!Apply(o) \/ Model!ApplyFails(o)
  <2>1. PICK c \in changes[o] : /\ \E new : Model!Puts(c, new)
                               /\ Model!Touched(o, c.entity)
                               /\ changes' = [changes EXCEPT ![o] = @ \ {c}]
    BY <1>3 DEF Model!Apply, Model!ApplyFails
  <2>2. since'[b] = since[b] \cup {c.entity}
    BY <2>1 DEF Model!Touched
  <2>3. \A e \in Entities \ {c.entity} : query'[e] = query[e]
    BY <2>1 DEF Model!Puts, ModelType
  <2>4. /\ mPc'[b] = mPc[b] /\ mAnswer'[b] = mAnswer[b] /\ changes'[b] = changes[b]
        /\ UNCHANGED <<source, unparsed, found, unplanned>>
    BY <1>3, <2>1 DEF Model!Apply, Model!ApplyFails, ModelType
  <2> QED BY <2>2, <2>3, <2>4 DEF Undisturbed
<1> QED BY <1>1, <1>2, <1>3

LEMMA ModelStep ==
    ASSUME ModelInv, [Model!Next]_(Model!models)
    PROVE  ModelInv'
<1>1. ModelType'
  BY ModelTypeStep DEF ModelInv
<1> SUFFICES ASSUME NEW b \in Runners PROVE BuildKnows(b)'
  BY <1>1 DEF ModelInv
<1>2. ModelType /\ BuildKnows(b)
  BY DEF ModelInv
<1>3. ASSUME NEW o \in Runners,
           \/ Model!Begin(o) \/ (\E e \in Entities : Model!Parse(o, e) \/ Model!Plan(o, e))
           \/ Model!ParseFails(o) \/ Model!Entitled(o) \/ Model!Untabled(o) \/ Model!PlanFails(o)
           \/ Model!Planned(o) \/ Model!QueryListingMissing(o) \/ Model!Apply(o) \/ Model!ApplyFails(o)
           \/ Model!Applied(o)
      PROVE  BuildKnows(b)'
  <2>1. CASE o = b
    BY <1>2, <1>3, <2>1, BuildReads, BuildPlans, BuildApplies, BuildReturns, BuildFails
  <2>2. CASE o # b
    BY <1>2, <1>3, <2>2, ModelOthers, OthersKeepIt
  <2> QED BY <2>1, <2>2
<1>4. ASSUME NEW e \in Entities, Model!Edit(e)
      PROVE  BuildKnows(b)'
  <2>1. Undisturbed(b)
    BY <1>2, <1>4 DEF Model!Edit, Undisturbed, ModelType
  <2> QED BY <1>2, <2>1, OthersKeepIt
<1>5. ASSUME UNCHANGED Model!models
      PROVE  BuildKnows(b)'
  <2>1. Undisturbed(b)
    BY <1>5 DEF Model!models, Undisturbed
  <2> QED BY <1>2, <2>1, OthersKeepIt
<1> QED BY <1>3, <1>4, <1>5 DEF Model!Next

LEMMA ModelSafe ==
    ASSUME ModelInv
    PROVE  Model!CurrentWhenDone
<1> SUFFICES ASSUME NEW b \in Runners, mAnswer[b] = "nil", NEW e \in Entities \ since[b]
             PROVE  CASE source[e].is = "declared" -> query[e] = Model!Rendered(source[e].version)
                      [] source[e].is = "gone"     -> ~Model!isGeneratedQuery(query[e])
                      [] OTHER -> FALSE
  BY DEF Model!CurrentWhenDone
<1>1. BuildPhase(b) /\ ReadIsSo(b, e) /\ PlanComplete(b, e) /\ source[e].is \in Kinds
  BY DEF ModelInv, BuildKnows, ModelType
<1>2. unparsed[b] = {} /\ unplanned[b] = {} /\ changes[b] = {} /\ found[b][e].is # "untabled"
  BY <1>1 DEF BuildPhase, HasPlan, Model!Refused
<1>3. found[b][e].is = source[e].is /\ found[b][e].version = source[e].version /\ source[e].is # "unreadable"
  BY <1>1, <1>2 DEF ReadIsSo, Reads
<1>4. /\ source[e].is = "declared" => query[e] = Model!Rendered(source[e].version)
      /\ source[e].is = "gone" => ~Model!isGeneratedQuery(query[e])
  BY <1>1, <1>2, <1>3 DEF PlanComplete, HasPlan
<1>5. source[e].is = "declared" \/ source[e].is = "gone"
  BY <1>1, <1>2, <1>3 DEF Kinds
<1> QED BY <1>4, <1>5

LEMMA ModelTouches ==
    ASSUME ModelInv, [Model!Next]_(Model!models)
    PROVE  Model!TouchesItsOwn
<1> SUFFICES ASSUME NEW b \in Runners, NEW e \in Entities, query'[e] # query[e], mPc[b] = "apply",
                    changes'[b] # changes[b], e \notin since[b]
             PROVE  query[e].by \in {"nobody", "build"} /\ (query'[e] = Model!NoFile => source[e].is # "declared")
  BY DEF Model!TouchesItsOwn, Model!OnlyItsOwn
<1>1. ModelType /\ BuildKnows(b)
  BY DEF ModelInv
<1>2. Model!Apply(b) \/ Model!ApplyFails(b)
  <2>1. ~Undisturbed(b)
    BY DEF Undisturbed
  <2>2. ~UNCHANGED Model!models /\ \A o \in Entities : ~Model!Edit(o)
    BY DEF Model!models, Model!Edit
  <2>3. \A o \in Runners \ {b} :
           ~(\/ Model!Begin(o) \/ (\E d \in Entities : Model!Parse(o, d) \/ Model!Plan(o, d))
             \/ Model!ParseFails(o) \/ Model!Entitled(o) \/ Model!Untabled(o) \/ Model!PlanFails(o)
             \/ Model!Planned(o) \/ Model!QueryListingMissing(o) \/ Model!Apply(o) \/ Model!ApplyFails(o)
             \/ Model!Applied(o))
    BY <1>1, <2>1, ModelOthers
  <2>4. /\ ~Model!Begin(b) /\ ~Model!Entitled(b) /\ ~Model!Planned(b) /\ ~Model!Applied(b)
        /\ ~Model!ParseFails(b) /\ ~Model!Untabled(b) /\ ~Model!PlanFails(b) /\ ~Model!QueryListingMissing(b)
        /\ \A d \in Entities : ~Model!Parse(b, d) /\ ~Model!Plan(b, d)
    BY DEF Model!Begin, Model!Entitled, Model!Planned, Model!Applied, Model!ParseFails, Model!Untabled,
           Model!PlanFails, Model!QueryListingMissing, Model!Parse, Model!Plan
  <2> QED BY <2>2, <2>3, <2>4 DEF Model!Next
<1>3. PICK c \in changes[b] :
         \/ Model!Puts(c, c.to)
         \/ Model!Puts(c, IF c.to = Model!NoFile THEN query[c.entity] ELSE Model!Torn)
  BY <1>2 DEF Model!Apply, Model!ApplyFails
<1>4. c.what = "query" /\ c.entity = e
  BY <1>1, <1>3 DEF Model!Puts, ModelType
<1>5. Asked(b, c) /\ Harmless(b, c)
  BY <1>1 DEF BuildKnows, Justified
<1>6. query[e].by \in {"nobody", "build"}
  BY <1>4, <1>5 DEF Harmless
<1>7. query'[e] = Model!NoFile => c.to = Model!NoFile
  <2>1. Model!Torn # Model!NoFile
    BY DEF Model!Torn, Model!NoFile
  <2>2. query'[e] = c.to \/ (query'[e] = IF c.to = Model!NoFile THEN query[c.entity] ELSE Model!Torn)
    BY <1>1, <1>3, <1>4 DEF Model!Puts, ModelType
  <2> QED BY <1>4, <2>1, <2>2
<1>8. c.to = Model!NoFile => found[b][e].is = "gone"
  BY <1>4, <1>5 DEF Asked, Model!NoFile, Model!Rendered
<1>9. found[b][e].is = source[e].is
  BY <1>1 DEF BuildKnows, BuildPhase, HasPlan, ReadIsSo, Reads
<1> QED BY <1>6, <1>7, <1>8, <1>9

(***************************************************************************)
(* The asset files.                                                        *)
(***************************************************************************)
AssetPcs == {"idle", "write", "rename", "cleanup"}
Alone == \A a, b \in Builders : a = b

AssetType ==
    /\ temp \subseteq 1 .. MaxTemps /\ name \subseteq 1 .. MaxTemps /\ aCreated \in 0 .. MaxTemps
    /\ aPc \in [Builders -> AssetPcs] /\ open \in [Builders -> 0 .. MaxTemps] /\ killed \in BOOLEAN

\* The output is one complete file; what lies beside it is being written, or was left by a kill.
AssetInv ==
    /\ AssetType
    /\ name \subseteq aWhole /\ \A f, g \in name : f = g
    /\ \A f, g \in temp : f = g
    /\ \A b \in Builders :
          /\ aPc[b] \in {"write", "rename"} => temp = {open[b]}
          /\ aPc[b] = "rename" => open[b] \in aWhole
          /\ aPc[b] = "idle" /\ ~killed => temp = {}

LEMMA AssetStart ==
    ASSUME MaxTemps \in Nat, Asset!Init
    PROVE  AssetInv
<1>1. /\ aPc = [b \in Builders |-> "idle"] /\ open = [b \in Builders |-> 0]
      /\ temp = {} /\ name = {} /\ aCreated = 0 /\ killed = FALSE
  BY DEF Asset!Init
<1>2. AssetType
  <2>1. aPc \in [Builders -> AssetPcs]
    BY <1>1 DEF AssetPcs
  <2>2. 0 \in 0 .. MaxTemps
    OBVIOUS
  <2>3. open \in [Builders -> 0 .. MaxTemps]
    BY <1>1, <2>2
  <2> QED BY <1>1, <2>1, <2>2, <2>3 DEF AssetType
<1> QED BY <1>1, <1>2 DEF AssetInv

LEMMA AssetStep ==
    ASSUME Alone, MaxTemps \in Nat, AssetInv, [Asset!Next]_(Asset!vars)
    PROVE  AssetInv'
<1> USE DEF AssetPcs, Alone, Asset!files
<1>1. ASSUME NEW b \in Builders, Asset!Create(b)
      PROVE  AssetInv'
  BY <1>1 DEF Asset!Create, AssetInv, AssetType
<1>2. ASSUME NEW b \in Builders, Asset!CreateRefused(b)
      PROVE  AssetInv'
  BY <1>2 DEF Asset!CreateRefused, AssetInv, AssetType
<1>3. ASSUME NEW b \in Builders, Asset!WriteBody(b)
      PROVE  AssetInv'
  BY <1>3 DEF Asset!WriteBody, AssetInv, AssetType
<1>4. ASSUME NEW b \in Builders, Asset!Rename(b)
      PROVE  AssetInv'
  BY <1>4 DEF Asset!Rename, AssetInv, AssetType
<1>5. ASSUME NEW b \in Builders, Asset!Cleanup(b) \/ Asset!RemoveOutput(b) \/ Asset!Crash(b)
      PROVE  AssetInv'
  BY <1>5 DEF Asset!Cleanup, Asset!RemoveOutput, Asset!Crash, AssetInv, AssetType
<1>6. ASSUME UNCHANGED Asset!vars
      PROVE  AssetInv'
  BY <1>6 DEF Asset!vars, AssetInv, AssetType
<1> QED BY <1>1, <1>2, <1>3, <1>4, <1>5, <1>6 DEF Asset!Next, Asset!Build

LEMMA AssetSafe == AssetInv => Asset!NeverRefusedByItself
BY DEF AssetInv, Asset!NeverRefusedByItself

\* Every step installs a complete file, removes the output, or leaves it.
LEMMA AssetInstalls ==
    ASSUME Alone, AssetInv, AssetInv', [Asset!Next]_(Asset!vars)
    PROVE  [Asset!Abstract!Next]_(Asset!content)
<1> USE DEF Asset!files
<1>1. CASE name' = {}
  BY <1>1 DEF Asset!Abstract!Next, Asset!Abstract!Remove, Asset!content
<1>2. CASE name' = name /\ name # {}
  <2>1. aWhole \subseteq aWhole'
    BY DEF Asset!Next, Asset!Build, Asset!Create, Asset!CreateRefused, Asset!WriteBody, Asset!Rename,
           Asset!Cleanup, Asset!RemoveOutput, Asset!Crash, Asset!vars
  <2>2. \A i \in name : (i \in aWhole') = (i \in aWhole)
    BY <2>1 DEF AssetInv
  <2> QED BY <1>2, <2>2 DEF Asset!content
<1>3. CASE name' # {} /\ name' # name
  <2>1. PICK i \in name' : name' = {i}
    BY <1>3 DEF AssetInv
  <2>2. i \in aWhole' /\ i \in 1 .. MaxTemps
    BY <2>1 DEF AssetInv, AssetType
  <2>3. Asset!content' = {<<i, TRUE>>}
    BY <2>1, <2>2 DEF Asset!content
  <2>4. <<i, TRUE>> \in Asset!Inode \X {TRUE}
    BY <2>2 DEF Asset!Inode
  <2> QED BY <2>3, <2>4 DEF Asset!Abstract!Next, Asset!Abstract!Install
<1> QED BY <1>1, <1>2, <1>3

(***************************************************************************)
(* The tool.                                                               *)
(***************************************************************************)
\* No file above the counter is known to anybody.
ToolFresh ==
    /\ \A f \in cached \cup temps : f \in 1 .. created
    /\ \A p \in Installers : Tool!Holding(p) => tmp[p] \in 1 .. created

\* What each step of install has done by the time the next one runs.
ToolStages ==
    \A p \in Installers :
        /\ tPc[p] \in {"chmod", "rename"} => tmp[p] \in whole
        /\ tPc[p] = "rename" => tmp[p] \in runnable

\* What is on its way to the cached path has been checked.
ToolChecking ==
    \A p \in Installers :
        /\ tPc[p] = "fetch" => Shipped \/ pin[p] # Tool!NoPin
        /\ tPc[p] = "create" \/ Tool!Installing(p) => Tool!Vouched(got[p])
        /\ Tool!Installing(p) => body[tmp[p]] = got[p]

\* Whatever is at the path is finished.
ToolFinished == cached \subseteq whole /\ cached \subseteq runnable

ToolInv == Tool!TypeOK /\ Tool!TempsAreOwned /\ Tool!NothingUnchecked /\ ToolFresh /\ ToolStages /\ ToolChecking /\ ToolFinished

USE KnownBody, NotBodies, MaxFilesNat, FailuresBoolean DEF Tool!File, Tool!Installing, Tool!Holding, Tool!dir

LEMMA ToolStart == Tool!Init => ToolInv
  BY DEF Tool!Init, ToolInv, Tool!TypeOK, Tool!TempsAreOwned, Tool!NothingUnchecked, ToolFresh, ToolStages,
        ToolChecking, ToolFinished

\* The steps before install, and those that leave the directory as it was.
LEMMA ToolEnsures ==
  ASSUME ToolInv, NEW p \in Installers,
         Tool!Found(p) \/ Tool!Download(p) \/ Tool!Checked(p) \/ Tool!Refused(p) \/ Tool!CreateFails(p)
  PROVE  ToolInv'
  <1>1. CASE Tool!Found(p)
    BY <1>1 DEF Tool!Found, Tool!vars, ToolInv, Tool!TypeOK, Tool!TempsAreOwned, Tool!NothingUnchecked,
          ToolFresh, ToolStages,
                ToolChecking, ToolFinished, Tool!Vouched
  <1>2. CASE Tool!Download(p) \/ Tool!Refused(p) \/ Tool!CreateFails(p)
    <2>1. /\ ~Tool!Holding(p) /\ ~Tool!Holding(p)' /\ tPc'[p] \in {"idle", "fetch"}
          /\ tPc'[p] = "fetch" => Shipped \/ pin[p] # Tool!NoPin
          /\ tPc' \in [Installers -> {"idle", "fetch", "create", "write", "chmod", "rename", "cleanup"}]
          /\ \A q \in Installers : q # p => tPc'[q] = tPc[q]
          /\ UNCHANGED <<pin, Tool!dir, got, tmp>>
      BY <1>2 DEF Tool!Download, Tool!Refused, Tool!CreateFails, Tool!Goto, ToolInv, Tool!TypeOK
    <2>2. Tool!TypeOK' /\ ToolFinished' /\ Tool!NothingUnchecked' /\ ToolFresh'
      BY <2>1 DEF ToolInv, Tool!TypeOK, ToolFinished, Tool!NothingUnchecked, Tool!Vouched, ToolFresh
    <2>3. Tool!TempsAreOwned' /\ ToolStages'
      BY <2>1 DEF ToolInv, Tool!TempsAreOwned, ToolStages
    <2>4. ToolChecking'
      BY <2>1 DEF ToolInv, ToolChecking, Tool!Vouched
    <2> QED BY <2>2, <2>3, <2>4 DEF ToolInv
  <1>3. CASE Tool!Checked(p)
    <2>1. PICK b \in Bodies, f \in Bodies \cup {Tool!NoEntry} :
                 Tool!Verified(p, b, f) /\ got' = [got EXCEPT ![p] = b]
      BY <1>3 DEF Tool!Checked
    <2>2. /\ tPc[p] = "fetch" /\ tPc' = [tPc EXCEPT ![p] = "create"]
          /\ UNCHANGED <<pin, Tool!dir, tmp>>
      BY <1>3 DEF Tool!Checked, Tool!Goto
    <2>3. Tool!Vouched(b)
      BY <2>1, <2>2 DEF Tool!Verified, Tool!Vouched, ToolInv, ToolChecking
    <2>4. Tool!TypeOK' /\ ToolFinished' /\ Tool!NothingUnchecked' /\ ToolFresh'
      BY <2>1, <2>2 DEF ToolInv, Tool!TypeOK, ToolFinished, Tool!NothingUnchecked, Tool!Vouched, ToolFresh
    <2>5. Tool!TempsAreOwned' /\ ToolStages'
      BY <2>2 DEF ToolInv, Tool!TypeOK, Tool!TempsAreOwned, ToolStages
    <2>6. ToolChecking'
      BY <2>1, <2>2, <2>3 DEF ToolInv, Tool!TypeOK, ToolChecking, Tool!Vouched
    <2> QED BY <2>4, <2>5, <2>6 DEF ToolInv
  <1> QED BY <1>1, <1>2, <1>3

\* A file is created under a name nothing leads to.
LEMMA ToolCreates ==
  ASSUME ToolInv, NEW p \in Installers, Tool!CreateTemp(p)
  PROVE  ToolInv'
  <1> DEFINE f == created + 1
  <1>1. /\ tPc[p] = "create" /\ tPc' = [tPc EXCEPT ![p] = "write"]
        /\ created' = f /\ f \in 1 .. MaxFiles
        /\ tmp' = [tmp EXCEPT ![p] = f]
        /\ temps' = temps \cup {f}
        /\ body' = [body EXCEPT ![f] = got[p]]
        /\ UNCHANGED <<pin, cached, whole, runnable, retired, got>>
    BY DEF Tool!CreateTemp, Tool!Goto, ToolInv, Tool!TypeOK
  <1>2. /\ \A q \in Installers : Tool!Holding(q) => tmp[q] # f
        /\ f \notin cached /\ f \notin temps
    BY DEF ToolInv, ToolFresh, Tool!TypeOK
  <1>3. Tool!TypeOK'
    BY <1>1 DEF ToolInv, Tool!TypeOK
  <1>4. Tool!TempsAreOwned'
    BY <1>1, <1>2 DEF ToolInv, Tool!TypeOK, Tool!TempsAreOwned
  <1>5. Tool!NothingUnchecked' /\ ToolFinished'
    BY <1>1, <1>2 DEF ToolInv, Tool!TypeOK, Tool!NothingUnchecked, Tool!Vouched, ToolFinished
  <1>6. ToolFresh'
    BY <1>1 DEF ToolInv, Tool!TypeOK, ToolFresh
  <1>7. ToolStages'
    BY <1>1 DEF ToolInv, Tool!TypeOK, ToolStages
  <1>8. ToolChecking'
    BY <1>1, <1>2 DEF ToolInv, Tool!TypeOK, ToolChecking, Tool!Vouched
  <1> QED BY <1>3, <1>4, <1>5, <1>6, <1>7, <1>8 DEF ToolInv

\* The steps on one's own file, and giving up on it.
LEMMA ToolFills ==
  ASSUME ToolInv, NEW p \in Installers, Tool!Write(p) \/ Tool!Chmod(p) \/ Tool!StepFails(p)
  PROVE  ToolInv'
  <1>1. /\ Tool!Installing(p) /\ Tool!Holding(p)'
        /\ \/ tPc[p] = "write" /\ tPc' = [tPc EXCEPT ![p] = "chmod"] /\ tmp[p] \in whole'
           \/ tPc[p] = "chmod" /\ tPc' = [tPc EXCEPT ![p] = "rename"] /\ tmp[p] \in runnable'
           \/ tPc' = [tPc EXCEPT ![p] = "cleanup"]
        /\ whole' \in {whole, whole \cup {tmp[p]}}
        /\ runnable' \in {runnable, runnable \cup {tmp[p]}}
        /\ UNCHANGED <<pin, cached, temps, created, body, retired, got, tmp>>
    BY DEF Tool!Write, Tool!Chmod, Tool!StepFails, Tool!Goto, ToolInv, Tool!TypeOK
  <1>2. tmp[p] \in 1 .. MaxFiles
    BY <1>1 DEF ToolInv, ToolFresh, Tool!TypeOK
  <1>3. Tool!TypeOK'
    BY <1>1, <1>2 DEF ToolInv, Tool!TypeOK
  <1>4. Tool!TempsAreOwned' /\ ToolFresh'
    <2>1. \A q \in Installers : Tool!Holding(q)' = Tool!Holding(q) /\ (Tool!Installing(q)' => Tool!Installing(q))
      BY <1>1 DEF ToolInv, Tool!TypeOK
    <2> HIDE DEF Tool!Holding, Tool!Installing
    <2> QED BY <1>1, <2>1 DEF ToolInv, Tool!TempsAreOwned, ToolFresh
  <1>5. Tool!NothingUnchecked' /\ ToolFinished'
    BY <1>1 DEF ToolInv, Tool!NothingUnchecked, Tool!Vouched, ToolFinished
  <1>6. ToolStages'
    BY <1>1 DEF ToolInv, Tool!TypeOK, ToolStages
  <1>7. ToolChecking'
    BY <1>1 DEF ToolInv, Tool!TypeOK, ToolChecking, Tool!Vouched
  <1> QED BY <1>3, <1>4, <1>5, <1>6, <1>7 DEF ToolInv

\* The rename and the removal take a file its owner alone knows.
LEMMA ToolEnds ==
  ASSUME ToolInv, NEW p \in Installers, Tool!Rename(p) \/ Tool!Cleanup(p)
  PROVE  ToolInv'
  <1>1. /\ Tool!Holding(p) /\ temps' = temps \ {tmp[p]}
        /\ \/ /\ tPc[p] = "rename" /\ tPc' = [tPc EXCEPT ![p] = "cleanup"]
              /\ cached' = {tmp[p]}
           \/ /\ tPc[p] = "cleanup" /\ tPc' = [tPc EXCEPT ![p] = "idle"]
              /\ cached' = cached
        /\ UNCHANGED <<pin, created, body, whole, runnable, retired, got, tmp>>
    BY DEF Tool!Rename, Tool!Cleanup, Tool!Goto
  <1>2. tmp[p] \in 1 .. created /\ tmp[p] \in 1 .. MaxFiles
    BY <1>1 DEF ToolInv, ToolFresh, Tool!TypeOK
  <1>3. Tool!TypeOK'
    BY <1>1, <1>2 DEF ToolInv, Tool!TypeOK
  <1>4. Tool!TempsAreOwned'
    <2>1. /\ ~Tool!Installing(p)' /\ (Tool!Holding(p)' => Tool!Holding(p))
          /\ \A q \in Installers \ {p} : Tool!Holding(q)' = Tool!Holding(q) /\ Tool!Installing(q)' = Tool!Installing(q)
          /\ \A q \in Installers : Tool!Installing(q) => Tool!Holding(q)
      BY <1>1 DEF ToolInv, Tool!TypeOK
    <2> HIDE DEF Tool!Holding, Tool!Installing
    <2>2. \A q \in Installers \ {p} : Tool!Holding(q) => tmp[q] # tmp[p]
      BY <1>1 DEF ToolInv, Tool!TempsAreOwned
    <2>3. \A f \in temps' : \E q \in Installers : tmp'[q] = f /\ Tool!Holding(q)'
      BY <1>1, <2>1 DEF ToolInv, Tool!TempsAreOwned
    <2>4. \A q \in Installers : Tool!Installing(q)' => tmp'[q] \in temps'
      BY <1>1, <2>1, <2>2 DEF ToolInv, Tool!TempsAreOwned
    <2>5. \A q, r \in Installers : Tool!Holding(q)' /\ Tool!Holding(r)' /\ tmp'[q] = tmp'[r] => q = r
      BY <1>1, <2>1 DEF ToolInv, Tool!TempsAreOwned
    <2> QED BY <2>3, <2>4, <2>5 DEF Tool!TempsAreOwned
  <1>5. Tool!NothingUnchecked'
    BY <1>1 DEF ToolInv, Tool!NothingUnchecked, ToolChecking, Tool!Vouched
  <1>6. ToolFinished' /\ ToolStages'
    BY <1>1 DEF ToolInv, Tool!TypeOK, ToolFinished, ToolStages
  <1>7. ToolFresh'
    BY <1>1, <1>2 DEF ToolInv, Tool!TypeOK, ToolFresh
  <1>8. ToolChecking'
    BY <1>1 DEF ToolInv, Tool!TypeOK, ToolChecking, Tool!Vouched
  <1> QED BY <1>3, <1>4, <1>5, <1>6, <1>7, <1>8 DEF ToolInv

LEMMA ToolStep == ToolInv /\ [Tool!Next]_(Tool!vars) => ToolInv'
  <1>1. CASE \E p \in Installers : Tool!Ensure(p)
    BY <1>1, ToolEnsures, ToolCreates, ToolFills, ToolEnds DEF Tool!Ensure
  <1>2. CASE Tool!Sweep \/ UNCHANGED Tool!vars
    <2>1. /\ UNCHANGED <<pin, cached, temps, created, body, whole, runnable, tPc, got, tmp>>
          /\ ToolInv => retired' \in BOOLEAN
      BY <1>2 DEF Tool!Sweep, Tool!vars, ToolInv, Tool!TypeOK
    <2>2. ToolInv => Tool!TypeOK' /\ ToolFresh' /\ ToolStages' /\ ToolFinished'
      BY <2>1 DEF ToolInv, Tool!TypeOK, ToolFresh, ToolStages, ToolFinished
    <2>3. ToolInv => Tool!NothingUnchecked' /\ ToolChecking'
      BY <2>1 DEF ToolInv, Tool!NothingUnchecked, ToolChecking, Tool!Vouched
    <2> HIDE DEF Tool!Holding, Tool!Installing
    <2>4. \A p \in Installers : Tool!Holding(p)' = Tool!Holding(p) /\ Tool!Installing(p)' = Tool!Installing(p)
      BY <2>1 DEF Tool!Holding, Tool!Installing
    <2>5. ToolInv => Tool!TempsAreOwned'
      BY <2>1, <2>4 DEF ToolInv, Tool!TempsAreOwned
    <2> QED BY <2>2, <2>3, <2>5 DEF ToolInv
  <1> QED BY <1>1, <1>2 DEF Tool!Next

LEMMA ToolSafe == ToolInv => Tool!TempsAreOwned /\ Tool!NothingUnchecked
  BY DEF ToolInv

\* "either completely or not at all": every step installs a complete binary or leaves the path alone.
LEMMA ToolInstalls ==
  ASSUME ToolInv, ToolInv', [Tool!Next]_(Tool!vars)
  PROVE  [Tool!Abstract!Next]_(Tool!content)
  <1> USE DEF Tool!Abstract!Install, Tool!Abstract!Remove, Tool!content
  <1>1. CASE \E p \in Installers : Tool!Rename(p)
    <2>1. PICK p \in Installers : Tool!Rename(p)
      BY <1>1
    <2>2. tmp[p] \in whole' /\ tmp[p] \in runnable' /\ body'[tmp[p]] \in Bodies /\ cached' = {tmp[p]}
      BY <2>1 DEF Tool!Rename, Tool!Goto, ToolInv, ToolStages, Tool!TypeOK
    <2>3. Tool!content' = {[whole |-> TRUE, runnable |-> TRUE, body |-> body'[tmp[p]]]}
      BY <2>2
    <2> QED BY <2>2, <2>3 DEF Tool!Abstract!Next
  <1>2. CASE ~ \E p \in Installers : Tool!Rename(p)
    <2>1. cached' = cached /\ \A f \in cached : body'[f] = body[f]
      BY <1>2 DEF Tool!Next, Tool!Ensure, Tool!Found, Tool!Download, Tool!Checked, Tool!Refused,
            Tool!CreateTemp, Tool!CreateFails,
                 Tool!Write, Tool!Chmod, Tool!StepFails, Tool!Cleanup, Tool!Sweep, Tool!vars, ToolInv, ToolFresh, Tool!TypeOK
    <2>2. \A f \in cached : (f \in whole) = (f \in whole') /\ (f \in runnable) = (f \in runnable')
      BY <1>2, <2>1 DEF ToolInv, ToolFinished
    <2> QED BY <2>1, <2>2
  <1> QED BY <1>1, <1>2

HIDE DEF Tool!File, Tool!Installing, Tool!Holding, Tool!dir

(***************************************************************************)
(* The parts together.                                                     *)
(***************************************************************************)
\* What holds of the part a behaviour is of.
OutputsInv ==
    /\ part = "asset" => (Alone => AssetInv)
    /\ part = "tool" => ToolInv
    /\ part = "package" => PackageInv /\ StepsInv /\ StraysInv
    /\ part = "windows" => WindowsInv
    /\ part = "manifest" => ManifestInv
    /\ part = "signing" => SigningInv
    /\ part = "migrations" => MigrationInv
    /\ part = "models" => ModelInv
    /\ part = "skills" => SkillsInv /\ SyncInv
    /\ part = "fonts" => FontInv

\* A step is one of the part, and leaves alone the others.
LEMMA StepsOfOutputs ==
    ASSUME [OutputsNext]_all
    PROVE  /\ part' = part
           /\ [Asset!Next]_(Asset!vars) /\ (part # "asset" => UNCHANGED Asset!vars)
           /\ [Tool!Next]_(Tool!vars) /\ (part # "tool" => UNCHANGED Tool!vars)
           /\ [Package!Next]_(Package!vars)
           /\ [Windows!Next]_(Windows!vars)
           /\ [Manifest!Next]_(Manifest!vars)
           /\ [Signing!Next]_(Signing!vars)
           /\ [Migration!Next]_(Migration!migrations)
           /\ [Model!Next]_(Model!models)
           /\ [Skill!Next]_(Skill!skills)
           /\ [Font!Next]_(Font!fontFiles)
<1>1. CASE UNCHANGED all
  <2>1. UNCHANGED <<part, asset, tool, package, windows, manifest, signing, project>>
    BY <1>1 DEF all
  <2>2. UNCHANGED Asset!vars /\ UNCHANGED Tool!vars
    BY <2>1 DEF asset, tool, Asset!vars, Asset!files, Tool!vars, Tool!dir
  <2>3. UNCHANGED Package!vars
    BY <2>1 DEF package, Package!vars, Package!locked, Package!compiles
  <2>4. UNCHANGED Windows!vars
    BY <2>1 DEF windows, Windows!vars, Windows!files
  <2>5. UNCHANGED Manifest!vars /\ UNCHANGED Signing!vars
    BY <2>1 DEF manifest, Manifest!vars, signing, Signing!vars
  <2>6. UNCHANGED Migration!migrations /\ UNCHANGED Model!models
    BY <2>1 DEF project, migrations, Migration!migrations, models, Model!models
  <2>7. UNCHANGED Skill!skills /\ UNCHANGED Font!fontFiles
    BY <2>1 DEF project, skills, Skill!skills, fontFiles, Font!fontFiles
  <2> QED BY <2>1, <2>2, <2>3, <2>4, <2>5, <2>6, <2>7
<1>2. CASE OutputsNext
  <2>1. part' = part
    BY <1>2 DEF OutputsNext
  <2>2. [Asset!Next]_(Asset!vars) /\ (part # "asset" => UNCHANGED Asset!vars)
    BY <1>2 DEF OutputsNext, asset, Asset!vars, Asset!files
  <2>3. [Tool!Next]_(Tool!vars) /\ (part # "tool" => UNCHANGED Tool!vars)
    BY <1>2 DEF OutputsNext, tool, Tool!vars, Tool!dir
  <2>4. [Package!Next]_(Package!vars)
    BY <1>2 DEF OutputsNext, package, Package!vars, Package!locked, Package!compiles
  <2>5. [Windows!Next]_(Windows!vars)
    BY <1>2 DEF OutputsNext, windows, Windows!vars, Windows!files
  <2>6. [Signing!Next]_(Signing!vars)
    BY <1>2 DEF OutputsNext, signing, Signing!vars
  <2>7. [Migration!Next]_(Migration!migrations)
    BY <1>2 DEF OutputsNext, migrations, Migration!migrations
  <2>8. [Model!Next]_(Model!models)
    BY <1>2 DEF OutputsNext, models, Model!models
  <2>9. [Skill!Next]_(Skill!skills)
    BY <1>2 DEF OutputsNext, skills, Skill!skills
  <2>10. [Manifest!Next]_(Manifest!vars)
    BY <1>2 DEF OutputsNext, manifest, Manifest!vars
  <2>11. [Font!Next]_(Font!fontFiles)
    BY <1>2 DEF OutputsNext, fontFiles, Font!fontFiles
  <2> QED BY <2>1, <2>2, <2>3, <2>4, <2>5, <2>6, <2>7, <2>8, <2>9, <2>10, <2>11
<1> QED BY <1>1, <1>2

LEMMA OutputsStart == OutputsInit => OutputsInv
<1> SUFFICES ASSUME OutputsInit PROVE OutputsInv
  OBVIOUS
<1>1. /\ part = "asset" => Asset!Init
      /\ part = "tool" => Tool!Init
      /\ part = "package" => Package!Init
      /\ part = "windows" => Windows!Init
      /\ part = "manifest" => Manifest!Init
      /\ part = "signing" => Signing!Init
      /\ part = "migrations" => Migration!Init
      /\ part = "models" => Model!Init
      /\ part = "skills" => Skill!Init
      /\ part = "fonts" => Font!Init
  BY DEF OutputsInit
<1>2. MaxTemps \in Nat /\ Sources \subseteq Seq(Manifest!Source)
  BY OutputsBounds, SourcesAssumption
<1>3. part = "asset" => AssetInv
  BY <1>1, <1>2, AssetStart
<1>4. part = "manifest" => ManifestInv
  BY <1>1, <1>2, ManifestStart
<1>5. /\ part = "tool" => ToolInv
      /\ part = "package" => PackageInv /\ StepsInv /\ StraysInv
      /\ part = "windows" => WindowsInv
      /\ part = "signing" => SigningInv
      /\ part = "migrations" => MigrationInv
      /\ part = "models" => ModelInv
      /\ part = "skills" => SkillsInv /\ SyncInv
      /\ part = "fonts" => FontInv
  BY <1>1, <1>2, ToolStart, PackageStart, StepsStart, StraysStart, WindowsStart, SigningStart, MigrationStart, ModelStart,
     SkillsStart, SyncStart, FontStart
<1> QED BY <1>3, <1>4, <1>5 DEF OutputsInv

LEMMA OutputsStep == OutputsInv /\ [OutputsNext]_all => OutputsInv'
<1> SUFFICES ASSUME OutputsInv, [OutputsNext]_all PROVE OutputsInv'
  OBVIOUS
<1>1. ASSUME part = "asset", Alone PROVE AssetInv'
  <2>1. AssetInv /\ [Asset!Next]_(Asset!vars)
    BY <1>1, StepsOfOutputs DEF OutputsInv
  <2>2. MaxTemps \in Nat
    BY OutputsBounds
  <2> QED BY <1>1, <2>1, <2>2, AssetStep
<1>2. part = "tool" => ToolInv'
  BY StepsOfOutputs, ToolStep DEF OutputsInv
<1>3. part = "package" => PackageInv' /\ StepsInv' /\ StraysInv'
  BY StepsOfOutputs, PackageStep, StepsStep, StraysStep DEF OutputsInv
<1>4. part = "windows" => WindowsInv'
  BY StepsOfOutputs, WindowsStep DEF OutputsInv
<1>5. part = "signing" => SigningInv'
  BY StepsOfOutputs, SigningStep DEF OutputsInv
<1>6. part = "migrations" => MigrationInv'
  BY OutputsBounds, StepsOfOutputs, MigrationStep DEF OutputsInv
<1>7. part = "models" => ModelInv'
  BY StepsOfOutputs, ModelStep DEF OutputsInv
<1>8. part = "skills" => SkillsInv' /\ SyncInv'
  BY StepsOfOutputs, SkillsStep, SyncStep DEF OutputsInv
<1>9. part = "manifest" => ManifestInv'
  <2>1. Sources \subseteq Seq(Manifest!Source)
    BY SourcesAssumption
  <2>2. [Manifest!Next]_(Manifest!vars)
    BY StepsOfOutputs
  <2> QED BY <2>1, <2>2, ManifestStep DEF OutputsInv
<1>10. part = "fonts" => FontInv'
  <2>1. Font!Next \/ UNCHANGED fontFiles
    BY StepsOfOutputs DEF fontFiles, Font!fontFiles
  <2> QED BY <2>1, FontStep DEF OutputsInv
<1> QED BY <1>1, <1>2, <1>3, <1>4, <1>5, <1>6, <1>7, <1>8, <1>9, <1>10, StepsOfOutputs DEF OutputsInv, Alone

LEMMA OutputsInvariance == OutputsSpec => []OutputsInv
BY OutputsStart, OutputsStep, PTL DEF OutputsSpec

\* For any number of architectures and runs: until all are published what was
\* there is at its name or in its backup; a run that returned published all or none,
\* unless its undoing failed; and one that answers nil leaves no resource file, no
\* key and no hidden file behind (buildWindows, publishPrograms, buildArch).
THEOREM WindowsPublishesAll == OutputsSpec => []PreviousSurvives
<1>1. OutputsInv => PreviousSurvives
  BY WindowsSurvive DEF OutputsInv, WindowsInv, WindowsHidden, PreviousSurvives
<1> QED BY <1>1, OutputsInvariance, PTL

\* For any profiles in any order: an application that is signed has in it the
\* profile its entitlements are of, which fits; and one that is not is told why by
\* the profiles there are (the loop over the installed profiles).
THEOREM SignsWithItsProfile == OutputsSpec => []SignedAsEmbedded
<1>1. OutputsInv => SignedAsEmbedded
  BY SigningSafe DEF OutputsInv, SignedAsEmbedded
<1> QED BY <1>1, OutputsInvariance, PTL

\* Between any number of commands, whatever the developer writes, takes away and
\* forces: a file that is reported created is of the command that reports it or was
\* forced over, and a migration whose command had read another is after it
\* (gen.Write, readMigrationInventory, resolveMigrationID).
THEOREM MigrationsAreOwned == OutputsSpec => []ReportedIsItsOwn
<1>1. OutputsInv => ReportedIsItsOwn
  BY MigrationSafe DEF OutputsInv, ReportedIsItsOwn
<1> QED BY <1>1, OutputsInvariance, PTL

\* For any number of builds at once and any edits: when one answers nil, every
\* entity nobody touched since it was read has the query its source declares, and
\* one that is gone has no generated query (the plan and its application).
THEOREM ModelsAreCurrent == OutputsSpec => []CurrentWhenDone
<1>1. OutputsInv => CurrentWhenDone
  BY ModelSafe DEF OutputsInv, CurrentWhenDone
<1> QED BY <1>1, OutputsInvariance, PTL

\* A model build replaces and removes only what a build generated (isGenerated).
THEOREM ModelsTouchTheirOwn == OutputsSpec => ReplacesOnlyItsOwn
<1>1. OutputsInv /\ [OutputsNext]_all => (part = "models" => Model!TouchesItsOwn)
  BY StepsOfOutputs, ModelTouches DEF OutputsInv
<1> QED BY <1>1, OutputsInvariance, PTL DEF OutputsSpec, ReplacesOnlyItsOwn

\* Over any number of syncs of any number of origins, a sync changes no file but
\* those it planned, each to what it planned unless the write fails, and no plan
\* replaces work of the project that it read (plan, Merge, Apply); what the project
\* wrote after it was read is not looked at again, and is replaced.
THEOREM SkillsKeepWork == OutputsSpec => WorkIsKept
<1>1. OutputsInv /\ [OutputsNext]_all => (part = "skills" => Skill!ReplacesNoWork)
  BY StepsOfOutputs, SkillsKeep DEF OutputsInv
<1> QED BY <1>1, OutputsInvariance, PTL DEF OutputsSpec, WorkIsKept

\* Over any number of syncs, of any number of origins and versions: after one that
\* was applied without a conflict, every skill that is handed out and that nobody
\* touched since the plan looked at it is there, and if it came from the first
\* origin that hands it out it is what that one says now, unless it cannot record
\* where it is from (Plan, PlanOne, Apply).
THEOREM SyncsSettle == OutputsSpec => []SyncSettles
<1>1. OutputsInv => SyncSettles
  BY SyncSafe DEF OutputsInv, SyncSettles
<1> QED BY <1>1, OutputsInvariance, PTL

\* Of any number of concurrent builds, for any architectures and libraries: each
\* works under its own settings and leaves what it found (Build, apply, restore),
\* and so do its compiles, unless the call failed and answered past its Wait;
\* and what one answers nil for is whole, signed where the platform asks for it,
\* described as its programs are, and none of its compiles failed or still runs
\* (buildAndroid, buildIOS and the others, their steps in order).
THEOREM PackagesAreDelivered == OutputsSpec => []SettingsAreItsOwn
<1>1. OutputsInv => SettingsAreItsOwn
  BY PackageSafe, StepsSafe DEF OutputsInv, SettingsAreItsOwn
<1> QED BY <1>1, OutputsInvariance, PTL

\* For any manifests in any order: a merge that ended without an error declares
\* each permission, and each component by its tag and full name, exactly once, and
\* a component has the meta-data of every element of its name (mergeManifests).
THEOREM ManifestsMergeOnce == OutputsSpec => []EveryDeclarationOnce
<1>1. OutputsInv => EveryDeclarationOnce
  BY SourcesAssumption, ManifestSafe DEF OutputsInv, EveryDeclarationOnce
<1> QED BY <1>1, OutputsInvariance, PTL

\* Over any number of font:add and font:remove, any of which may be cut short:
\* after one that finished, the stylesheet says what the manifest notes, the Go
\* file registers each of its files once, and the files of every role whose last
\* command finished are there with the contents their hashes are of
\* (uniqueFaceFiles, fontRemove, writeFontFiles).
THEOREM FontsStayInStep == OutputsSpec => []FontsAgree
<1>1. OutputsInv => FontsAgree
  BY FontSafe DEF OutputsInv, FontsAgree
<1> QED BY <1>1, OutputsInvariance, PTL

\* Nothing reaches the cached path that no digest from outside the release named
\* (the refusal before the download and the comparison after it, Ensure).
THEOREM CheckedBinary == OutputsSpec => []NothingUnchecked
<1>1. OutputsInv => NothingUnchecked
  BY ToolSafe DEF OutputsInv, NothingUnchecked
<1> QED BY <1>1, OutputsInvariance, PTL

\* What lies beside an installed file is of one running installer, for any number
\* of them (CreateTemp, and the deferred removal, toolchain.go:297-303); and beside
\* an output, for one builder, of a build that was killed (writeAssetOutput).
THEOREM Ownership == OutputsSpec => [](Alone => TempsAreOwned)
<1>1. OutputsInv => (Alone => TempsAreOwned)
  BY AssetSafe, ToolSafe DEF OutputsInv, TempsAreOwned
<1> QED BY <1>1, OutputsInvariance, PTL

LEMMA AbstractSteps ==
    ASSUME OutputsInv, OutputsInv', [OutputsNext]_all
    PROVE  (Alone => [Asset!Abstract!Next]_(Asset!content)) /\ [Tool!Abstract!Next]_(Tool!content)
<1>1. ASSUME Alone PROVE [Asset!Abstract!Next]_(Asset!content)
  <2>1. CASE part = "asset"
    BY <1>1, <2>1, StepsOfOutputs, AssetInstalls DEF OutputsInv
  <2>2. CASE part # "asset"
    BY <2>2, StepsOfOutputs DEF Asset!content, Asset!vars, Asset!files
  <2> QED BY <2>1, <2>2
<1>2. [Tool!Abstract!Next]_(Tool!content)
  <2>1. CASE part = "tool"
    BY <2>1, StepsOfOutputs, ToolInstalls DEF OutputsInv
  <2>2. CASE part # "tool"
    BY <2>2, StepsOfOutputs DEF Tool!content, Tool!vars, Tool!dir
  <2> QED BY <2>1, <2>2
<1> QED BY <1>1, <1>2

LEMMA AbstractStart == OutputsInit => Asset!Abstract!Init /\ Tool!Abstract!Init
<1>1. OutputsInit => name = {} /\ cached = {}
  BY DEF OutputsInit, NoAsset, NoTool, Asset!Init, Tool!Init
<1>2. name = {} => Asset!Abstract!Init
  BY DEF Asset!Abstract!Init, Asset!content
<1>3. cached = {} => Tool!Abstract!Init
  BY DEF Tool!Abstract!Init, Tool!content
<1> QED BY <1>1, <1>2, <1>3

\* "either completely or not at all": install, for any number of installers,
\* and writeAssetOutput, for one builder, implement AtomicFile.
THEOREM Refinement ==
    ASSUME Alone
    PROVE  OutputsSpec => Installs
<1>1. OutputsInv /\ OutputsInv' /\ [OutputsNext]_all
         => [Asset!Abstract!Next]_(Asset!content) /\ [Tool!Abstract!Next]_(Tool!content)
  BY AbstractSteps
<1> QED BY <1>1, AbstractStart, OutputsInvariance, PTL
        DEF OutputsSpec, Installs, Asset!Installs, Tool!Installs, Asset!Abstract!Spec, Tool!Abstract!Spec
=============================================================================
