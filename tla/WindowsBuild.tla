---------------------------- MODULE WindowsBuild ----------------------------
(***************************************************************************)
(* The Windows build (internal/pack/windowsbuild.go): each architecture is *)
(* linked against a resource file put into the package's own directory,    *)
(* staged under a hidden name and signed there; when all are, the previous *)
(* programs are set aside and the new ones renamed into their places.  Any *)
(* call may fail, and the process may be killed; another run may follow.   *)
(***************************************************************************)
EXTENDS Naturals

CONSTANTS
    Archs,       \* how many architectures are built
    Runs         \* bound: how often the build is run

VARIABLES
    run, pc, at,      \* the run, where it is, and at which architecture
    signer,           \* a key was given
    syso,             \* the resource files in the package's directory
    store,            \* the certificate stores that hold a key, by the run that made them
    staged,           \* what the hidden file of each architecture is
    keep,             \* the architectures in b.pending
    public,           \* what the name of each program leads to
    had,              \* the programs there were when the run began
    backup,           \* the previous program this run set aside
    published,        \* renamed into place by this run
    stuck,            \* a rollback could not put something back
    answer            \* what the run answered

files == <<syso, store, staged, public, backup>>
vars == <<run, pc, at, signer, had, files, keep, published, stuck, answer>>

Arch == 1 .. Archs
Programs == {"none", "old", "linked", "signed", "verified"}

TypeOK ==
    /\ run \in 1 .. Runs /\ at \in 1 .. Archs + 1
    /\ pc \in {"resource", "reserve", "link", "import", "sign", "verify", "forget", "keep", "clean",
               "preserve", "publish", "drop", "rollback", "unstage", "returned", "killed"}
    /\ signer \in BOOLEAN
    /\ syso \subseteq Arch /\ store \subseteq 1 .. Runs /\ keep \subseteq Arch
    /\ staged \in [Arch -> Programs] /\ public \in [Arch -> Programs]
    /\ backup \in [Arch -> {"none", "old"}] /\ had \subseteq Arch /\ published \subseteq Arch
    /\ stuck \in BOOLEAN /\ answer \in {"none", "nil", "error"}

None == [a \in Arch |-> "none"]
New(a) == public[a] \in {"linked", "signed", "verified"}

Init ==
    /\ run = 1 /\ pc = "resource" /\ at = 1
    /\ signer \in BOOLEAN
    /\ syso = {} /\ store = {} /\ keep = {} /\ published = {}
    /\ staged = None /\ backup = None
    /\ had \in SUBSET Arch
    /\ public = [a \in Arch |-> IF a \in had THEN "old" ELSE "none"]
    /\ stuck = FALSE /\ answer = "none"

Goto(from, to) == pc = from /\ pc' = to
Fails == answer' = "error"

-----------------------------------------------------------------------------
(* buildArch: the resource, the program, and the resource taken away.      *)

\* A write that fails leaves the file for the deferred removal.
Resource ==
    /\ Goto("resource", "reserve") /\ syso' = syso \cup {at}
    /\ UNCHANGED <<run, at, signer, had, store, staged, public, backup, keep, published, stuck, answer>>

NoResource ==
    /\ Goto("resource", "clean") /\ Fails
    /\ syso' \in {syso, syso \cup {at}}
    /\ UNCHANGED <<run, at, signer, had, store, staged, public, backup, keep, published, stuck>>

\* The hidden name is created and removed again, so that the link makes the file.
Reserve ==
    /\ \/ Goto("reserve", "link") /\ UNCHANGED answer
       \/ Goto("reserve", "clean") /\ Fails
    /\ UNCHANGED <<run, at, signer, had, files, keep, published, stuck>>

Link ==
    /\ Goto("link", IF signer THEN "import" ELSE "keep")
    /\ staged' = [staged EXCEPT ![at] = "linked"]
    /\ UNCHANGED <<run, at, signer, had, syso, store, public, backup, keep, published, stuck, answer>>

LinkFails ==
    /\ Goto("link", "clean") /\ Fails
    /\ UNCHANGED <<run, at, signer, had, files, keep, published, stuck>>

\* The key goes into a store of this run; stores whose owner is gone are removed first.
Import ==
    /\ Goto("import", "sign") /\ store' = {run}
    /\ UNCHANGED <<run, at, signer, had, syso, staged, public, backup, keep, published, stuck, answer>>

Unstaged == staged' = [staged EXCEPT ![at] = "none"]

ImportFails ==
    /\ Goto("import", "clean") /\ Fails /\ Unstaged
    /\ store' \in {store, store \cap {run}}
    /\ UNCHANGED <<run, at, signer, had, syso, public, backup, keep, published, stuck>>

Sign ==
    /\ Goto("sign", "verify") /\ staged' = [staged EXCEPT ![at] = "signed"]
    /\ UNCHANGED <<run, at, signer, had, syso, store, public, backup, keep, published, stuck, answer>>

Verify ==
    /\ Goto("verify", "forget") /\ staged' = [staged EXCEPT ![at] = "verified"]
    /\ UNCHANGED <<run, at, signer, had, syso, store, public, backup, keep, published, stuck, answer>>

SignFails ==
    /\ pc \in {"sign", "verify"} /\ pc' = "forget" /\ Fails
    /\ UNCHANGED <<run, at, signer, had, files, keep, published, stuck>>

\* Deferred by sign: the store goes, and the program with it unless all went well.
Forget ==
    /\ pc = "forget"
    /\ \/ /\ store' = store \ {run}
          /\ IF answer = "error" THEN pc' = "clean" /\ Unstaged ELSE pc' = "keep" /\ UNCHANGED staged
          /\ UNCHANGED answer
       \/ pc' = "clean" /\ Fails /\ Unstaged /\ UNCHANGED store
    /\ UNCHANGED <<run, at, signer, had, syso, public, backup, keep, published, stuck>>

Kept ==
    /\ Goto("keep", "clean") /\ keep' = keep \cup {at}
    /\ UNCHANGED <<run, at, signer, had, files, published, stuck, answer>>

\* An error keeps what was staged for the architectures before this one.
Clean(gone) ==
    LET bad == answer = "error" \/ ~gone
    IN /\ pc = "clean"
       /\ syso' = IF gone THEN syso \ {at} ELSE syso
       /\ IF bad THEN Fails /\ pc' = "returned" /\ UNCHANGED at
          ELSE /\ UNCHANGED answer
               /\ IF at < Archs THEN at' = at + 1 /\ pc' = "resource"
                                     ELSE at' = 1 /\ pc' = "preserve"
       /\ UNCHANGED <<run, signer, had, store, staged, public, backup, keep, published, stuck>>

-----------------------------------------------------------------------------
(* publishPrograms.                                                        *)

Along(next) ==
    IF at < Archs THEN at' = at + 1 /\ UNCHANGED pc ELSE at' = 1 /\ pc' = next

\* Mutant: the place of each program is cleared and taken before the next is looked at.
PreserveAndPublish ==
    /\ pc = "preserve"
    /\ public' = [public EXCEPT ![at] = staged[at]] /\ staged' = [staged EXCEPT ![at] = "none"]
    /\ published' = published \cup {at} /\ UNCHANGED backup
    /\ Along("drop")
    /\ UNCHANGED <<run, signer, had, syso, store, keep, stuck, answer>>

\* Nothing is published before every previous program is set aside.
Preserve ==
    /\ pc = "preserve"
    /\ IF public[at] = "none" THEN UNCHANGED <<public, backup>>
       ELSE public' = [public EXCEPT ![at] = "none"] /\ backup' = [backup EXCEPT ![at] = "old"]
    /\ Along("publish")
    /\ UNCHANGED <<run, signer, had, syso, store, staged, keep, published, stuck, answer>>

Publish ==
    /\ pc = "publish"
    /\ public' = [public EXCEPT ![at] = staged[at]] /\ staged' = [staged EXCEPT ![at] = "none"]
    /\ published' = published \cup {at}
    /\ Along("drop")
    /\ UNCHANGED <<run, signer, had, syso, store, backup, keep, stuck, answer>>

\* A rename failed: undo, the last architecture first.
GivesUp ==
    /\ pc \in {"preserve", "publish"} /\ pc' = "rollback" /\ at' = Archs /\ Fails
    /\ UNCHANGED <<run, signer, had, files, keep, published, stuck>>

Back == IF at > 1 THEN at' = at - 1 /\ UNCHANGED pc ELSE at' = 1 /\ pc' = "unstage"

Rollback ==
    /\ pc = "rollback"
    /\ public' = [public EXCEPT ![at] =
           IF backup[at] = "old" THEN "old" ELSE IF at \in published THEN "none" ELSE @]
    /\ backup' = [backup EXCEPT ![at] = "none"]
    /\ Back
    /\ UNCHANGED <<run, signer, had, syso, store, staged, keep, published, stuck, answer>>

\* One of its two calls failed; the rest is still undone.
RollbackFails ==
    /\ pc = "rollback" /\ (at \in published \/ backup[at] = "old")
    /\ stuck' = TRUE
    /\ \/ /\ at \in published /\ backup[at] = "none" /\ UNCHANGED public
       \/ /\ backup[at] = "old" /\ public' = [public EXCEPT ![at] = IF at \in published THEN "none" ELSE @]
    /\ Back
    /\ UNCHANGED <<run, signer, had, syso, store, staged, backup, keep, published, answer>>

Drop ==
    /\ pc = "drop"
    /\ backup' = [backup EXCEPT ![at] = "none"]
    /\ Along("unstage")
    /\ UNCHANGED <<run, signer, had, syso, store, staged, public, keep, published, stuck, answer>>

DropFails ==
    /\ pc = "drop" /\ backup[at] = "old" /\ Fails /\ pc' = "unstage"
    /\ UNCHANGED <<run, at, signer, had, files, keep, published, stuck>>

\* Deferred: the hidden files of b.pending go, and a failure of that is not reported.
Unstage ==
    /\ pc = "unstage" /\ pc' = "returned"
    /\ \E left \in SUBSET keep :
          staged' = [a \in Arch |-> IF a \in keep \ left THEN "none" ELSE staged[a]]
    /\ answer' = IF answer = "none" THEN "nil" ELSE answer
    /\ UNCHANGED <<run, at, signer, had, syso, store, public, backup, keep, published, stuck>>

-----------------------------------------------------------------------------
(* Between runs.                                                           *)

Kill ==
    /\ pc \notin {"returned", "killed"} /\ pc' = "killed"
    /\ UNCHANGED <<run, at, signer, had, files, keep, published, stuck, answer>>

\* Hidden names are never met again: what a run set aside and left is out of reach.
Again ==
    /\ pc \in {"returned", "killed"} /\ run < Runs
    /\ run' = run + 1 /\ pc' = "resource" /\ at' = 1
    /\ signer' \in BOOLEAN
    /\ keep' = {} /\ published' = {} /\ stuck' = FALSE /\ answer' = "none"
    /\ staged' = None /\ backup' = None
    /\ public' = [a \in Arch |-> IF public[a] = "none" THEN "none" ELSE "old"]
    /\ had' = {a \in Arch : public'[a] = "old"}
    /\ UNCHANGED <<syso, store>>

Next ==
    \/ Resource \/ NoResource \/ Reserve \/ Link \/ LinkFails \/ Import \/ ImportFails
    \/ Sign \/ Verify \/ SignFails \/ Forget \/ Kept \/ Clean(TRUE) \/ Clean(FALSE)
    \/ Preserve \/ Publish \/ GivesUp \/ Rollback \/ RollbackFails \/ Drop \/ DropFails \/ Unstage
    \/ Kill \/ Again
Spec == Init /\ [][Next]_vars

-----------------------------------------------------------------------------
(* Properties.                                                             *)

\* At every moment, whatever failed and wherever a run was killed, the name of
\* a program leads to nothing unbuilt or unverified, and a previous program no
\* longer under its name is still set aside until the whole set is in place
\* (publishPrograms).
PreviousSurvives ==
    \A a \in Arch :
        /\ public[a] \in {"none", "old", IF signer THEN "verified" ELSE "linked"}
        /\ a \in had => public[a] = "old" \/ backup[a] = "old" \/ published = Arch

\* The programs change together: when a run has returned, every name leads to
\* its new program or every name to what it led to before, unless the undoing
\* itself failed.
AllOrNothing ==
    pc = "returned" /\ ~stuck =>
        \/ \A a \in Arch : New(a)
        \/ \A a \in Arch : public[a] = IF a \in had THEN "old" ELSE "none"

\* A run that answers nil leaves nothing behind: no resource file for the next
\* build of the package to link, no key in a store, no hidden file (buildArch).
NothingStays ==
    answer = "nil" => syso = {} /\ run \notin store /\ staged = None /\ backup = None
=============================================================================
