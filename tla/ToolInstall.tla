---------------------------- MODULE ToolInstall -----------------------------
(***************************************************************************)
(* The download of the one tool `aru` runs, at one version, into the cache *)
(* every project of the machine shares (internal/toolchain).  A body is    *)
(* known by its digest; a checksums file is known by its digest too, so it *)
(* stands for the entry it has for this machine's asset.                   *)
(***************************************************************************)
EXTENDS Naturals

CONSTANTS
    Installers,       \* the processes calling Ensure
    Bodies,           \* what a download may turn out to be
    Shipped, Known,   \* whether aru ships a digest for this version, and of which body
    Failures,         \* whether a file operation may fail
    MaxFiles          \* bound: temporary files created

NoPin == "no pin"
NoEntry == "no entry"

VARIABLES
    pin,               \* the checksums file each project pinned, by its entry
    cached,            \* the file at Tool.Path, as a set
    temps,             \* the .partial-* files in the directory
    created,           \* files created so far, 1 .. created
    body, whole, runnable, \* of each file: its download, written, executable
    retired,           \* a binary of a retired tool is in the directory
    pc, got, tmp       \* each installer: where it is, what it verified, its file

dir == <<cached, temps, created, body, whole, runnable, retired>>
vars == <<pin, dir, pc, got, tmp>>

File == 1 .. MaxFiles

TypeOK ==
    /\ pin \in [Installers -> Bodies \cup {NoPin, NoEntry}]
    /\ cached \subseteq File /\ temps \subseteq File
    /\ created \in 0 .. MaxFiles
    /\ body \in [File -> Bodies]
    /\ whole \subseteq File /\ runnable \subseteq File
    /\ retired \in BOOLEAN
    /\ pc \in [Installers -> {"idle", "fetch", "create", "write", "chmod", "rename", "cleanup"}]
    /\ got \in [Installers -> Bodies]
    /\ tmp \in [Installers -> 0 .. MaxFiles]

Init ==
    /\ pin \in [Installers -> Bodies \cup {NoPin, NoEntry}]
    /\ cached = {} /\ temps = {} /\ created = 0
    /\ body = [f \in File |-> Known]
    /\ whole = {} /\ runnable = {}
    /\ retired \in BOOLEAN
    /\ pc = [p \in Installers |-> "idle"]
    /\ got = [p \in Installers |-> Known]
    /\ tmp = [p \in Installers |-> 0]

Goto(p, from, to) == pc[p] = from /\ pc' = [pc EXCEPT ![p] = to]

-----------------------------------------------------------------------------
(* Ensure.                                                                 *)

\* The cached file is returned as it is.
Found(p) ==
    /\ pc[p] = "idle"
    /\ cached # {}
    /\ UNCHANGED vars

\* Nothing is downloaded that nothing outside the release could check.
Download(p) ==
    /\ Goto(p, "idle", "fetch")
    /\ cached = {}
    /\ Shipped \/ pin[p] # NoPin
    /\ UNCHANGED <<pin, dir, got, tmp>>

\* Mutant: the digest aru ships is not asked to agree with the pinned file.
PinOnly(p, b, f) == IF pin[p] # NoPin THEN f = pin[p] /\ f = b ELSE b = Known

\* What must hold of the body b and, when the project pins one, of the
\* checksums file f.
Verified(p, b, f) ==
    /\ pin[p] # NoPin => f = pin[p] /\ f = b
    /\ Shipped => b = Known

Checked(p) ==
    /\ Goto(p, "fetch", "create")
    /\ \E b \in Bodies, f \in Bodies \cup {NoEntry} :
        /\ Verified(p, b, f)
        /\ got' = [got EXCEPT ![p] = b]
    /\ UNCHANGED <<pin, dir, tmp>>

\* The network fails, or a digest does not match.
Refused(p) ==
    /\ Goto(p, "fetch", "idle")
    /\ UNCHANGED <<pin, dir, got, tmp>>

-----------------------------------------------------------------------------
(* install.                                                                *)

\* Mutant: the fixed <path>.partial both installers would open.
CreateFixed(p) ==
    /\ Goto(p, "create", "write")
    /\ created' = 1 /\ created < MaxFiles
    /\ tmp' = [tmp EXCEPT ![p] = 1]
    /\ temps' = temps \cup {1}
    /\ body' = [body EXCEPT ![1] = got[p]]
    /\ whole' = whole \ {1}
    /\ UNCHANGED <<pin, cached, runnable, retired, got>>

\* os.CreateTemp: a name no other call gets.
CreateTemp(p) ==
    /\ Goto(p, "create", "write")
    /\ created < MaxFiles
    /\ created' = created + 1
    /\ tmp' = [tmp EXCEPT ![p] = created']
    /\ temps' = temps \cup {created'}
    /\ body' = [body EXCEPT ![created'] = got[p]]
    /\ UNCHANGED <<pin, cached, whole, runnable, retired, got>>

CreateFails(p) ==
    /\ Failures
    /\ Goto(p, "create", "idle")
    /\ UNCHANGED <<pin, dir, got, tmp>>

Write(p) ==
    /\ Goto(p, "write", "chmod")
    /\ whole' = whole \cup {tmp[p]}
    /\ UNCHANGED <<pin, cached, temps, created, body, runnable, retired, got, tmp>>

Chmod(p) ==
    /\ Goto(p, "chmod", "rename")
    /\ runnable' = runnable \cup {tmp[p]}
    /\ UNCHANGED <<pin, cached, temps, created, body, whole, retired, got, tmp>>

Rename(p) ==
    /\ Goto(p, "rename", "cleanup")
    /\ tmp[p] \in temps
    /\ cached' = {tmp[p]}
    /\ temps' = temps \ {tmp[p]}
    /\ UNCHANGED <<pin, created, body, whole, runnable, retired, got, tmp>>

\* Any of the three fails: the deferred removal is what is left to run.
StepFails(p) ==
    /\ Failures
    /\ pc[p] \in {"write", "chmod", "rename"}
    /\ pc' = [pc EXCEPT ![p] = "cleanup"]
    /\ UNCHANGED <<pin, dir, got, tmp>>

Cleanup(p) ==
    /\ Goto(p, "cleanup", "idle")
    /\ temps' = temps \ {tmp[p]}
    /\ UNCHANGED <<pin, cached, created, body, whole, runnable, retired, got, tmp>>

-----------------------------------------------------------------------------
\* Sweep, from any `aru view:build`: retired binaries, and nothing else.
Sweep ==
    /\ retired
    /\ retired' = FALSE
    /\ UNCHANGED <<pin, cached, temps, created, body, whole, runnable, pc, got, tmp>>

Ensure(p) ==
    \/ Found(p) \/ Download(p) \/ Checked(p) \/ Refused(p)
    \/ CreateTemp(p) \/ CreateFails(p) \/ Write(p) \/ Chmod(p) \/ Rename(p)
    \/ StepFails(p) \/ Cleanup(p)

Next == Sweep \/ \E p \in Installers : Ensure(p)

Spec == Init /\ [][Next]_vars

-----------------------------------------------------------------------------
Installing(p) == pc[p] \in {"write", "chmod", "rename"}
Holding(p) == Installing(p) \/ pc[p] = "cleanup"

\* Every temporary file belongs to one running install, and every running install
\* has its own: none is shared, swept from under it, or left behind.
TempsAreOwned ==
    /\ \A f \in temps : \E p \in Installers : tmp[p] = f /\ Holding(p)
    /\ \A p \in Installers : Installing(p) => tmp[p] \in temps
    /\ \A p, q \in Installers : Holding(p) /\ Holding(q) /\ tmp[p] = tmp[q] => p = q

\* A digest from outside the release names this body: the one aru ships when it
\* ships one, and some project's pinned file when it does not.
Vouched(b) == IF Shipped THEN b = Known ELSE \E p \in Installers : pin[p] = b

\* What is executed was checked against something outside the release, whoever
\* downloaded it and whatever came over the network.
NothingUnchecked == \A f \in cached : Vouched(body[f])

content == {[whole |-> f \in whole, runnable |-> f \in runnable, body |-> body[f]] : f \in cached}

Abstract == INSTANCE AtomicFile
    WITH Complete <- [whole : {TRUE}, runnable : {TRUE}, body : Bodies], file <- content

\* "either completely or not at all" (install): the path leads to nothing, or to
\* a whole binary that can be run.
Installs == Abstract!Spec
=============================================================================
