---------------------------- MODULE AssetOutput -----------------------------
(***************************************************************************)
(* The generated asset files (assetsbuild.go, writeAssetOutput): a body is *)
(* written to <name>.tmp, opened with O_EXCL, and renamed onto the name.   *)
(* Each file created is an inode: a name may come to mean another file     *)
(* while the first is still open, as on a Unix file system.                *)
(***************************************************************************)
EXTENDS Naturals

CONSTANTS
    Builders,    \* the `aru` processes that build this project's assets
    MaxFiles     \* bound: temporary files created

VARIABLES
    temp, name,      \* the inode each path leads to, as a set: {} when absent
    created,         \* inodes created, 1 .. created
    whole,           \* inodes whose body is completely written
    pc, open, ok,    \* each builder: where it is, its inode, no error so far
    killed           \* observation: a builder was killed

files == <<temp, name, created, whole>>
vars == <<files, pc, open, ok, killed>>

Inode == 1 .. MaxFiles

TypeOK ==
    /\ temp \subseteq Inode /\ name \subseteq Inode /\ whole \subseteq Inode
    /\ created \in 0 .. MaxFiles
    /\ pc \in [Builders -> {"idle", "write", "rename", "cleanup"}]
    /\ open \in [Builders -> 0 .. MaxFiles]
    /\ ok \in [Builders -> BOOLEAN]
    /\ killed \in BOOLEAN

Init ==
    /\ temp = {} /\ name = {} /\ created = 0 /\ whole = {}
    /\ pc = [b \in Builders |-> "idle"]
    /\ open = [b \in Builders |-> 0]
    /\ ok = [b \in Builders |-> TRUE]
    /\ killed = FALSE

-----------------------------------------------------------------------------
\* O_CREATE|O_EXCL.
Create(b) ==
    /\ pc[b] = "idle" /\ created < MaxFiles
    /\ temp = {}
    /\ created' = created + 1
    /\ temp' = {created + 1}
    /\ open' = [open EXCEPT ![b] = created + 1]
    /\ pc' = [pc EXCEPT ![b] = "write"]
    /\ ok' = [ok EXCEPT ![b] = TRUE]
    /\ UNCHANGED <<name, whole, killed>>

\* The open fails before the deferred removal is registered.
CreateRefused(b) ==
    /\ pc[b] = "idle" /\ temp # {}
    /\ ok' = [ok EXCEPT ![b] = FALSE]
    /\ UNCHANGED <<files, pc, open, killed>>

\* Write and Close; either may fail.
WriteBody(b) ==
    /\ pc[b] = "write"
    /\ \/ /\ whole' = whole \cup {open[b]}
          /\ pc' = [pc EXCEPT ![b] = "rename"]
          /\ UNCHANGED ok
       \/ /\ ok' = [ok EXCEPT ![b] = FALSE]
          /\ pc' = [pc EXCEPT ![b] = "cleanup"]
          /\ UNCHANGED whole
    /\ UNCHANGED <<temp, name, created, open, killed>>

\* Mutant: the file is renamed before it is written and closed.
RenameEarly(b) ==
    /\ pc[b] \in {"write", "rename"}
    /\ name' = IF temp = {} THEN name ELSE temp
    /\ temp' = {}
    /\ pc' = [pc EXCEPT ![b] = "cleanup"]
    /\ UNCHANGED <<created, whole, open, ok, killed>>

\* The path is renamed, whichever file it leads to by now; without one it fails.
Rename(b) ==
    /\ pc[b] = "rename"
    /\ name' = IF temp = {} THEN name ELSE temp
    /\ ok' = [ok EXCEPT ![b] = temp # {}]
    /\ temp' = {}
    /\ pc' = [pc EXCEPT ![b] = "cleanup"]
    /\ UNCHANGED <<created, whole, open, killed>>

\* Mutant: the temporary file is removed only after a success.
CleanupOnSuccess(b) ==
    /\ pc[b] = "cleanup"
    /\ temp' = IF ok[b] THEN {} ELSE temp
    /\ pc' = [pc EXCEPT ![b] = "idle"]
    /\ UNCHANGED <<name, created, whole, open, ok, killed>>

\* The deferred removal runs on every return, a successful one included.
Cleanup(b) ==
    /\ pc[b] = "cleanup"
    /\ temp' = {}
    /\ pc' = [pc EXCEPT ![b] = "idle"]
    /\ UNCHANGED <<name, created, whole, open, ok, killed>>

\* buildScripts removes a bundle that has no sources any more.
RemoveOutput(b) ==
    /\ pc[b] = "idle"
    /\ name' = {}
    /\ UNCHANGED <<temp, created, whole, pc, open, ok, killed>>

Crash(b) ==
    /\ pc[b] # "idle"
    /\ pc' = [pc EXCEPT ![b] = "idle"]
    /\ killed' = TRUE
    /\ UNCHANGED <<files, open, ok>>

Build(b) == Create(b) \/ CreateRefused(b) \/ WriteBody(b) \/ Rename(b) \/ Cleanup(b)

Next == \E b \in Builders : Build(b) \/ RemoveOutput(b) \/ Crash(b)

Spec == Init /\ [][Next]_vars

-----------------------------------------------------------------------------
\* A builder alone leaves no temporary file when it returns, whatever failed, and
\* so is never refused by its own earlier build, unless that one was killed.
NeverRefusedByItself ==
    killed \/ \A b \in Builders : pc[b] = "idle" => temp = {}

\* What a reader of the output finds: which file, and whether it is complete.
content == {<<i, i \in whole>> : i \in name}

Abstract == INSTANCE AtomicFile WITH Complete <- Inode \X {TRUE}, file <- content

\* "writeAssetOutput installs a complete file atomically" (assetsbuild.go:249):
\* the output is absent or complete, for whoever reads it and whenever.
Installs == Abstract!Spec

\* "O_EXCL prevents a concurrent build from sharing this temporary file rather
\* than silently mixing two outputs" (assetsbuild.go:260): what a build renames
\* onto the output is the file it wrote.
OwnFileRenamed ==
    [][\A b \in Builders :
        pc[b] = "rename" /\ pc'[b] = "cleanup" /\ name' # name => name' = {open[b]}]_vars
=============================================================================
