----------------------------- MODULE Migrations -----------------------------
(***************************************************************************)
(* The commands that write a migration (makemigration.go, generate.go,     *)
(* gen.Write): make:migration writes one file, generate and make:module    *)
(* write a module with the migration that declares its table.  Each reads  *)
(* database/migrations, gives its file the next number of the day, and     *)
(* creates it; several may run at once, a write may fail, and a command    *)
(* may be killed.  A file declares the type its name spells.               *)
(***************************************************************************)
EXTENDS Naturals, Sequences, FiniteSetsExt

CONSTANTS
    Generators,   \* the commands
    Asks,         \* what they are asked for
    LastDay       \* bound: days

VARIABLES
    today,
    dir,          \* the files there are
    ask,          \* what each command was asked for
    gPc,          \* where it is
    seen,         \* the inventory's directory listing
    declared,     \* of those, the files that declare the type it needs
    left,         \* the files it has still to write
    made, skipped,
    gAnswer,
    removed       \* observation: the files the developer took away

migrations == <<today, dir, ask, gPc, seen, declared, left, made, skipped, gAnswer, removed>>

Id(day, n, name) == [kind |-> "migration", date |-> day, seq |-> n, name |-> name]
\* A file somebody named without an id; it sorts after those that have one.
Legacy(name) == [kind |-> "legacy", date |-> LastDay + 1, seq |-> 0, name |-> name]
Model(name)  == [kind |-> "model", date |-> 0, seq |-> 0, name |-> name]
Absent == [f \in {} |-> f]
InDirectory == {p \in DOMAIN dir : p.kind # "model"}

\* One migration of today is left; the number before it was removed.
Remaining == [p \in {Id(1, 2, "another")} |-> [by |-> "the developer", whole |-> TRUE, saw |-> {}]]

Init ==
    /\ today = 1 /\ dir \in {Absent, Remaining}
    /\ ask \in [Generators -> Asks]
    /\ gPc = [g \in Generators |-> "list"]
    /\ seen = [g \in Generators |-> {}] /\ declared = [g \in Generators |-> {}]
    /\ left = [g \in Generators |-> <<>>]
    /\ made = [g \in Generators |-> {}] /\ skipped = [g \in Generators |-> {}]
    /\ gAnswer = [g \in Generators |-> "none"]
    /\ removed = {}

Goto(g, from, to) == gPc[g] = from /\ gPc' = [gPc EXCEPT ![g] = to]
Answers(g, a) == gAnswer' = [gAnswer EXCEPT ![g] = a]
Name(g) == ask[g].name

-----------------------------------------------------------------------------
(* readMigrationInventory: the names at once, then the files one by one.   *)

List(g) ==
    /\ Goto(g, "list", "parse") /\ seen' = [seen EXCEPT ![g] = InDirectory]
    /\ UNCHANGED <<today, dir, ask, declared, left, made, skipped, gAnswer, removed>>

Readable(g) == \A p \in seen[g] : p \in DOMAIN dir /\ dir[p].whole

Parse(g) ==
    /\ Goto(g, "parse", "number") /\ Readable(g)
    /\ declared' = [declared EXCEPT ![g] = {p \in seen[g] : p.name = Name(g)}]
    /\ UNCHANGED <<today, dir, ask, seen, left, made, skipped, gAnswer, removed>>

\* "a file left out of the reading is not an absence"
ParseFails(g) ==
    /\ Goto(g, "parse", "returned") /\ ~Readable(g) /\ Answers(g, "error")
    /\ UNCHANGED <<today, dir, ask, seen, declared, left, made, skipped, removed>>

-----------------------------------------------------------------------------
(* The number.                                                             *)

\* Mutant: the files of the day are counted.
nextSequenceByCount(listed) == Cardinality({p \in listed : p.date = today}) + 1

\* The highest of the day, and one.
nextSequence(listed) == Max({0} \cup {p.seq : p \in {q \in listed : q.date = today}}) + 1

\* The first of the files that declare the type, as the directory is listed.
declaredBy(g) ==
    CHOOSE p \in declared[g] : \A q \in declared[g] : p.date < q.date \/ (p.date = q.date /\ p.seq <= q.seq)

\* A module that has a migration takes its file back, on whatever day.
resolveMigrationID(g) ==
    IF declared[g] = {} THEN Id(today, nextSequence(seen[g]), Name(g)) ELSE declaredBy(g)

\* make:migration refuses a name that is declared in another file.
makeMigration(g) == Id(today, nextSequence(seen[g]), Name(g))

Refused(g) ==
    IF ask[g].kind = "module" THEN declared[g] # {} /\ declaredBy(g).kind = "legacy"
    ELSE \/ ~ask[g].force /\ makeMigration(g) \in DOMAIN dir
         \/ declared[g] \ {makeMigration(g)} # {}

Number(g) ==
    /\ Goto(g, "number", "write") /\ ~Refused(g)
    /\ left' = [left EXCEPT ![g] =
           IF ask[g].kind = "module" THEN <<Model(Name(g)), resolveMigrationID(g)>> ELSE <<makeMigration(g)>>]
    /\ UNCHANGED <<today, dir, ask, seen, declared, made, skipped, gAnswer, removed>>

Refuses(g) ==
    /\ Goto(g, "number", "returned") /\ Refused(g) /\ Answers(g, "error")
    /\ UNCHANGED <<today, dir, ask, seen, declared, left, made, skipped, removed>>

-----------------------------------------------------------------------------
(* gen.Write.                                                              *)

Writing(g) == gPc[g] = "write" /\ left[g] # <<>>
File(g) == left[g][1]
Rest(g) == left' = [left EXCEPT ![g] = Tail(@)]

\* The file is there from now on, and empty until its content is written.
Opened(g) ==
    dir' = [p \in DOMAIN dir \cup {File(g)} |->
               IF p = File(g)
               THEN [by |-> g, whole |-> FALSE, saw |-> IF p \in DOMAIN dir THEN dir[p].saw ELSE seen[g]]
               ELSE dir[p]]

\* Mutant: the path is looked for before it is written.
createWhenNotSeen(g) == IF File(g) \in seen[g] THEN "taken" ELSE "free"

\* O_EXCL: one operation looks and creates.
createExclusively(g) == IF File(g) \in DOMAIN dir THEN "taken" ELSE "free"

Create(g) ==
    /\ Writing(g) /\ (ask[g].force \/ createExclusively(g) = "free")
    /\ Opened(g) /\ gPc' = [gPc EXCEPT ![g] = "fill"]
    /\ UNCHANGED <<today, ask, seen, declared, left, made, skipped, gAnswer, removed>>

Skip(g) ==
    /\ Writing(g) /\ ~ask[g].force /\ createExclusively(g) = "taken"
    /\ skipped' = [skipped EXCEPT ![g] = @ \cup {File(g)}] /\ Rest(g)
    /\ UNCHANGED <<today, dir, ask, gPc, seen, declared, made, gAnswer, removed>>

Fill(g) ==
    /\ Goto(g, "fill", "write") /\ Rest(g)
    /\ dir' = IF File(g) \in DOMAIN dir THEN [dir EXCEPT ![File(g)].whole = TRUE] ELSE dir
    /\ made' = [made EXCEPT ![g] = @ \cup {File(g)}]
    /\ UNCHANGED <<today, ask, seen, declared, skipped, gAnswer, removed>>

WriteFails(g) ==
    /\ gPc[g] \in {"write", "fill"} /\ left[g] # <<>>
    /\ gPc' = [gPc EXCEPT ![g] = "returned"] /\ Answers(g, "error")
    /\ UNCHANGED <<today, dir, ask, seen, declared, left, made, skipped, removed>>

\* One file skipped is an error of make:migration; generate leaves it alone.
Report(g) ==
    /\ left[g] = <<>> /\ Goto(g, "write", "returned")
    /\ Answers(g, IF skipped[g] # {} /\ (ask[g].kind = "migration" \/ made[g] = {}) THEN "error" ELSE "nil")
    /\ UNCHANGED <<today, dir, ask, seen, declared, left, made, skipped, removed>>

-----------------------------------------------------------------------------
(* Around the commands.                                                    *)

Kill(g) ==
    /\ gPc[g] # "returned" /\ gPc' = [gPc EXCEPT ![g] = "returned"]
    /\ UNCHANGED <<today, dir, ask, seen, declared, left, made, skipped, gAnswer, removed>>

Midnight ==
    /\ today < LastDay /\ today' = today + 1
    /\ UNCHANGED <<dir, ask, gPc, seen, declared, left, made, skipped, gAnswer, removed>>

\* The developer: a migration without an id, and the file of a failed command removed.
ByHand ==
    /\ dir = Absent
    /\ \E g \in Generators :
          dir' = [p \in {Legacy(Name(g))} |-> [by |-> "the developer", whole |-> TRUE, saw |-> {}]]
    /\ UNCHANGED <<today, ask, gPc, seen, declared, left, made, skipped, gAnswer, removed>>

Tidy ==
    /\ \E p \in DOMAIN dir :
          /\ ~dir[p].whole /\ \A g \in Generators : gPc[g] = "fill" => File(g) # p
          /\ dir' = [q \in DOMAIN dir \ {p} |-> dir[q]]
          /\ removed' = removed \cup {p}
    /\ UNCHANGED <<today, ask, gPc, seen, declared, left, made, skipped, gAnswer>>

Next ==
    \/ \E g \in Generators :
          \/ List(g) \/ Parse(g) \/ ParseFails(g) \/ Number(g) \/ Refuses(g)
          \/ Create(g) \/ Skip(g) \/ Fill(g) \/ WriteFails(g) \/ Report(g) \/ Kill(g)
    \/ Midnight \/ ByHand \/ Tidy
Spec == Init /\ [][Next]_migrations

-----------------------------------------------------------------------------
(* Properties.                                                             *)

\* A migration written by a command whose reading of the directory found
\* another comes after it in order, and declares another type: two share a
\* number or a type only when neither command could have known
\* (readMigrationInventory, resolveMigrationID), or when the developer took
\* away the file a command was going to give back.
WrittenKnowing ==
    \A q \in InDirectory \ removed : \A p \in (dir[q].saw \cap InDirectory) \ {q} :
        (p.date = q.date => p.seq < q.seq) /\ p.name # q.name

\* However many commands run at once, a file one of them reported created is
\* its own: no other replaced it unless it was forced to, or the developer had
\* taken it away (gen.Write).
ReportedIsItsOwn ==
    \A g \in Generators : \A p \in (made[g] \cap DOMAIN dir) \ removed : dir[p].by = g \/ ask[dir[p].by].force
=============================================================================
