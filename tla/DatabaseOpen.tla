--------------------------- MODULE DatabaseOpen ---------------------------
(***************************************************************************)
(* Opening the node-quality SQLite database (storage.rs): under the        *)
(* reconciliation lock the file is inspected, an exact version 6 database  *)
(* is migrated in place, an older one is deleted with its sidecar files    *)
(* and rebuilt, and everything that is not recognized is left alone.       *)
(* Processes may be killed between any two file operations, and another    *)
(* program may edit the schema.                                            *)
(*                                                                         *)
(* SQLite is external.  What the code relies on is modelled: a transaction *)
(* is atomic; in WAL mode a commit goes to the -wal file and reaches the   *)
(* main file when it is checkpointed; a read-only connection to a database *)
(* in WAL mode creates -wal and -shm and leaves them behind; switching an  *)
(* empty file to WAL mode creates a -journal file before the first page.   *)
(***************************************************************************)
EXTENDS Naturals, FiniteSets

CONSTANTS
    Openers,        \* processes of the tool
    Facts,          \* recorded probe facts
    MaxCrashes,     \* bound: processes killed
    MaxAlterations  \* bound: schema edits by another program

VARIABLES
    main,      \* the database file: its kind and, for a database, its pages
    logged,    \* what the -wal file adds: the content after its last commit
    sidecars,  \* the sidecar files that exist
    odd,       \* those of them that are no regular files
    lock,      \* holder of the reconciliation lock
    opener,    \* where each opener is
    doomed,    \* the sidecars an opener in a legacy reset found
    crashes, alterations,
    found      \* what the files found at the start called for

dbVars == <<main, logged, sidecars, odd, lock, opener, doomed, crashes, alterations, found>>

NoOne == "no one"
ASSUME OpenersAssumption == NoOne \notin Openers

CurrentVersion == 7
Suffixes == {"wal", "shm", "journal", "block", "fence"}
LegacySidecars == Suffixes
Flaws == {"tables", "columns", "indexes", "sql", "behavior", "foreign_keys", "singleton"}

\* A database: schema version, whether the retired single-delay table is there and exact,
\* what else differs from the published schema, the facts it holds, its journal mode.
Pages(version, benchmark, flaws, facts, wal) ==
    [version |-> version, benchmark |-> benchmark, flaws |-> flaws, facts |-> facts, wal |-> wal]

\* No database at all: a value of its own.
NoPages == Pages(99, "absent", {}, {}, FALSE)
Fresh == Pages(CurrentVersion, "absent", {}, {}, TRUE)
Header == Pages(0, "absent", {"tables", "singleton"}, {}, TRUE)

\* What a connection reads: the last commit in the -wal file hides the main file.
Content == IF logged /= NoPages THEN logged ELSE main.pages

---------------------------------------------------------------------------
\* Recognizing a schema

TablesExact(c) == "tables" \notin c.flaws
ColumnsExact(c) == "columns" \notin c.flaws
IndexesExact(c) == "indexes" \notin c.flaws
SqlExact(c) == "sql" \notin c.flaws
\* Fault: triggers and views are not looked for.
BugNoBehavior(c) == TRUE
NoBehavior(c) == "behavior" \notin c.flaws
ForeignKeysExact(c) == "foreign_keys" \notin c.flaws
SingletonThere(c) == "singleton" \notin c.flaws

SharedSchema(c) ==
    /\ TablesExact(c)
    /\ ColumnsExact(c)
    /\ IndexesExact(c)
    /\ SqlExact(c)
    /\ NoBehavior(c)
    /\ ForeignKeysExact(c)
    /\ SingletonThere(c)

CurrentRecognized(c) == c.benchmark = "absent" /\ SharedSchema(c)
Version6Recognized(c) == c.benchmark = "exact" /\ SharedSchema(c)

---------------------------------------------------------------------------
\* prepare_node_quality_database: what is to be done with the files as they are.

\* Fault: only the main file is inspected before a reset.
BugRegularSidecars == TRUE
RegularSidecars == odd = {}
Orphaned == sidecars \cap LegacySidecars /= {}

\* Fault: everything before the current version counts as a legacy schema.
BugPlanOf(c) ==
    IF c.version < CurrentVersion THEN "reset"
    ELSE IF c.version = CurrentVersion /\ CurrentRecognized(c) THEN "current" ELSE "refuse"
PlanOf(c) ==
    IF c.version = CurrentVersion
    THEN IF CurrentRecognized(c) THEN "current" ELSE "refuse"
    ELSE IF c.version = 6
         THEN IF Version6Recognized(c) THEN "migrate" ELSE "refuse"
         ELSE IF c.version < 6 THEN "reset" ELSE "refuse"

Preparation ==
    CASE main.kind \in {"absent", "empty"} ->
             IF RegularSidecars /\ ~Orphaned THEN "initialize" ELSE "refuse"
      [] main.kind \in {"other", "garbage"} -> "refuse"
      [] main.kind = "db" -> IF RegularSidecars THEN PlanOf(Content) ELSE "refuse"

\* The read-only connection is opened only when the checks before it passed.
Inspected == main.kind = "db" /\ RegularSidecars
LeftByReader == IF Inspected /\ main.pages.wal THEN {"wal", "shm"} ELSE {}

---------------------------------------------------------------------------
\* Actions of an opener

MayLock(p) == lock = NoOne

Goto(p, where) == opener' = [opener EXCEPT ![p] = where]

Lock(p) ==
    /\ opener[p] = "idle"
    /\ MayLock(p)
    /\ lock' = p
    /\ Goto(p, "prepare")
    /\ UNCHANGED <<main, logged, sidecars, odd, doomed, crashes, alterations, found>>

\* The sidecars are listed first and the read-only connection comes after.
Prepare(p) ==
    /\ opener[p] = "prepare"
    /\ Goto(p, Preparation)
    /\ doomed' = [doomed EXCEPT ![p] = IF Preparation = "reset" THEN sidecars ELSE {}]
    /\ sidecars' = sidecars \cup LeftByReader
    /\ UNCHANGED <<main, logged, odd, lock, crashes, alterations, found>>

Refuse(p) ==
    /\ opener[p] = "refuse"
    /\ lock' = NoOne
    /\ Goto(p, "idle")
    /\ UNCHANGED <<main, logged, sidecars, odd, doomed, crashes, alterations, found>>

\* A legacy reset deletes the sidecars that were listed, in their order, then the main file.
Order == <<"wal", "shm", "journal", "block", "fence">>
First(set) == Order[CHOOSE i \in 1..5 : Order[i] \in set /\ \A j \in 1..(i - 1) : Order[j] \notin set]

RemoveSidecar(p) ==
    /\ opener[p] = "reset"
    /\ doomed[p] /= {}
    /\ LET s == First(doomed[p]) IN
         /\ doomed' = [doomed EXCEPT ![p] = @ \ {s}]
         /\ sidecars' = sidecars \ {s}
         /\ logged' = IF s = "wal" THEN NoPages ELSE logged
    /\ UNCHANGED <<main, odd, lock, opener, crashes, alterations, found>>

RemoveMain(p) ==
    /\ opener[p] = "reset"
    /\ doomed[p] = {}
    /\ main' = [kind |-> "absent", pages |-> NoPages]
    /\ logged' = NoPages
    /\ Goto(p, "initialize")
    /\ UNCHANGED <<sidecars, odd, lock, doomed, crashes, alterations, found>>

\* Connection::open and configure_benchmark_connection.  SQLite removes a -wal file that
\* belongs to no pages, and journals the first page it writes to an empty file.
OpenEmpty(p) ==
    /\ opener[p] = "initialize"
    /\ main.kind \in {"absent", "empty"}
    /\ main' = [kind |-> "empty", pages |-> NoPages]
    /\ sidecars' = (sidecars \ {"wal"}) \cup {"journal"}
    /\ Goto(p, "first page")
    /\ UNCHANGED <<logged, odd, lock, doomed, crashes, alterations, found>>

FirstPage(p) ==
    /\ opener[p] = "first page"
    /\ main' = [kind |-> "db", pages |-> Header]
    /\ sidecars' = sidecars \ {"journal"}
    /\ Goto(p, "create")
    /\ UNCHANGED <<logged, odd, lock, doomed, crashes, alterations, found>>

\* A transaction: what it leaves behind is committed to the -wal file.
Commit(c) ==
    /\ logged' = [c EXCEPT !.wal = TRUE]
    /\ sidecars' = sidecars \cup {"wal", "shm"}
    /\ main' = [main EXCEPT !.pages = [@ EXCEPT !.wal = TRUE]]

\* initialize: CREATE TABLE IF NOT EXISTS for every table, the singleton row, the version; what
\* another program added meanwhile stays.
Create(p) ==
    /\ opener[p] = "create"
    /\ main.kind = "db"
    /\ Commit([Fresh EXCEPT !.facts = Content.facts, !.flaws = Content.flaws \cap {"behavior"}])
    /\ lock' = NoOne
    /\ Goto(p, "open")
    /\ UNCHANGED <<odd, doomed, crashes, alterations, found>>

\* What migrate_version_6 makes of a database.
Migrated(c) == [c EXCEPT !.benchmark = "absent", !.version = CurrentVersion]

Migrate(p) ==
    /\ opener[p] = "migrate"
    /\ IF Version6Recognized(Content) /\ CurrentRecognized(Migrated(Content))
       THEN Commit(Migrated(Content)) /\ Goto(p, "open")
       ELSE Goto(p, "idle") /\ UNCHANGED <<main, logged, sidecars>>
    /\ lock' = NoOne
    /\ UNCHANGED <<odd, doomed, crashes, alterations, found>>

OpenCurrent(p) ==
    /\ opener[p] = "current"
    /\ sidecars' = sidecars \cup {"wal", "shm"}
    /\ main' = [main EXCEPT !.pages = [@ EXCEPT !.wal = TRUE]]
    /\ lock' = NoOne
    /\ Goto(p, "open")
    /\ UNCHANGED <<logged, odd, doomed, crashes, alterations, found>>

\* A fact is recorded in a transaction under the same lock.
Record(p, f) ==
    /\ opener[p] = "open"
    /\ MayLock(p)
    /\ main.kind = "db"
    /\ f \notin Content.facts
    /\ Commit([Content EXCEPT !.facts = @ \cup {f}])
    /\ UNCHANGED <<odd, lock, opener, doomed, crashes, alterations, found>>

\* Closing the last connection checkpoints the -wal file and removes it.
Close(p) ==
    /\ opener[p] = "open"
    /\ Goto(p, "idle")
    /\ IF main.kind = "db" /\ \A q \in Openers \ {p} : opener[q] \in {"idle", "prepare", "refuse"}
       THEN /\ main' = [main EXCEPT !.pages = Content]
            /\ logged' = NoPages
            /\ sidecars' = sidecars \ {"wal", "shm"}
       ELSE UNCHANGED <<main, logged, sidecars>>
    /\ UNCHANGED <<odd, lock, doomed, crashes, alterations, found>>

Kill(p) ==
    /\ opener[p] /= "idle"
    /\ crashes < MaxCrashes
    /\ crashes' = crashes + 1
    /\ Goto(p, "idle")
    /\ lock' = IF lock = p THEN NoOne ELSE lock
    /\ doomed' = [doomed EXCEPT ![p] = {}]
    /\ UNCHANGED <<main, logged, sidecars, odd, alterations, found>>

\* Another program adds a view or a trigger to the database.
Alter ==
    /\ main.kind = "db"
    /\ logged = NoPages
    /\ alterations < MaxAlterations
    /\ alterations' = alterations + 1
    /\ main' = [main EXCEPT !.pages.flaws = @ \cup {"behavior"}]
    /\ UNCHANGED <<logged, sidecars, odd, lock, opener, doomed, crashes, found>>

---------------------------------------------------------------------------
Databases ==
    {Pages(v, b, fl, fs, w) :
        v \in {0, 5, 6, 7, 8}, b \in {"absent", "exact", "different"},
        fl \in {{}} \cup {{x} : x \in Flaws}, fs \in {{}, {CHOOSE f \in Facts : TRUE}}, w \in BOOLEAN}

\* The files found: nothing, an empty file, something else, or a database that was closed or
\* was left by a killed process.
DbInit ==
    /\ main \in {[kind |-> k, pages |-> NoPages] : k \in {"absent", "empty", "other", "garbage"}}
               \cup {[kind |-> "db", pages |-> c] : c \in Databases}
    /\ logged = NoPages
    /\ sidecars \in {{}, {"wal", "shm"}, {"block"}}
    /\ odd \in {{}, sidecars \cap {"wal"}}
    /\ lock = NoOne
    /\ opener = [p \in Openers |-> "idle"]
    /\ doomed = [p \in Openers |-> {}]
    /\ crashes = 0
    /\ alterations = 0
    /\ found = Preparation

DbNext ==
    \/ \E p \in Openers :
         \/ Lock(p) \/ Prepare(p) \/ Refuse(p) \/ RemoveSidecar(p) \/ RemoveMain(p)
         \/ OpenEmpty(p) \/ FirstPage(p) \/ Create(p) \/ Migrate(p) \/ OpenCurrent(p)
         \/ Close(p) \/ Kill(p)
         \/ \E f \in Facts : Record(p, f)
    \/ Alter

DbSpec == DbInit /\ [][DbNext]_dbVars

---------------------------------------------------------------------------
\* README: "only the obsolete single-delay table and its indexes are removed, while factual
\* node-quality and usability data is preserved": no open, reset, migration or kill, of however
\* many processes, takes facts out of an exact version 6 or version 7 database.
KeepsFacts ==
    (main.kind = "db" /\ Content.version \in {6, 7} /\ Content.flaws = {})
       => (main'.kind = "db" /\ Content.facts \subseteq Content'.facts)

\* A database that is not recognized, a file that is none, and any file with a sidecar that is
\* no regular file is never changed by an opener: only another program's edit touches it.
SparesStrangers ==
    ( \/ main.kind \in {"other", "garbage"}
      \/ odd /= {}
      \/ main.kind = "db" /\ Content.version >= 6 /\ Content.flaws /= {}
         /\ \A p \in Openers : opener[p] \in {"idle", "prepare", "refuse", "migrate"} )
       => (alterations' = alterations => main' = main /\ logged' = logged)

\* A store that was opened works on an exact current schema: no kill between the steps of an
\* earlier open, no race of two openers and no edit before the migration leaves another one.
OpenMeansCurrent ==
    (alterations = 0 /\ \E p \in Openers : opener[p] = "open") =>
        /\ main.kind = "db"
        /\ Content.version = CurrentVersion
        /\ Content.benchmark = "absent"
        /\ Content.flaws = {}

\* Together: what opening a database may do to it.
OpensSafely == KeepsFacts /\ SparesStrangers /\ OpenMeansCurrent'
DatabaseSafe == [][OpensSafely]_dbVars

\* README: "Earlier pre-fact schemas are rebuilt": what a killed process of the tool left of a
\* missing, empty or legacy database can be opened by the next one.
ResetCanBeRetried ==
    (found /= "refuse" /\ lock = NoOne /\ main.kind \in {"absent", "empty"})
        => Preparation /= "refuse"
===========================================================================
