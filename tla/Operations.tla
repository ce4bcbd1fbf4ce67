----------------------------- MODULE Operations -----------------------------
(***************************************************************************)
(* The commands of skill_vault/cli.py over one database file: services     *)
(* that migrate and then serve, and an operator who seeds, reindexes,      *)
(* backs up and restores, each a process that may die at any point.        *)
(* The vector store is the default one, in the same file, so that backup   *)
(* and restore, which copy the file in one piece, copy it too.             *)
(***************************************************************************)
EXTENDS Migrations, FiniteSets

CONSTANTS
    Service,     \* the processes that systemd restarts (deploy/*.service)
    SeedFiles,   \* the names of the seeds, in the order of their files
    BadSeed,     \* seeds with a script and a reference of one file name
    MaxCrashes   \* bounds crashes

ASSUME OperationsAssumption ==
    /\ Service \subseteq Proc
    /\ DOMAIN SeedFiles \subseteq Nat \ {0}
    /\ MaxCrashes \in Nat

VARIABLES
    rows,        \* the seeded global skills, by number of file and copy
    index,       \* those in the vector store
    snapshot,    \* the last snapshot directory
    crashes,     \* crashes so far, bounded by MaxCrashes
    broken,      \* migrations left half applied by a crash or a snapshot, and ...
    lost         \* rows left unindexed by one, or by a raise of the store or the
                 \* embedder, not reindexed since (no state of the code)

db == <<done, ledger, rows, index>>
opsVars == <<db, job, snapshot, crashes, broken, lost>>

SeedNo == DOMAIN SeedFiles
Row == SeedNo \X (1..Cardinality(Proc))

-----------------------------------------------------------------------------
(***************************************************************************)
(* Services and commands.                                                  *)
(***************************************************************************)

\* serve and web run the migrations twice, by _apply_migrations and build_services.
Begins(p) ==
    /\ At(p, "down")
    /\ IF p \in Service THEN Goto(p, Start("serve", 2))
       ELSE \/ \E cmd \in {"migrate", "seed", "reindex"} : Goto(p, Start(cmd, 1))
            \/ Goto(p, [at |-> "backup"])
            \/ snapshot.complete /\ Goto(p, [at |-> "restore"])   \* else there is no manifest
    /\ UNCHANGED <<db, snapshot, crashes, broken, lost>>

Migrates(p) ==
    /\ ReadsLedger(p) \/ Executes(p) \/ Marks(p) \/ ColumnExists(p)
    /\ UNCHANGED <<rows, index, snapshot, crashes, broken, lost>>

\* A service is stopped, or "migrate", or what follows a restore, is over.
Ends(p) ==
    /\ At(p, "ready") /\ job[p].cmd \in {"serve", "migrate", "restore"}
    /\ Goto(p, Down)
    /\ UNCHANGED <<db, snapshot, crashes, broken, lost>>

Indexing(p) == IF At(p, "indexing") THEN {job[p].row} ELSE {}

Dies(p) ==
    /\ ~At(p, "down")
    /\ crashes < MaxCrashes
    /\ crashes' = crashes + 1
    /\ broken' = broken \cup {m \in Migration : InWindow(p, m)}
    /\ lost' = lost \cup (Indexing(p) \ index)
    /\ Goto(p, Down)
    /\ UNCHANGED <<db, snapshot>>

-----------------------------------------------------------------------------
(***************************************************************************)
(* seed and reindex.                                                       *)
(***************************************************************************)

Seeding(n) == IF n \in SeedNo THEN [at |-> "seeding", n |-> n] ELSE Down

BeginsSeeding(p) ==
    /\ At(p, "ready") /\ job[p].cmd = "seed"
    /\ Goto(p, Seeding(1))
    /\ UNCHANGED <<db, snapshot, crashes, broken, lost>>

\* A global skill of that name is there already, or is published next.
LooksUp(p) ==
    /\ At(p, "seeding")
    /\ Goto(p, IF \E r \in rows : SeedFiles[r[1]] = SeedFiles[job[p].n]
               THEN Seeding(job[p].n + 1)
               ELSE [at |-> "publishing", n |-> job[p].n])
    /\ UNCHANGED <<db, snapshot, crashes, broken, lost>>

\* trust.record commits before the version is indexed.
Publishes(p) ==
    /\ At(p, "publishing") /\ SeedFiles[job[p].n] \notin BadSeed
    /\ \E r \in Row \ rows :
         /\ r[1] = job[p].n
         /\ \A c \in 1..(r[2] - 1) : <<r[1], c>> \in rows
         /\ rows' = rows \cup {r}
         /\ Goto(p, [at |-> "indexing", row |-> r])
    /\ UNCHANGED <<done, ledger, index, snapshot, crashes, broken, lost>>

\* Mutant of PublishRaises: the command goes on with the next seed.
PublishSkips(p) ==
    /\ At(p, "publishing")
    /\ Goto(p, Seeding(job[p].n + 1))
    /\ UNCHANGED <<db, snapshot, crashes, broken, lost>>

\* UNIQUE(skill_version_id, filename), for a bad seed, or "database is locked", for any:
\* before the commit, and the command ends.
PublishRaises(p) ==
    /\ At(p, "publishing")
    /\ Goto(p, Down)
    /\ UNCHANGED <<db, snapshot, crashes, broken, lost>>

\* Mutant of Indexes: the seed is not indexed.
IndexesNothing(p) ==
    /\ At(p, "indexing")
    /\ Goto(p, Seeding(job[p].row[1] + 1))
    /\ UNCHANGED <<db, snapshot, crashes, broken, lost>>

Indexes(p) ==
    /\ At(p, "indexing")
    /\ index' = index \cup {job[p].row}
    /\ Goto(p, Seeding(job[p].row[1] + 1))
    /\ UNCHANGED <<done, ledger, rows, snapshot, crashes, broken, lost>>

\* reindex_all embeds the versions it reads, and then stores one after the other.
BeginsReindex(p) ==
    /\ At(p, "ready") /\ job[p].cmd = "reindex"
    /\ Goto(p, [at |-> "reindexing", todo |-> rows])
    /\ UNCHANGED <<db, snapshot, crashes, broken, lost>>

Reindexes(p) ==
    /\ At(p, "reindexing")
    /\ \/ \E r \in job[p].todo :
            /\ index' = index \cup {r}
            /\ lost' = lost \ {r}
            /\ Goto(p, [job[p] EXCEPT !.todo = @ \ {r}])
       \/ job[p].todo = {} /\ Goto(p, Down) /\ UNCHANGED <<index, lost>>
    /\ UNCHANGED <<done, ledger, rows, snapshot, crashes, broken>>

\* The model cannot be loaded, the embedder raises, or the store's connection finds the
\* database locked: the command ends, and a seed that it has committed stays unindexed.
IndexRaises(p) ==
    /\ At(p, "indexing") \/ At(p, "reindexing")
    /\ lost' = lost \cup (Indexing(p) \ index)
    /\ Goto(p, Down)
    /\ UNCHANGED <<db, snapshot, crashes, broken>>

-----------------------------------------------------------------------------
(***************************************************************************)
(* backup and restore.                                                     *)
(***************************************************************************)

\* A snapshot catches what others are about to mark, or to index.
CopiesOut(p) ==
    /\ At(p, "backup")
    /\ snapshot' = [complete |-> FALSE, done |-> done, ledger |-> ledger, rows |-> rows,
                    index |-> index]
    /\ Goto(p, [at |-> "manifest"])
    /\ UNCHANGED <<db, crashes, broken, lost>>

WritesManifest(p) ==
    /\ At(p, "manifest")
    /\ snapshot' = [snapshot EXCEPT !.complete = TRUE]
    /\ Goto(p, Down)
    /\ UNCHANGED <<db, crashes, broken, lost>>

\* docs/DEPLOYMENT.md:203 has the operator stop the services first; they may be
\* started again before the migrations of the restore are done.
CopiesIn(p) ==
    /\ At(p, "restore") /\ \A q \in Proc \ {p} : At(q, "down")
    /\ done' = snapshot.done
    /\ ledger' = snapshot.ledger
    /\ rows' = snapshot.rows
    /\ index' = snapshot.index
    /\ broken' = HalfApplied(snapshot.done, snapshot.ledger)
    /\ lost' = snapshot.rows \ snapshot.index
    /\ Goto(p, Start("restore", 1))
    /\ UNCHANGED <<snapshot, crashes>>

-----------------------------------------------------------------------------

Empty == [complete |-> FALSE, done |-> {}, ledger |-> {}, rows |-> {}, index |-> {}]

\* The database is new, or one of an earlier release.
OpsInit ==
    /\ \E k \in {0} \cup Migration :
         /\ done = UNION {Change(m) : m \in 1..k}
         /\ ledger = 1..k
    /\ job = [p \in Proc |-> Down]
    /\ rows = {} /\ index = {}
    /\ snapshot = Empty
    /\ crashes = 0
    /\ broken = {} /\ lost = {}

Works(p) ==
    \/ Migrates(p)
    \/ BeginsSeeding(p) \/ LooksUp(p) \/ Publishes(p) \/ PublishRaises(p) \/ Indexes(p)
    \/ BeginsReindex(p) \/ Reindexes(p) \/ IndexRaises(p)
    \/ CopiesOut(p) \/ WritesManifest(p) \/ CopiesIn(p)

OpsNext == \E p \in Proc : Begins(p) \/ Works(p) \/ Ends(p) \/ Dies(p)

OpsSpec == OpsInit /\ [][OpsNext]_opsVars

\* systemd starts a service again 5 seconds after it failed (Restart=on-failure), and
\* a process that runs goes on.
OpsFairness ==
    /\ \A p \in Service : WF_opsVars(Begins(p))
    /\ \A p \in Proc : WF_opsVars(Migrates(p))

FairOpsSpec == OpsSpec /\ OpsFairness

-----------------------------------------------------------------------------
(***************************************************************************)
(* Properties.                                                             *)
(***************************************************************************)

Command == {"serve", "migrate", "seed", "reindex", "restore"}

Job ==
    {Down, [at |-> "backup"], [at |-> "manifest"], [at |-> "restore"]}
    \cup [at : {"starting"}, cmd : Command, runs : {1, 2}]
    \cup [at : {"ready"}, cmd : Command]
    \cup [at : {"migrating"}, cmd : Command, runs : {1, 2}, todo : (SUBSET Migration) \ {{}},
          next : Nat]
    \cup [at : {"seeding", "publishing"}, n : SeedNo]
    \cup [at : {"indexing"}, row : Row]
    \cup [at : {"reindexing"}, todo : SUBSET Row]

Snapshot == [complete : BOOLEAN, done : SUBSET Statement, ledger : SUBSET Migration,
             rows : SUBSET Row, index : SUBSET Row]

\* The database, the snapshot and the jobs have their types; a process is at a step
\* of the script it runs; what is indexed has a row.
OpsTypeOK ==
    /\ done \subseteq Statement
    /\ ledger \subseteq Migration
    /\ job \in [Proc -> Job]
    /\ \A p \in Proc : At(p, "migrating") => job[p].next \in DOMAIN Steps(Current(p))
    /\ snapshot \in Snapshot
    /\ crashes \in 0..MaxCrashes
    /\ broken \subseteq Migration
    /\ lost \subseteq Row
    /\ rows \subseteq Row
    /\ index \subseteq rows

\* The ledger never claims what the schema lacks, in a snapshot neither; and what has
\* run the migrations works on a schema that has all of them.
LedgerIsTrue ==
    /\ \A m \in ledger : Applied(m, done)
    /\ \A m \in snapshot.ledger : Applied(m, snapshot.done)
    /\ \A p \in Proc : job[p].at \in {"ready", "seeding", "publishing", "indexing", "reindexing"}
                          => \A m \in Migration : Applied(m, done)

\* A migration that can neither be repeated nor counts as applied, so that every
\* start fails: only while a process is at it, or after a crash or the restore of a
\* snapshot that fell between its script and its row.
HalfAppliedIsExplained ==
    \A m \in HalfApplied(done, ledger) : m \in broken \/ \E p \in Proc : InWindow(p, m)

\* A seeded skill is in the vector store, or about to be, unless indexing it raised,
\* or a crash or a snapshot fell between the two; the next seed run skips such a
\* skill, and only a reindex finds it again.
SeedsAreFindable ==
    rows \ index \subseteq lost \cup UNION {Indexing(p) : p \in Proc}

Published(n, R) == \E r \in R : SeedFiles[r[1]] = SeedFiles[n]

\* Seeds are published in the order of their files (seed.py:82), and the first that
\* raises ends the command: whatever is published, in the snapshot too, all seeds before
\* it are, and none of them is bad.  A later run starts with the first that is missing.
SeedsComeInOrder ==
    \A R \in {rows, snapshot.rows} : \A r \in R : \A n \in 1..r[1] :
        SeedFiles[n] \notin BadSeed /\ Published(n, R)

\* Services that start at the same time get in each other's way, but not for ever:
\* each is up again and again, unless a migration was left half applied, or the
\* operator keeps restoring.
StartsSucceed ==
    \A p \in Service :
        []<>(At(p, "ready") \/ broken # {} \/ \E q \in Proc : At(q, "restore"))
=============================================================================
