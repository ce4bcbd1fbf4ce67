-------------------------- MODULE OperationsProofs --------------------------
(***************************************************************************)
(* Proofs about modules Migrations and Operations, for every list of       *)
(* migration scripts, every list of seeds and every number of processes:   *)
(* the ledger is true, what is half applied or not indexed is explained.   *)
(***************************************************************************)
EXTENDS Operations, WellFoundedInduction, TLAPS

USE MigrationsAssumption, OperationsAssumption

-----------------------------------------------------------------------------
(***************************************************************************)
(* Scripts.                                                                *)
(***************************************************************************)

LEMMA LowestIsLowest ==
    ASSUME NEW T \in SUBSET Nat, T # {}
    PROVE  Lowest(T) \in T /\ \A n \in T : Lowest(T) <= n
<1> DEFINE R == {s \in Nat \X Nat : s[1] < s[2]}
<1>1. R = OpToRel(<, Nat)
  BY DEF OpToRel
<1>2. IsWellFoundedOn(R, Nat)
  BY <1>1, NatLessThanWellFounded
<1>3. PICK m \in T : \A n \in T : <<n, m>> \notin R
  <2> HIDE DEF R
  <2> QED BY <1>2, WFMin
<1>4. ASSUME NEW n \in T PROVE m <= n
  <2>1. m \in Nat /\ n \in Nat
    OBVIOUS
  <2>2. n < m => <<n, m>> \in R
    BY <2>1
  <2> HIDE DEF R
  <2>3. ~(n < m)
    BY <1>3, <2>2
  <2> QED BY <2>1, <2>3
<1> QED BY <1>3, <1>4 DEF Lowest

LEMMA MigrationsAreNumbers == Migration \subseteq Nat
BY DEF Migration

\* A script is executed statement by statement, and its row comes last.
LEMMA StepsFacts ==
    ASSUME NEW m \in Migration
    PROVE  /\ Len(Steps(m)) \in Nat /\ Len(Steps(m)) >= 1
           /\ DOMAIN Steps(m) = 1..Len(Steps(m))
           /\ Steps(m)[Len(Steps(m))] = "mark"
           /\ \A i \in DOMAIN Steps(m) : Steps(m)[i] \in {"again", "once", "mark"}
<1>1. Script[m] \in Seq({"again", "once", "mark"})
  BY DEF Migration
<1> QED BY <1>1 DEF Steps

\* A row is only inserted after all changes of its script.
LEMMA MarkIsLast ==
    ASSUME NEW m \in Migration, NEW n \in DOMAIN Steps(m), Steps(m)[n] = "mark",
           NEW i \in DOMAIN Steps(m), Steps(m)[i] # "mark"
    PROVE  i \in 1..(n - 1)
<1>1. Script[m] \in Seq({"again", "once", "mark"})
  BY DEF Migration
<1>2. n \in 1..(Len(Script[m]) + 1) /\ i \in 1..Len(Script[m]) /\ Len(Script[m]) \in Nat
  BY <1>1 DEF Steps
<1>3. n \in 1..Len(Script[m]) => Script[m][n] = "mark"
  BY <1>1 DEF Steps
<1>4. Script[m][i] # "mark"
  BY <1>1, <1>2 DEF Steps
<1>5. n \in {Len(Script[m]), Len(Script[m]) + 1}
  <2>1. DOMAIN Script[m] = 1..Len(Script[m])
    BY <1>1
  <2>2. \A k \in 1..Len(Script[m]) : Script[m][k] = "mark" => k = Len(Script[m])
    BY <2>1
  <2> DEFINE len == Len(Script[m])
  <2>3. n \in 1..len => n = len
    BY <1>3, <2>2
  <2>4. len \in Nat /\ n \in 1..(len + 1)
    BY <1>2
  <2> HIDE DEF len
  <2>5. n \in {len, len + 1}
    BY <2>3, <2>4
  <2> QED BY <2>5 DEF len
<1>6. n = Len(Script[m]) => i # n
  BY <1>2, <1>3, <1>4
<1> QED BY <1>2, <1>5, <1>6

LEMMA ChangeFacts ==
    ASSUME NEW m \in Migration, NEW i
    PROVE  /\ <<m, i>> \in Statement <=> i \in DOMAIN Steps(m)
           /\ <<m, i>> \in Change(m) <=> i \in DOMAIN Steps(m) /\ Steps(m)[i] # "mark"
           /\ <<m, i>> \in OnceOf(m) <=> i \in DOMAIN Steps(m) /\ Steps(m)[i] = "once"
           /\ \A s \in Change(m) : \E j \in DOMAIN Steps(m) : s = <<m, j>>
BY DEF Statement, Change, OnceOf

\* A statement that can be repeated, or is of another script, changes nothing here.
LEMMA OnceFacts ==
    ASSUME NEW k \in Migration, NEW m, NEW n, NEW D,
           k # m \/ Steps(m)[n] # "once"
    PROVE  OnceOf(k) \cap (D \cup {<<m, n>>}) = OnceOf(k) \cap D
<1>1. ASSUME NEW t \in OnceOf(k) PROVE t # <<m, n>>
  <2>1. PICK i \in DOMAIN Steps(k) : t = <<k, i>> /\ Steps(k)[i] = "once"
    BY DEF OnceOf, Change, Statement
  <2> QED BY <2>1
<1> QED BY <1>1

-----------------------------------------------------------------------------
(***************************************************************************)
(* Types.                                                                  *)
(***************************************************************************)

Running == [at : {"migrating"}, cmd : Command, runs : {1, 2}, todo : (SUBSET Migration) \ {{}},
            next : Nat]

LEMMA JobFields ==
    ASSUME job \in [Proc -> Job], NEW p \in Proc
    PROVE  /\ At(p, "starting") => job[p].cmd \in Command /\ job[p].runs \in {1, 2}
           /\ At(p, "migrating") => job[p] \in Running
           /\ At(p, "ready") => job[p].cmd \in Command
           /\ At(p, "seeding") \/ At(p, "publishing") => job[p].n \in SeedNo
           /\ At(p, "indexing") => job[p].row \in Row
           /\ At(p, "reindexing") => job[p] \in [at : {"reindexing"}, todo : SUBSET Row]
BY DEF Job, Running, Down, At

LEMMA LowestOfTodo ==
    ASSUME NEW T \in (SUBSET Migration) \ {{}}
    PROVE  Lowest(T) \in T /\ Lowest(T) \in Migration
<1>1. T \in SUBSET Nat /\ T # {}
  BY MigrationsAreNumbers
<1> QED BY <1>1, LowestIsLowest

LEMMA CurrentFacts ==
    ASSUME job \in [Proc -> Job], NEW p \in Proc, At(p, "migrating")
    PROVE  Current(p) \in job[p].todo /\ Current(p) \in Migration
<1>1. job[p].todo \in (SUBSET Migration) \ {{}}
  BY JobFields DEF Running
<1> QED BY <1>1, LowestOfTodo DEF Current

LEMMA GotoFacts ==
    ASSUME job \in [Proc -> Job], NEW p \in Proc, NEW j, Goto(p, j)
    PROVE  /\ job'[p] = j
           /\ \A q \in Proc \ {p} : job'[q] = job[q]
           /\ j \in Job => job' \in [Proc -> Job]
BY DEF Goto

LEMMA Jobs ==
    /\ Down \in Job /\ Down.at = "down"
    /\ \A n : Seeding(n) \in Job /\ Seeding(n).at \in {"seeding", "down"}
    /\ \A c \in Command, n \in {1, 2} : Start(c, n) \in Job /\ Start(c, n).at = "starting"
    /\ Running \subseteq Job
BY DEF Job, Down, Seeding, Start, Running

\* The position of a process in a script is one of the script.
PositionsOK ==
    \A p \in Proc : At(p, "migrating") => job[p].next \in DOMAIN Steps(Current(p))

\* What p goes to after a statement, by where in the script that is
LEMMA AdvanceFacts ==
    ASSUME job \in [Proc -> Job], PositionsOK, NEW p \in Proc, At(p, "migrating"), Advance(p)
    PROVE  /\ job' \in [Proc -> Job]
           /\ \A q \in Proc \ {p} : job'[q] = job[q]
           /\ \/ /\ job[p].next < Len(Steps(Current(p)))
                 /\ job'[p].at = "migrating" /\ job'[p].todo = job[p].todo
                 /\ job'[p].next = job[p].next + 1
              \/ /\ job[p].next = Len(Steps(Current(p))) /\ job[p].todo # {Current(p)}
                 /\ job'[p].at = "migrating" /\ job'[p].todo = job[p].todo \ {Current(p)}
                 /\ job'[p].next = 1
              \/ /\ job[p].next = Len(Steps(Current(p))) /\ job[p].todo = {Current(p)}
                 /\ job'[p].at \in {"starting", "ready"}
<1> DEFINE m == Current(p)
<1> DEFINE n == job[p].next
<1>1. /\ m \in job[p].todo /\ m \in Migration
      /\ n \in 1..Len(Steps(m)) /\ Len(Steps(m)) \in Nat
  BY CurrentFacts, StepsFacts DEF PositionsOK
<1>2. job[p] \in Running
  BY JobFields
<1>3. CASE n < Len(Steps(m))
  <2> DEFINE j == [job[p] EXCEPT !.next = @ + 1]
  <2>1. Goto(p, j)
    BY <1>3 DEF Advance
  <2>2. /\ j \in Running /\ j.at = "migrating" /\ j.todo = job[p].todo
        /\ j.next = n + 1
    <3>1. n + 1 \in Nat
      BY <1>1
    <3> QED BY <1>2, <3>1 DEF Running
  <2> HIDE DEF j
  <2> QED BY <1>3, <2>1, <2>2, GotoFacts, Jobs
<1>4. CASE n = Len(Steps(m)) /\ job[p].todo # {m}
  <2> DEFINE j == [job[p] EXCEPT !.todo = @ \ {m}, !.next = 1]
  <2>1. Goto(p, j)
    BY <1>1, <1>4 DEF Advance
  <2>2. j \in Running /\ j.at = "migrating" /\ j.todo = job[p].todo \ {m} /\ j.next = 1
    <3>1. job[p].todo \ {m} \in (SUBSET Migration) \ {{}}
      BY <1>1, <1>2, <1>4 DEF Running
    <3> QED BY <1>2, <3>1 DEF Running
  <2> HIDE DEF j
  <2> QED BY <1>4, <2>1, <2>2, GotoFacts, Jobs
<1>5. CASE n = Len(Steps(m)) /\ job[p].todo = {m}
  <2>1. Goto(p, AfterRun(p))
    BY <1>1, <1>5 DEF Advance
  <2>2. AfterRun(p) \in Job /\ AfterRun(p).at \in {"starting", "ready"}
    BY <1>2 DEF Running, AfterRun, Start, Job
  <2> QED BY <1>5, <2>1, <2>2, GotoFacts
<1> QED BY <1>1, <1>3, <1>4, <1>5

RowsOK ==
    /\ snapshot.index \subseteq snapshot.rows
    /\ \A p \in Proc : /\ At(p, "indexing") => job[p].row \in rows
                       /\ At(p, "reindexing") => job[p].todo \subseteq rows

TypeInv == OpsTypeOK /\ RowsOK

\* Only job changes, and p is neither at a script nor at rows afterwards.
OnlyJob(p) ==
    /\ \E j \in Job : Goto(p, j) /\ j.at \notin {"migrating", "indexing", "reindexing"}
    /\ UNCHANGED <<db, snapshot>>
    /\ crashes' \in 0..MaxCrashes /\ broken' \subseteq Migration /\ lost' \subseteq Row

LEMMA OnlyJobTypes ==
    ASSUME TypeInv, NEW p \in Proc, OnlyJob(p)
    PROVE  TypeInv'
<1>0. job \in [Proc -> Job]
  BY DEF TypeInv, OpsTypeOK
<1>1. PICK j \in Job : Goto(p, j) /\ j.at \notin {"migrating", "indexing", "reindexing"}
  BY DEF OnlyJob
<1>2. /\ job' \in [Proc -> Job] /\ job'[p] = j
      /\ \A q \in Proc \ {p} : job'[q] = job[q]
  BY <1>0, <1>1, GotoFacts
<1>3. \A q \in Proc : At(q, "migrating")' => job[q] = job'[q] /\ At(q, "migrating")
  BY <1>1, <1>2 DEF At
<1>4. \A q \in Proc : At(q, "migrating")' => job'[q].next \in DOMAIN Steps(Current(q)')
  BY <1>3 DEF TypeInv, OpsTypeOK, Current
<1>5. RowsOK'
  BY <1>1, <1>2 DEF OnlyJob, db, TypeInv, RowsOK, At
<1> QED BY <1>2, <1>4, <1>5 DEF OnlyJob, db, TypeInv, OpsTypeOK

LEMMA QuietTypes ==
    ASSUME TypeInv, NEW p \in Proc,
           \/ Begins(p) \/ Ends(p) \/ Dies(p) \/ BeginsSeeding(p) \/ LooksUp(p)
           \/ PublishRaises(p) \/ IndexRaises(p) \/ (ColumnExists(p) /\ Migrates(p))
    PROVE  TypeInv'
<1>0. /\ job \in [Proc -> Job]
      /\ crashes \in 0..MaxCrashes /\ broken \subseteq Migration /\ lost \subseteq Row
  BY DEF TypeInv, OpsTypeOK
<1> USE DEF OnlyJob
<1>1. CASE Begins(p)
  <2>1. \A c \in {"backup", "restore"} : [at |-> c] \in Job
    BY DEF Job
  <2>2. "serve" \in Command /\ \A c \in {"migrate", "seed", "reindex"} : c \in Command
    BY DEF Command
  <2>3. PICK j \in Job : Goto(p, j) /\ j.at \in {"starting", "backup", "restore"}
    <3>1. CASE p \in Service
      BY <1>1, <2>2, <3>1, Jobs DEF Begins
    <3>2. CASE p \notin Service
      BY <1>1, <2>1, <2>2, <3>2, Jobs DEF Begins
    <3> QED BY <3>1, <3>2
  <2> QED BY <1>0, <1>1, <2>3, OnlyJobTypes DEF Begins
<1>2. CASE Ends(p)
  BY <1>0, <1>2, Jobs, OnlyJobTypes DEF Ends
<1>3. CASE Dies(p)
  <2>1. crashes' \in 0..MaxCrashes
    BY <1>0, <1>3 DEF Dies
  <2>2. Indexing(p) \subseteq Row
    BY <1>0, JobFields DEF Indexing
  <2>3. broken' \subseteq Migration /\ lost' \subseteq Row
    BY <1>0, <1>3, <2>2 DEF Dies
  <2> QED BY <1>3, <2>1, <2>3, Jobs, OnlyJobTypes DEF Dies
<1>4. CASE BeginsSeeding(p)
  BY <1>0, <1>4, Jobs, OnlyJobTypes DEF BeginsSeeding
<1>5. CASE LooksUp(p)
  <2>1. job[p].n \in SeedNo
    BY <1>0, <1>5, JobFields DEF LooksUp
  <2>2. [at |-> "publishing", n |-> job[p].n] \in Job
    BY <2>1 DEF Job
  <2> QED BY <1>0, <1>5, <2>2, Jobs, OnlyJobTypes DEF LooksUp
<1>6. CASE PublishRaises(p)
  BY <1>0, <1>6, Jobs, OnlyJobTypes DEF PublishRaises
<1>7. CASE ColumnExists(p) /\ Migrates(p)
  BY <1>0, <1>7, Jobs, OnlyJobTypes DEF ColumnExists, Migrates, db
<1>8. CASE IndexRaises(p)
  <2>1. Indexing(p) \subseteq Row
    BY <1>0, JobFields DEF Indexing
  <2>2. lost' \subseteq Row
    BY <1>0, <1>8, <2>1 DEF IndexRaises
  <2> QED BY <1>0, <1>8, <2>2, Jobs, OnlyJobTypes DEF IndexRaises
<1> QED BY <1>1, <1>2, <1>3, <1>4, <1>5, <1>6, <1>7, <1>8

LEMMA RunnerTypes ==
    ASSUME TypeInv, NEW p \in Proc, ReadsLedger(p) \/ Executes(p) \/ Marks(p),
           UNCHANGED <<rows, index, snapshot, crashes, broken, lost>>
    PROVE  TypeInv'
<1>0. /\ job \in [Proc -> Job] /\ PositionsOK
      /\ done \subseteq Statement /\ ledger \subseteq Migration
  BY DEF TypeInv, OpsTypeOK, PositionsOK
<1>1. CASE ReadsLedger(p)
  <2> DEFINE pending == Migration \ ledger
  <2> DEFINE j == [at |-> "migrating", cmd |-> job[p].cmd, runs |-> job[p].runs,
                   todo |-> pending, next |-> 1]
  <2>0. job[p].cmd \in Command /\ job[p].runs \in {1, 2}
    BY <1>0, <1>1, JobFields DEF ReadsLedger
  <2>1. CASE pending = {}
    <3>1. Goto(p, AfterRun(p))
      BY <1>1, <2>1 DEF ReadsLedger
    <3>2. AfterRun(p) \in Job /\ AfterRun(p).at \in {"starting", "ready"}
      BY <2>0 DEF AfterRun, Start, Job
    <3>3. OnlyJob(p)
      BY <1>1, <3>1, <3>2 DEF ReadsLedger, OnlyJob, TypeInv, OpsTypeOK, db
    <3> QED BY <3>3, OnlyJobTypes
  <2>2. CASE pending # {}
    <3>1. Goto(p, j)
      BY <1>1, <2>2 DEF ReadsLedger
    <3>2. j \in Running /\ j.at = "migrating" /\ j.todo = pending /\ j.next = 1
      BY <2>0, <2>2 DEF Running
    <3> HIDE DEF j
    <3>3. /\ job' \in [Proc -> Job] /\ job'[p] = j
          /\ \A q \in Proc \ {p} : job'[q] = job[q]
      BY <1>0, <3>1, <3>2, GotoFacts, Jobs
    <3>4. At(p, "migrating")'
      BY <3>2, <3>3 DEF At
    <3>5. Current(p)' \in Migration
      BY <2>2, <3>2, <3>3, LowestOfTodo DEF Current
    <3>6. PositionsOK'
      BY <1>0, <3>2, <3>3, <3>5, StepsFacts DEF PositionsOK, At, Current
    <3>7. RowsOK'
      BY <3>2, <3>3 DEF TypeInv, RowsOK, At
    <3> QED BY <1>1, <3>3, <3>6, <3>7 DEF TypeInv, OpsTypeOK, ReadsLedger, PositionsOK
  <2> QED BY <2>1, <2>2
<1>2. CASE Executes(p) \/ Marks(p)
  <2>1. At(p, "migrating") /\ Advance(p)
    BY <1>2 DEF Executes, Marks
  <2> DEFINE m == Current(p)
  <2> DEFINE n == job[p].next
  <2>2. m \in Migration /\ n \in DOMAIN Steps(m)
    BY <1>0, <2>1, CurrentFacts DEF PositionsOK
  <2>3. done' \subseteq Statement /\ ledger' \subseteq Migration
    BY <1>0, <1>2, <2>2, ChangeFacts DEF Executes, Marks, Pending
  <2>4. /\ job' \in [Proc -> Job]
        /\ \A q \in Proc \ {p} : job'[q] = job[q]
        /\ job'[p].at \in {"migrating", "starting", "ready"}
        /\ job'[p].at = "migrating" =>
              \/ job'[p].todo = job[p].todo /\ job'[p].next = n + 1 /\ n < Len(Steps(m))
              \/ job'[p].next = 1
    BY <1>0, <2>1, AdvanceFacts
  <2>5. At(p, "migrating")' => Current(p)' \in Migration
    <3>1. At(p, "migrating")' => job'[p].todo \in (SUBSET Migration) \ {{}}
      BY <2>4 DEF At, Job, Down
    <3> QED BY <3>1, LowestOfTodo DEF Current
  <2>6. At(p, "migrating")' => job'[p].next \in DOMAIN Steps(Current(p)')
    <3>1. CASE job'[p].todo = job[p].todo /\ job'[p].next = n + 1 /\ n < Len(Steps(m))
      <4>1. Current(p)' = m
        BY <3>1 DEF Current
      <4> QED BY <2>2, <3>1, <4>1, StepsFacts
    <3>2. CASE job'[p].next = 1
      BY <2>5, <3>2, StepsFacts
    <3> QED BY <2>4, <3>1, <3>2 DEF At
  <2>7. PositionsOK'
    BY <1>0, <2>4, <2>6 DEF PositionsOK, At, Current
  <2>8. RowsOK'
    BY <2>4 DEF TypeInv, RowsOK, At
  <2> QED BY <2>3, <2>4, <2>7, <2>8 DEF TypeInv, OpsTypeOK, PositionsOK
<1> QED BY <1>1, <1>2

\* A step of p, to j, that leaves the schema and its ledger alone
LEMMA RowTypes ==
    ASSUME TypeInv, NEW p \in Proc, NEW j \in Job, Goto(p, j), j.at # "migrating",
           UNCHANGED <<done, ledger, crashes, broken>>,
           snapshot' \in Snapshot, snapshot'.index \subseteq snapshot'.rows,
           lost' \subseteq Row, rows' \subseteq Row, rows \subseteq rows', index' \subseteq rows',
           j.at = "indexing" => j.row \in rows',
           j.at = "reindexing" => j.todo \subseteq rows'
    PROVE  TypeInv'
<1>0. job \in [Proc -> Job]
  BY DEF TypeInv, OpsTypeOK
<1>1. /\ job' \in [Proc -> Job] /\ job'[p] = j
      /\ \A q \in Proc \ {p} : job'[q] = job[q]
  BY <1>0, GotoFacts
<1>2. \A q \in Proc : At(q, "migrating")' => job[q] = job'[q] /\ At(q, "migrating")
  BY <1>1 DEF At
<1>3. \A q \in Proc : At(q, "migrating")' => job'[q].next \in DOMAIN Steps(Current(q)')
  BY <1>2 DEF TypeInv, OpsTypeOK, Current
<1>4. RowsOK'
  BY <1>1 DEF TypeInv, RowsOK, At
<1> QED BY <1>1, <1>3, <1>4 DEF TypeInv, OpsTypeOK

LEMMA CommandTypes ==
    ASSUME TypeInv, NEW p \in Proc,
           \/ Publishes(p) \/ Indexes(p) \/ BeginsReindex(p) \/ Reindexes(p)
           \/ CopiesOut(p) \/ WritesManifest(p)
    PROVE  TypeInv'
<1>0. /\ job \in [Proc -> Job] /\ done \subseteq Statement /\ ledger \subseteq Migration
      /\ lost \subseteq Row /\ rows \subseteq Row /\ index \subseteq rows
      /\ snapshot \in Snapshot /\ snapshot.index \subseteq snapshot.rows
  BY DEF TypeInv, OpsTypeOK, RowsOK
<1>1. CASE Publishes(p)
  <2>1. PICK r \in Row \ rows : rows' = rows \cup {r} /\ Goto(p, [at |-> "indexing", row |-> r])
    BY <1>1 DEF Publishes
  <2> DEFINE j == [at |-> "indexing", row |-> r]
  <2>2. j \in Job /\ j.at = "indexing" /\ j.row = r
    BY DEF Job
  <2> HIDE DEF j
  <2>3. Goto(p, j)
    BY <2>1 DEF j
  <2> QED BY <1>0, <1>1, <2>1, <2>2, <2>3, RowTypes DEF Publishes
<1>2. CASE Indexes(p)
  <2>1. job[p].row \in rows
    BY <1>2 DEF Indexes, TypeInv, RowsOK
  <2>2. Goto(p, Seeding(job[p].row[1] + 1)) /\ index' = index \cup {job[p].row}
    BY <1>2 DEF Indexes
  <2> QED BY <1>0, <1>2, <2>1, <2>2, Jobs, RowTypes DEF Indexes
<1>3. CASE BeginsReindex(p)
  <2> DEFINE j == [at |-> "reindexing", todo |-> rows]
  <2>1. j \in Job /\ j.at = "reindexing" /\ j.todo = rows
    BY <1>0 DEF Job
  <2>2. Goto(p, j)
    BY <1>3 DEF BeginsReindex
  <2> HIDE DEF j
  <2> QED BY <1>0, <1>3, <2>1, <2>2, RowTypes DEF BeginsReindex, db
<1>4. CASE Reindexes(p)
  <2>1. job[p] \in [at : {"reindexing"}, todo : SUBSET Row] /\ job[p].todo \subseteq rows
    BY <1>0, <1>4, JobFields DEF Reindexes, TypeInv, RowsOK
  <2>2. CASE job[p].todo = {} /\ Goto(p, Down) /\ UNCHANGED <<index, lost>>
    BY <1>0, <1>4, <2>2, Jobs, RowTypes DEF Reindexes
  <2>3. ASSUME NEW r \in job[p].todo, index' = index \cup {r}, lost' = lost \ {r},
               Goto(p, [job[p] EXCEPT !.todo = @ \ {r}])
        PROVE  TypeInv'
    <3> DEFINE j == [job[p] EXCEPT !.todo = @ \ {r}]
    <3>1. j \in Job /\ j.at = "reindexing" /\ j.todo \subseteq job[p].todo
      BY <2>1 DEF Job
    <3>2. Goto(p, j)
      BY <2>3
    <3> HIDE DEF j
    <3> QED BY <1>0, <1>4, <2>1, <2>3, <3>1, <3>2, RowTypes DEF Reindexes
  <2> QED BY <1>4, <2>2, <2>3 DEF Reindexes
<1>5. CASE CopiesOut(p)
  <2>1. snapshot' \in Snapshot /\ snapshot'.index \subseteq snapshot'.rows
    BY <1>0, <1>5 DEF CopiesOut, Snapshot
  <2>2. [at |-> "manifest"] \in Job
    BY DEF Job
  <2> QED BY <1>0, <1>5, <2>1, <2>2, RowTypes DEF CopiesOut, db
<1>6. CASE WritesManifest(p)
  <2>1. snapshot' \in Snapshot /\ snapshot'.index \subseteq snapshot'.rows
    BY <1>0, <1>6 DEF WritesManifest, Snapshot
  <2> QED BY <1>0, <1>6, <2>1, Jobs, RowTypes DEF WritesManifest, db
<1> QED BY <1>1, <1>2, <1>3, <1>4, <1>5, <1>6

LEMMA RestoreTypes ==
    ASSUME TypeInv, NEW p \in Proc, CopiesIn(p)
    PROVE  TypeInv'
<1>0. /\ job \in [Proc -> Job] /\ crashes \in 0..MaxCrashes
      /\ snapshot \in Snapshot /\ snapshot.index \subseteq snapshot.rows
  BY DEF TypeInv, OpsTypeOK, RowsOK
<1>1. /\ "restore" \in Command
      /\ \A q \in Proc \ {p} : job[q].at = "down"
      /\ Goto(p, Start("restore", 1))
  BY DEF Command, CopiesIn, At
<1>2. /\ job' \in [Proc -> Job]
      /\ \A q \in Proc : job'[q].at \in {"down", "starting"}
  BY <1>0, <1>1, GotoFacts, Jobs
<1>3. /\ done' \subseteq Statement /\ ledger' \subseteq Migration /\ rows' \subseteq Row
      /\ index' \subseteq rows' /\ snapshot' = snapshot /\ crashes' = crashes
      /\ broken' \subseteq Migration /\ lost' \subseteq Row
  BY <1>0 DEF CopiesIn, Snapshot, HalfApplied
<1> QED BY <1>0, <1>2, <1>3 DEF TypeInv, OpsTypeOK, RowsOK, At

LEMMA StepTypes ==
    ASSUME TypeInv, OpsNext
    PROVE  TypeInv'
BY QuietTypes, RunnerTypes, CommandTypes, RestoreTypes DEF OpsNext, Works, Migrates

LEMMA TypeInvHolds == OpsSpec => []TypeInv
<1>1. OpsInit => TypeInv
  <2> SUFFICES ASSUME OpsInit PROVE TypeInv
    OBVIOUS
  <2>1. PICK k \in {0} \cup Migration : done = UNION {Change(m) : m \in 1..k} /\ ledger = 1..k
    BY DEF OpsInit
  <2>2. 1..k \subseteq Migration
    BY DEF Migration
  <2>3. done \subseteq Statement
    BY <2>1, <2>2 DEF Change
  <2>4. job \in [Proc -> Job] /\ \A p \in Proc : job[p].at = "down"
    BY Jobs DEF OpsInit
  <2>5. snapshot \in Snapshot /\ snapshot.index \subseteq snapshot.rows
    BY DEF OpsInit, Empty, Snapshot
  <2>6. /\ crashes \in 0..MaxCrashes /\ broken \subseteq Migration /\ lost \subseteq Row
        /\ rows \subseteq Row /\ index \subseteq rows
    BY DEF OpsInit
  <2>7. RowsOK
    BY <2>4, <2>5 DEF RowsOK, At
  <2>8. \A p \in Proc : At(p, "migrating") => job[p].next \in DOMAIN Steps(Current(p))
    BY <2>4 DEF At
  <2> QED BY <2>1, <2>2, <2>3, <2>4, <2>5, <2>6, <2>7, <2>8 DEF TypeInv, OpsTypeOK
<1>2. ASSUME TypeInv, [OpsNext]_opsVars
      PROVE  TypeInv'
  <2>1. CASE UNCHANGED opsVars
    BY <1>2, <2>1 DEF opsVars, db, TypeInv, OpsTypeOK, RowsOK, At, Current
  <2> QED BY <1>2, <2>1, StepTypes
<1> QED BY <1>1, <1>2, PTL DEF OpsSpec

\* The database, the snapshot and the jobs keep their types, and no process leaves the
\* scripts that it runs.
THEOREM TypesHold == OpsSpec => []OpsTypeOK
BY TypeInvHolds, PTL DEF TypeInv

-----------------------------------------------------------------------------
(***************************************************************************)
(* The ledger.  What a process is past, its script as far as it has come   *)
(* and the migrations before that, has happened.                           *)
(***************************************************************************)

Past == {"ready", "seeding", "publishing", "indexing", "reindexing"}

RunnerOK(p) ==
    /\ At(p, "migrating") =>
          /\ Migration \ job[p].todo \subseteq ledger
          /\ \A i \in 1..(job[p].next - 1) :
                Steps(Current(p))[i] # "mark" => <<Current(p), i>> \in done
    /\ job[p].at \in Past => Migration \subseteq ledger

LedgerInv ==
    /\ \A m \in ledger : Applied(m, done)
    /\ \A m \in snapshot.ledger : Applied(m, snapshot.done)
    /\ \A p \in Proc : RunnerOK(p)

\* A step of p, to j, outside the runner
Quiet(p) ==
    /\ ~At(p, "migrating")
    /\ \E j \in Job : /\ Goto(p, j)
                      /\ j.at # "migrating"
                      /\ j.at \in Past => job[p].at \in Past
    /\ UNCHANGED <<done, ledger, broken>>
    /\ snapshot'.done = snapshot.done /\ snapshot'.ledger = snapshot.ledger

LEMMA RunnerEffects ==
    ASSUME TypeInv, OpsNext
    PROVE  \E p \in Proc :
              \/ Quiet(p) \/ Dies(p) \/ CopiesOut(p) \/ CopiesIn(p)
              \/ /\ ReadsLedger(p) \/ Executes(p) \/ Marks(p) \/ ColumnExists(p)
                 /\ UNCHANGED <<rows, index, snapshot, crashes, broken, lost>>
<1>0. job \in [Proc -> Job] /\ snapshot \in Snapshot
  BY DEF TypeInv, OpsTypeOK
<1> USE DEF Quiet, Past
<1>1. ASSUME NEW p \in Proc, Begins(p) PROVE Quiet(p)
  <2>1. \A c \in {"backup", "restore"} : [at |-> c] \in Job
    BY DEF Job
  <2>2. "serve" \in Command /\ \A c \in {"migrate", "seed", "reindex"} : c \in Command
    BY DEF Command
  <2>3. PICK j \in Job : Goto(p, j) /\ j.at \in {"starting", "backup", "restore"}
    <3>1. CASE p \in Service
      BY <1>1, <2>2, <3>1, Jobs DEF Begins
    <3>2. CASE p \notin Service
      BY <1>1, <2>1, <2>2, <3>2, Jobs DEF Begins
    <3> QED BY <3>1, <3>2
  <2> QED BY <1>1, <2>3 DEF Begins, At, db
<1>2. ASSUME NEW p \in Proc, Ends(p) \/ BeginsSeeding(p) \/ PublishRaises(p) \/ IndexRaises(p)
      PROVE  Quiet(p)
  BY <1>2, Jobs DEF Ends, BeginsSeeding, PublishRaises, IndexRaises, At, db
<1>3. ASSUME NEW p \in Proc, LooksUp(p) PROVE Quiet(p)
  <2>1. job[p].n \in SeedNo
    BY <1>0, <1>3, JobFields DEF LooksUp
  <2>2. [at |-> "publishing", n |-> job[p].n] \in Job
    BY <2>1 DEF Job
  <2> QED BY <1>3, <2>2, Jobs DEF LooksUp, At, db
<1>4. ASSUME NEW p \in Proc, Publishes(p) PROVE Quiet(p)
  <2>1. PICK r \in Row : Goto(p, [at |-> "indexing", row |-> r])
    BY <1>4 DEF Publishes
  <2>2. [at |-> "indexing", row |-> r] \in Job
    BY DEF Job
  <2> QED BY <1>4, <2>1, <2>2 DEF Publishes, At
<1>5. ASSUME NEW p \in Proc, Indexes(p) PROVE Quiet(p)
  BY <1>5, Jobs DEF Indexes, At
<1>6. ASSUME NEW p \in Proc, BeginsReindex(p) PROVE Quiet(p)
  <2>1. [at |-> "reindexing", todo |-> rows] \in Job
    BY DEF Job, TypeInv, OpsTypeOK
  <2> QED BY <1>6, <2>1 DEF BeginsReindex, At, db
<1>7. ASSUME NEW p \in Proc, Reindexes(p) PROVE Quiet(p)
  <2>1. job[p] \in [at : {"reindexing"}, todo : SUBSET Row]
    BY <1>0, <1>7, JobFields DEF Reindexes
  <2>2. ASSUME NEW r, Goto(p, [job[p] EXCEPT !.todo = @ \ {r}]) PROVE Quiet(p)
    <3> DEFINE j == [job[p] EXCEPT !.todo = @ \ {r}]
    <3>1. j \in Job /\ j.at = "reindexing"
      BY <2>1 DEF Job
    <3>2. Goto(p, j)
      BY <2>2
    <3> HIDE DEF j
    <3> QED BY <1>7, <3>1, <3>2 DEF Reindexes, At
  <2>3. Goto(p, Down) => Quiet(p)
    BY <1>7, Jobs DEF Reindexes, At
  <2> QED BY <1>7, <2>2, <2>3 DEF Reindexes
<1>8. ASSUME NEW p \in Proc, WritesManifest(p) PROVE Quiet(p)
  <2>1. snapshot'.done = snapshot.done /\ snapshot'.ledger = snapshot.ledger
    BY <1>0, <1>8 DEF WritesManifest, Snapshot
  <2> QED BY <1>8, <2>1, Jobs DEF WritesManifest, At, db
<1> QED BY <1>1, <1>2, <1>3, <1>4, <1>5, <1>6, <1>7, <1>8 DEF OpsNext, Works, Migrates

\* Others only see the database grow.
LEMMA OthersStayOK ==
    ASSUME NEW q \in Proc, RunnerOK(q), job'[q] = job[q],
           done \subseteq done', ledger \subseteq ledger'
    PROVE  RunnerOK(q)'
BY DEF RunnerOK, At, Current

\* A step of the script of p
LEMMA AdvanceIsOK ==
    ASSUME TypeInv, NEW p \in Proc, RunnerOK(p), At(p, "migrating"), Advance(p),
           done \subseteq done', ledger \subseteq ledger',
           Kind(p) # "mark" => Pending(p) \in done',
           Kind(p) = "mark" => Current(p) \in ledger'
    PROVE  RunnerOK(p)'
<1> DEFINE m == Current(p)
<1> DEFINE n == job[p].next
<1>0. job \in [Proc -> Job] /\ PositionsOK
  BY DEF TypeInv, OpsTypeOK, PositionsOK
<1>1. m \in job[p].todo /\ m \in Migration /\ n \in 1..Len(Steps(m)) /\ Len(Steps(m)) \in Nat
  BY <1>0, CurrentFacts, StepsFacts DEF PositionsOK
<1>2. /\ Migration \ job[p].todo \subseteq ledger'
      /\ \A i \in 1..(n - 1) : Steps(m)[i] # "mark" => <<m, i>> \in done'
  BY DEF RunnerOK
<1>3. CASE n < Len(Steps(m)) /\ job'[p].at = "migrating" /\ job'[p].todo = job[p].todo
                             /\ job'[p].next = n + 1
  <2>1. Current(p)' = m
    BY <1>3 DEF Current
  <2>2. \A i \in 1..n : i = n \/ i \in 1..(n - 1)
    BY <1>1
  <2>3. \A i \in 1..n : Steps(m)[i] # "mark" => <<m, i>> \in done'
    BY <1>2, <2>2 DEF Kind, Pending
  <2>4. job'[p].next - 1 = n
    BY <1>1, <1>3
  <2> QED BY <1>2, <1>3, <2>1, <2>3, <2>4 DEF RunnerOK, At, Past
<1>4. CASE n = Len(Steps(m)) /\ job'[p].at = "migrating" /\ job'[p].todo = job[p].todo \ {m}
                             /\ job'[p].next = 1
  <2>1. m \in ledger'
    BY <1>1, <1>4, StepsFacts DEF Kind
  <2> QED BY <1>2, <1>4, <2>1 DEF RunnerOK, At, Past
<1>5. CASE n = Len(Steps(m)) /\ job[p].todo = {m} /\ job'[p].at \in {"starting", "ready"}
  <2>1. m \in ledger'
    BY <1>1, <1>5, StepsFacts DEF Kind
  <2> QED BY <1>2, <1>5, <2>1 DEF RunnerOK, At
<1> QED BY <1>0, <1>3, <1>4, <1>5, AdvanceFacts

LEMMA LedgerStep ==
    ASSUME TypeInv, LedgerInv, OpsNext
    PROVE  LedgerInv'
<1> USE DEF LedgerInv
<1>0. job \in [Proc -> Job] /\ PositionsOK /\ snapshot \in Snapshot
  BY DEF TypeInv, OpsTypeOK, PositionsOK
<1>1. ASSUME NEW p \in Proc, Quiet(p) PROVE LedgerInv'
  <2>1. PICK j \in Job : Goto(p, j) /\ j.at # "migrating" /\ (j.at \in Past => job[p].at \in Past)
    BY <1>1 DEF Quiet
  <2>2. job'[p] = j /\ \A q \in Proc \ {p} : job'[q] = job[q]
    BY <1>0, <2>1, GotoFacts
  <2>3. RunnerOK(p)'
    BY <1>1, <2>1, <2>2 DEF Quiet, RunnerOK, At
  <2>4. \A q \in Proc \ {p} : RunnerOK(q)'
    BY <1>1, <2>2, OthersStayOK DEF Quiet
  <2> QED BY <1>1, <2>3, <2>4 DEF Quiet, Applied
<1>2. ASSUME NEW p \in Proc, Dies(p) PROVE LedgerInv'
  <2>1. /\ job'[p] = Down /\ \A q \in Proc \ {p} : job'[q] = job[q]
        /\ UNCHANGED <<done, ledger, snapshot>>
    BY <1>0, <1>2, GotoFacts DEF Dies, db
  <2>2. RunnerOK(p)'
    BY <2>1, Jobs DEF RunnerOK, At, Past
  <2> QED BY <2>1, <2>2, OthersStayOK DEF Applied
<1>3. ASSUME NEW p \in Proc, CopiesOut(p) PROVE LedgerInv'
  <2>1. /\ job'[p] = [at |-> "manifest"] /\ \A q \in Proc \ {p} : job'[q] = job[q]
        /\ UNCHANGED <<done, ledger>>
        /\ snapshot'.done = done /\ snapshot'.ledger = ledger
    BY <1>0, <1>3, GotoFacts DEF CopiesOut, db
  <2>2. RunnerOK(p)'
    BY <2>1 DEF RunnerOK, At, Past
  <2> QED BY <2>1, <2>2, OthersStayOK DEF Applied
<1>4. ASSUME NEW p \in Proc, CopiesIn(p) PROVE LedgerInv'
  <2>1. job' = [job EXCEPT ![p] = Start("restore", 1)]
    BY <1>4 DEF CopiesIn, Goto
  <2>2. \A q \in Proc : job'[q].at \in {"down", "starting"}
    BY <1>0, <1>4, <2>1 DEF CopiesIn, At, Start
  <2>3. \A q \in Proc : RunnerOK(q)'
    BY <2>2 DEF RunnerOK, At, Past
  <2> QED BY <1>4, <2>3 DEF CopiesIn, Applied
<1>5. ASSUME NEW p \in Proc, UNCHANGED snapshot, ReadsLedger(p) PROVE LedgerInv'
  <2> DEFINE j == [at |-> "migrating", cmd |-> job[p].cmd, runs |-> job[p].runs,
                   todo |-> Migration \ ledger, next |-> 1]
  <2>1. Goto(p, IF Migration \ ledger = {} THEN AfterRun(p) ELSE j) /\ UNCHANGED <<done, ledger>>
    BY <1>5 DEF ReadsLedger
  <2>2. /\ job'[p] = IF Migration \ ledger = {} THEN AfterRun(p) ELSE j
        /\ \A q \in Proc \ {p} : job'[q] = job[q]
    BY <1>0, <2>1, GotoFacts
  <2>3. AfterRun(p).at \in {"starting", "ready"}
    BY DEF AfterRun, Start
  <2>4. RunnerOK(p)'
    <3>1. CASE Migration \ ledger = {}
      BY <2>1, <2>2, <2>3, <3>1 DEF RunnerOK, At
    <3>2. CASE Migration \ ledger # {}
      BY <2>1, <2>2, <3>2 DEF RunnerOK, At, Past
    <3> QED BY <3>1, <3>2
  <2> QED BY <1>5, <2>1, <2>2, <2>4, OthersStayOK DEF Applied
<1>6. ASSUME NEW p \in Proc, UNCHANGED snapshot, Executes(p) \/ Marks(p) PROVE LedgerInv'
  <2>1. At(p, "migrating") /\ Advance(p)
    BY <1>6 DEF Executes, Marks
  <2>2. /\ done \subseteq done' /\ ledger \subseteq ledger'
        /\ Kind(p) # "mark" => Pending(p) \in done'
        /\ Kind(p) = "mark" => Current(p) \in ledger'
        /\ \A m \in ledger' : m \in ledger \/ (Kind(p) = "mark" /\ m = Current(p))
    BY <1>6 DEF Executes, Marks
  <2>3. RunnerOK(p)'
    BY <2>1, <2>2, AdvanceIsOK
  <2>4. \A q \in Proc \ {p} : RunnerOK(q)'
    BY <1>0, <2>1, <2>2, AdvanceFacts, OthersStayOK
  <2>5. ASSUME Kind(p) = "mark" PROVE Applied(Current(p), done)
    <3> DEFINE m == Current(p)
    <3>1. m \in Migration /\ job[p].next \in DOMAIN Steps(m)
      BY <1>0, <2>1, CurrentFacts DEF PositionsOK
    <3>2. ASSUME NEW s \in Change(m) PROVE s \in done
      <4>1. PICK i \in DOMAIN Steps(m) : s = <<m, i>> /\ Steps(m)[i] # "mark"
        BY <3>1, ChangeFacts
      <4>2. i \in 1..(job[p].next - 1)
        BY <2>5, <3>1, <4>1, MarkIsLast DEF Kind
      <4> QED BY <2>1, <4>1, <4>2 DEF RunnerOK
    <3> QED BY <3>2 DEF Applied
  <2> QED BY <1>6, <2>2, <2>3, <2>4, <2>5 DEF Applied
<1>7. ASSUME NEW p \in Proc, UNCHANGED snapshot, ColumnExists(p) PROVE LedgerInv'
  <2>1. /\ job'[p] = Down /\ \A q \in Proc \ {p} : job'[q] = job[q]
        /\ UNCHANGED <<done, ledger>>
    BY <1>0, <1>7, GotoFacts DEF ColumnExists
  <2>2. RunnerOK(p)'
    BY <2>1, Jobs DEF RunnerOK, At, Past
  <2> QED BY <1>7, <2>1, <2>2, OthersStayOK DEF Applied
<1> QED BY <1>1, <1>2, <1>3, <1>4, <1>5, <1>6, <1>7, RunnerEffects

LEMMA LedgerInvHolds == OpsSpec => []LedgerInv
<1>1. OpsInit => LedgerInv
  <2> SUFFICES ASSUME OpsInit PROVE LedgerInv
    OBVIOUS
  <2>1. \A p \in Proc : RunnerOK(p)
    BY Jobs DEF OpsInit, RunnerOK, At, Past
  <2> QED BY <2>1 DEF OpsInit, LedgerInv, Applied, Empty
<1>2. ASSUME TypeInv, LedgerInv, [OpsNext]_opsVars
      PROVE  LedgerInv'
  <2>1. CASE UNCHANGED opsVars
    BY <1>2, <2>1 DEF opsVars, db, LedgerInv, RunnerOK, Applied, At, Current
  <2> QED BY <1>2, <2>1, LedgerStep
<1> QED BY <1>1, <1>2, TypeInvHolds, PTL DEF OpsSpec

\* The row of a migration is in the ledger only if all its statements are in the
\* schema (db.py:141), and what migrated first works on the whole schema (cli.py:311).
THEOREM LedgerIsAlwaysTrue == OpsSpec => []LedgerIsTrue
<1>1. TypeInv /\ LedgerInv => LedgerIsTrue
  BY DEF TypeInv, OpsTypeOK, LedgerInv, RunnerOK, LedgerIsTrue, Past
<1> QED BY <1>1, TypeInvHolds, LedgerInvHolds, PTL

-----------------------------------------------------------------------------
(***************************************************************************)
(* Half applied migrations.  Only one process can be between a statement   *)
(* that cannot be repeated and the row, for the others raise there.        *)
(***************************************************************************)

\* The statements of a script that cannot be repeated are done one after the other.
InOrder(D) ==
    \A m \in Migration : \A i, j \in DOMAIN Steps(m) :
        i < j /\ Steps(m)[i] = "once" /\ Steps(m)[j] = "once" /\ <<m, j>> \in D
            => <<m, i>> \in D

OneWindow ==
    \A p \in Proc : \A m \in Migration : InWindow(p, m) =>
        /\ \A i \in DOMAIN Steps(m) :
              i >= job[p].next /\ Steps(m)[i] = "once" => <<m, i>> \notin done
        /\ \A q \in Proc \ {p} : ~InWindow(q, m)

WindowInv ==
    /\ InOrder(done) /\ InOrder(snapshot.done)
    /\ OneWindow
    /\ HalfAppliedIsExplained

LEMMA SameWindow ==
    ASSUME NEW q \in Proc, job'[q] = job[q], NEW m
    PROVE  InWindow(q, m)' <=> InWindow(q, m)
BY DEF InWindow, At, Current

LEMMA NoWindow ==
    ASSUME NEW p \in Proc, ~At(p, "migrating"), NEW m
    PROVE  ~InWindow(p, m)
BY DEF InWindow

\* The schema stays as it is, and windows only close: into broken, or with the row.
LEMMA WindowsClose ==
    ASSUME WindowInv, InOrder(snapshot'.done), UNCHANGED done,
           ledger \subseteq ledger', broken \subseteq broken',
           \A q \in Proc : \A m \in Migration :
              /\ InWindow(q, m)' =>
                    /\ InWindow(q, m)
                    /\ \A i \in DOMAIN Steps(m) : i >= job'[q].next => i >= job[q].next
              /\ InWindow(q, m) => InWindow(q, m)' \/ m \in broken' \/ m \in ledger'
    PROVE  WindowInv'
<1>1. OneWindow'
  BY DEF WindowInv, OneWindow
<1>2. HalfAppliedIsExplained'
  <2> SUFFICES ASSUME NEW m \in HalfApplied(done, ledger')
               PROVE  m \in broken' \/ \E p \in Proc : InWindow(p, m)'
    BY DEF HalfAppliedIsExplained
  <2>1. m \in Migration /\ m \notin ledger' /\ m \in HalfApplied(done, ledger)
    BY DEF HalfApplied
  <2> QED BY <2>1 DEF WindowInv, HalfAppliedIsExplained
<1> QED BY <1>1, <1>2 DEF WindowInv

LEMMA ExecutesWindow ==
    ASSUME TypeInv, LedgerInv, WindowInv, NEW p \in Proc, Executes(p),
           UNCHANGED <<snapshot, broken>>
    PROVE  WindowInv'
<1> DEFINE m == Current(p)
<1> DEFINE n == job[p].next
<1>0. job \in [Proc -> Job] /\ PositionsOK /\ ledger' = ledger
  BY DEF TypeInv, OpsTypeOK, PositionsOK, Executes
<1>1. /\ m \in Migration /\ n \in DOMAIN Steps(m)
      /\ At(p, "migrating") /\ Advance(p) /\ Steps(m)[n] # "mark"
      /\ Steps(m)[n] = "once" => <<m, n>> \notin done
      /\ done' = done \cup {<<m, n>>}
  BY <1>0, CurrentFacts DEF Executes, PositionsOK, Kind, Pending
<1>2. n \in 1..Len(Steps(m)) /\ n # Len(Steps(m)) /\ Len(Steps(m)) \in Nat
  BY <1>1, StepsFacts
<1>3. /\ \A q \in Proc \ {p} : job'[q] = job[q]
      /\ At(p, "migrating")' /\ job'[p].next = n + 1 /\ Current(p)' = m
  BY <1>0, <1>1, <1>2, AdvanceFacts DEF At, Current
<1>4. \A i \in 1..(n - 1) : Steps(m)[i] # "mark" => <<m, i>> \in done
  BY <1>1 DEF LedgerInv, RunnerOK
<1>5. \A q \in Proc \ {p} : \A k \in Migration : InWindow(q, k)' <=> InWindow(q, k)
  BY <1>3, SameWindow
<1>6. \A k \in Migration : InWindow(p, k)' <=>
         k = m /\ (InWindow(p, m) \/ Steps(m)[n] = "once")
  <2>1. job'[p].next - 1 = n /\ 1..n = 1..(n - 1) \cup {n}
    BY <1>2, <1>3
  <2>2. InWindow(p, m) <=> \E i \in 1..(n - 1) : Steps(m)[i] = "once"
    BY <1>1 DEF InWindow
  <2>3. \A k \in Migration : InWindow(p, k)' <=> k = m /\ \E i \in 1..n : Steps(m)[i] = "once"
    BY <1>3, <2>1 DEF InWindow
  <2> QED BY <2>1, <2>2, <2>3
<1>7. CASE Steps(m)[n] # "once"
  <2>1. \A k \in Migration : \A i \in DOMAIN Steps(k) :
           Steps(k)[i] = "once" => (<<k, i>> \in done' <=> <<k, i>> \in done)
    BY <1>1, <1>7
  <2>2. InOrder(done')
    BY <2>1 DEF WindowInv, InOrder
  <2>3. \A k \in Migration : InWindow(p, k)' <=> InWindow(p, k)
    BY <1>6, <1>7 DEF InWindow
  <2>4. \A i \in DOMAIN Steps(m) : i >= n + 1 => i >= n
    BY <1>2, <1>1, StepsFacts
  <2>5. OneWindow'
    <3> SUFFICES ASSUME NEW q \in Proc, NEW k \in Migration, InWindow(q, k)'
                 PROVE  /\ \A i \in DOMAIN Steps(k) :
                              i >= job'[q].next /\ Steps(k)[i] = "once" => <<k, i>> \notin done'
                        /\ \A r \in Proc \ {q} : ~InWindow(r, k)'
      BY DEF OneWindow
    <3>1. InWindow(q, k) /\ \A r \in Proc \ {q} : ~InWindow(r, k)'
      BY <1>5, <2>3 DEF WindowInv, OneWindow
    <3>2. \A i \in DOMAIN Steps(k) :
             i >= job[q].next /\ Steps(k)[i] = "once" => <<k, i>> \notin done'
      BY <2>1, <3>1 DEF WindowInv, OneWindow
    <3>3. q = p => k = m
      BY <1>6
    <3> QED BY <1>3, <2>4, <3>1, <3>2, <3>3
  <2>6. HalfApplied(done', ledger') = HalfApplied(done, ledger)
    <3>1. ASSUME NEW k \in Migration PROVE OnceOf(k) \cap done' = OnceOf(k) \cap done
      BY <1>1, <1>7, OnceFacts
    <3> QED BY <1>0, <3>1 DEF HalfApplied
  <2>7. HalfAppliedIsExplained'
    BY <1>5, <2>3, <2>6 DEF WindowInv, HalfAppliedIsExplained, HalfApplied
  <2> QED BY <2>2, <2>5, <2>7 DEF WindowInv
<1>8. CASE Steps(m)[n] = "once"
  <2>1. <<m, n>> \notin done
    BY <1>1, <1>8
  <2>2. \A i \in DOMAIN Steps(m) : i >= n + 1 /\ Steps(m)[i] = "once" => <<m, i>> \notin done'
    <3> SUFFICES ASSUME NEW i \in DOMAIN Steps(m), i >= n + 1, Steps(m)[i] = "once"
                 PROVE  <<m, i>> \notin done'
      OBVIOUS
    <3>1. i \in Nat /\ n \in Nat /\ n < i
      BY <1>1, <1>2, StepsFacts
    <3>2. <<m, i>> \notin done
      BY <1>1, <1>8, <2>1, <3>1 DEF WindowInv, InOrder
    <3> QED BY <1>1, <3>1, <3>2
  <2>3. ASSUME NEW q \in Proc \ {p} PROVE ~InWindow(q, m)
    <3>1. SUFFICES ASSUME InWindow(q, m) PROVE FALSE
      OBVIOUS
    <3>2. PICK i \in 1..(job[q].next - 1) : Steps(m)[i] = "once"
      BY <3>1 DEF InWindow
    <3>3. <<m, i>> \in done
      BY <3>1, <3>2 DEF InWindow, LedgerInv, RunnerOK
    <3>4. job[q].next \in DOMAIN Steps(m)
      BY <1>0, <3>1 DEF InWindow, PositionsOK
    <3>5. i \in DOMAIN Steps(m) /\ i \in Nat /\ n \in Nat
      BY <1>1, <1>2, <3>4, StepsFacts
    <3>6. ~(n < i)
      BY <1>1, <1>8, <2>1, <3>2, <3>3, <3>5 DEF WindowInv, InOrder
    <3>7. i # n
      BY <2>1, <3>3
    <3>8. i \in 1..(n - 1)
      BY <1>2, <3>2, <3>5, <3>6, <3>7
    <3>9. InWindow(p, m)
      BY <1>1, <3>2, <3>8 DEF InWindow
    <3> QED BY <1>1, <3>1, <3>9 DEF WindowInv, OneWindow
  <2>4. InOrder(done')
    <3> SUFFICES ASSUME NEW k \in Migration, NEW i \in DOMAIN Steps(k), NEW j \in DOMAIN Steps(k),
                        i < j, Steps(k)[i] = "once", Steps(k)[j] = "once", <<k, j>> \in done'
                 PROVE  <<k, i>> \in done'
      BY DEF InOrder
    <3>1. CASE <<k, j>> \in done
      BY <1>1, <3>1 DEF WindowInv, InOrder
    <3>2. CASE k = m /\ j = n
      <4>1. i \in 1..(n - 1)
        BY <1>2, <3>2, StepsFacts
      <4> QED BY <1>1, <1>4, <3>2, <4>1
    <3> QED BY <1>1, <3>1, <3>2
  <2>5. OneWindow'
    <3> SUFFICES ASSUME NEW q \in Proc, NEW k \in Migration, InWindow(q, k)'
                 PROVE  /\ \A i \in DOMAIN Steps(k) :
                              i >= job'[q].next /\ Steps(k)[i] = "once" => <<k, i>> \notin done'
                        /\ \A r \in Proc \ {q} : ~InWindow(r, k)'
      BY DEF OneWindow
    <3>1. CASE q = p
      BY <1>3, <1>5, <1>6, <2>2, <2>3, <3>1
    <3>2. CASE q # p
      <4>1. InWindow(q, k) /\ job'[q] = job[q] /\ k # m
        BY <1>3, <1>5, <2>3, <3>2
      <4>2. \A i : <<k, i>> \in done' => <<k, i>> \in done
        BY <1>1, <4>1
      <4>3. \A r \in Proc \ {q} : ~InWindow(r, k)'
        BY <1>5, <1>6, <4>1 DEF WindowInv, OneWindow
      <4> QED BY <4>1, <4>2, <4>3 DEF WindowInv, OneWindow
    <3> QED BY <3>1, <3>2
  <2>6. HalfAppliedIsExplained'
    <3> SUFFICES ASSUME NEW k \in HalfApplied(done', ledger')
                 PROVE  k \in broken' \/ \E q \in Proc : InWindow(q, k)'
      BY DEF HalfAppliedIsExplained
    <3>1. k \in Migration
      BY DEF HalfApplied
    <3>2. CASE k = m
      BY <1>6, <1>8, <3>1, <3>2
    <3>3. CASE k # m
      <4>1. OnceOf(k) \cap done' = OnceOf(k) \cap done
        BY <1>1, <3>1, <3>3, OnceFacts
      <4>2. k \in HalfApplied(done, ledger)
        BY <1>0, <4>1 DEF HalfApplied
      <4>3. k \in broken \/ \E q \in Proc : InWindow(q, k)
        BY <4>2 DEF WindowInv, HalfAppliedIsExplained
      <4>4. ~InWindow(p, k)
        BY <3>3 DEF InWindow
      <4> QED BY <1>5, <3>1, <4>3, <4>4
    <3> QED BY <3>2, <3>3
  <2> QED BY <2>4, <2>5, <2>6 DEF WindowInv
<1> QED BY <1>7, <1>8

\* p leaves the runner, or was not in it.
LEMMA NoWindowAfter ==
    ASSUME WindowInv, NEW p \in Proc,
           job'[p].at # "migrating" \/ job'[p].next = 1,
           \A q \in Proc \ {p} : job'[q] = job[q],
           InOrder(snapshot'.done), UNCHANGED <<done, ledger>>, broken \subseteq broken',
           \A m \in Migration : InWindow(p, m) => m \in broken'
    PROVE  WindowInv'
<1>1. \A m : ~InWindow(p, m)'
  <2>1. 1..(1 - 1) = {}
    OBVIOUS
  <2> QED BY <2>1 DEF InWindow, At
<1>2. \A q \in Proc \ {p} : \A m : InWindow(q, m)' <=> InWindow(q, m)
  BY SameWindow
<1>3. \A q \in Proc : \A m \in Migration :
         /\ InWindow(q, m)' =>
               /\ InWindow(q, m)
               /\ \A i \in DOMAIN Steps(m) : i >= job'[q].next => i >= job[q].next
         /\ InWindow(q, m) => InWindow(q, m)' \/ m \in broken' \/ m \in ledger'
  BY <1>1, <1>2
<1> QED BY <1>3, WindowsClose

LEMMA MarksWindow ==
    ASSUME TypeInv, WindowInv, NEW p \in Proc, Marks(p), UNCHANGED <<snapshot, broken>>
    PROVE  WindowInv'
<1> DEFINE m == Current(p)
<1> DEFINE n == job[p].next
<1>0. job \in [Proc -> Job] /\ PositionsOK /\ InOrder(snapshot'.done)
  BY DEF TypeInv, OpsTypeOK, PositionsOK, WindowInv
<1>1. /\ At(p, "migrating") /\ Advance(p) /\ Steps(m)[n] = "mark"
      /\ m \in ledger' /\ ledger \subseteq ledger' /\ UNCHANGED done
      /\ m \in Migration /\ n \in DOMAIN Steps(m)
  BY <1>0, CurrentFacts DEF Marks, Kind, PositionsOK
<1>2. DOMAIN Steps(m) \subseteq Nat /\ n \in Nat
  BY <1>1, StepsFacts
<1>3. \A q \in Proc \ {p} : job'[q] = job[q]
  BY <1>0, <1>1, AdvanceFacts
<1>4. ASSUME NEW k \in Migration, InWindow(p, k)'
      PROVE  InWindow(p, k) /\ job'[p].next = n + 1 /\ k = m
  <2>1. job'[p].at = "migrating" /\ \E i \in 1..(job'[p].next - 1) : Steps(k)[i] = "once"
    BY <1>4 DEF InWindow, At
  <2>2. job'[p].next # 1
    BY <2>1
  <2>3. job'[p].next = n + 1 /\ job'[p].todo = job[p].todo
    BY <1>0, <1>1, <2>1, <2>2, AdvanceFacts
  <2>4. k = m
    BY <1>4, <2>3 DEF InWindow, Current
  <2>5. PICK i \in 1..(job'[p].next - 1) : Steps(m)[i] = "once"
    BY <2>1, <2>4
  <2>6. i # n
    BY <1>1, <2>5
  <2>7. i \in 1..(n - 1)
    BY <1>2, <2>3, <2>5, <2>6
  <2> QED BY <1>1, <2>3, <2>4, <2>5, <2>7 DEF InWindow
<1>5. \A k \in Migration : InWindow(p, k) => k \in ledger'
  BY <1>1 DEF InWindow
<1>6. \A q \in Proc \ {p} : \A k : InWindow(q, k)' <=> InWindow(q, k)
  BY <1>3, SameWindow
<1>7. \A i \in DOMAIN Steps(m) : i >= n + 1 => i >= n
  BY <1>2
<1>8. \A q \in Proc : \A k \in Migration :
         /\ InWindow(q, k)' =>
               /\ InWindow(q, k)
               /\ \A i \in DOMAIN Steps(k) : i >= job'[q].next => i >= job[q].next
         /\ InWindow(q, k) => InWindow(q, k)' \/ k \in broken' \/ k \in ledger'
  <2>1. ASSUME NEW k \in Migration, InWindow(p, k)'
        PROVE  \A i \in DOMAIN Steps(k) : i >= job'[p].next => i >= job[p].next
    BY <1>4, <1>7, <2>1
  <2> QED BY <1>3, <1>4, <1>5, <1>6, <2>1
<1> QED BY <1>0, <1>1, <1>8, WindowsClose

LEMMA WindowStep ==
    ASSUME TypeInv, LedgerInv, WindowInv, OpsNext
    PROVE  WindowInv'
<1>0. job \in [Proc -> Job] /\ snapshot \in Snapshot
  BY DEF TypeInv, OpsTypeOK
<1>1. ASSUME NEW p \in Proc, Quiet(p) PROVE WindowInv'
  <2>1. job'[p].at # "migrating" /\ \A q \in Proc \ {p} : job'[q] = job[q]
    BY <1>0, <1>1, GotoFacts DEF Quiet
  <2>2. /\ InOrder(snapshot'.done) /\ UNCHANGED <<done, ledger, broken>>
        /\ \A m : ~InWindow(p, m)
    BY <1>1, NoWindow DEF Quiet, WindowInv
  <2> QED BY <2>1, <2>2, NoWindowAfter
<1>2. ASSUME NEW p \in Proc, Dies(p) PROVE WindowInv'
  <2>1. job'[p].at # "migrating" /\ \A q \in Proc \ {p} : job'[q] = job[q]
    BY <1>0, <1>2, GotoFacts, Jobs DEF Dies
  <2>2. /\ InOrder(snapshot'.done) /\ UNCHANGED <<done, ledger>> /\ broken \subseteq broken'
        /\ \A m \in Migration : InWindow(p, m) => m \in broken'
    BY <1>2 DEF Dies, db, WindowInv
  <2> QED BY <2>1, <2>2, NoWindowAfter
<1>3. ASSUME NEW p \in Proc, CopiesOut(p) PROVE WindowInv'
  <2>1. job'[p].at # "migrating" /\ \A q \in Proc \ {p} : job'[q] = job[q]
    BY <1>0, <1>3, GotoFacts DEF CopiesOut
  <2>2. /\ InOrder(snapshot'.done) /\ UNCHANGED <<done, ledger, broken>>
        /\ ~At(p, "migrating")
    BY <1>3 DEF CopiesOut, db, WindowInv, At
  <2> QED BY <2>1, <2>2, NoWindow, NoWindowAfter
<1>4. ASSUME NEW p \in Proc, CopiesIn(p) PROVE WindowInv'
  <2>1. job' = [job EXCEPT ![p] = Start("restore", 1)]
    BY <1>4 DEF CopiesIn, Goto
  <2>2. \A q \in Proc : job'[q].at # "migrating"
    BY <1>0, <1>4, <2>1 DEF CopiesIn, At, Start
  <2>3. OneWindow'
    BY <2>2 DEF OneWindow, InWindow, At
  <2> QED BY <1>4, <2>3 DEF CopiesIn, WindowInv, HalfAppliedIsExplained
<1>5. ASSUME NEW p \in Proc, UNCHANGED <<snapshot, broken>>, ReadsLedger(p) PROVE WindowInv'
  <2> DEFINE j == [at |-> "migrating", cmd |-> job[p].cmd, runs |-> job[p].runs,
                   todo |-> Migration \ ledger, next |-> 1]
  <2>1. Goto(p, IF Migration \ ledger = {} THEN AfterRun(p) ELSE j)
    BY <1>5 DEF ReadsLedger
  <2>2. AfterRun(p).at # "migrating" /\ j.next = 1
    BY DEF AfterRun, Start
  <2>3. /\ job'[p].at # "migrating" \/ job'[p].next = 1
        /\ \A q \in Proc \ {p} : job'[q] = job[q]
    <3> HIDE DEF j
    <3> QED BY <1>0, <2>1, <2>2, GotoFacts
  <2>4. /\ InOrder(snapshot'.done) /\ UNCHANGED <<done, ledger>> /\ ~At(p, "migrating")
    BY <1>5 DEF ReadsLedger, WindowInv, At
  <2> QED BY <1>5, <2>3, <2>4, NoWindow, NoWindowAfter
<1>6. ASSUME NEW p \in Proc, UNCHANGED <<snapshot, broken>>, ColumnExists(p) PROVE WindowInv'
  <2>1. job'[p].at # "migrating" /\ \A q \in Proc \ {p} : job'[q] = job[q]
    BY <1>0, <1>6, GotoFacts, Jobs DEF ColumnExists
  <2>2. ASSUME NEW m \in Migration, InWindow(p, m) PROVE FALSE
    <3>1. /\ m = Current(p) /\ job[p].next \in DOMAIN Steps(m)
          /\ Steps(m)[job[p].next] = "once" /\ <<m, job[p].next>> \in done
      BY <1>6, <2>2 DEF ColumnExists, InWindow, Kind, Pending, TypeInv, OpsTypeOK
    <3>2. job[p].next >= job[p].next
      BY <2>2, <3>1, StepsFacts
    <3> QED BY <2>2, <3>1, <3>2 DEF WindowInv, OneWindow
  <2>3. InOrder(snapshot'.done) /\ UNCHANGED <<done, ledger>>
    BY <1>6 DEF ColumnExists, WindowInv
  <2> QED BY <1>6, <2>1, <2>2, <2>3, NoWindowAfter
<1> QED BY <1>1, <1>2, <1>3, <1>4, <1>5, <1>6, ExecutesWindow, MarksWindow, RunnerEffects

LEMMA WindowInit ==
    ASSUME OpsInit
    PROVE  WindowInv
<1>1. PICK k \in {0} \cup Migration :
         done = UNION {Change(m) : m \in 1..k} /\ ledger = 1..k
  BY DEF OpsInit
<1>2. \A m, i : <<m, i>> \in done => <<m, i>> \in Change(m) /\ m \in ledger
  BY <1>1 DEF Change
<1>3. \A m \in ledger : Change(m) \subseteq done
  BY <1>1
<1>4. InOrder(done)
  <2> SUFFICES ASSUME NEW m \in Migration, NEW i \in DOMAIN Steps(m), NEW j \in DOMAIN Steps(m),
                      Steps(m)[i] = "once", <<m, j>> \in done
               PROVE  <<m, i>> \in done
    BY DEF InOrder
  <2>1. <<m, i>> \in Change(m)
    BY ChangeFacts
  <2> QED BY <1>2, <1>3, <2>1
<1>5. \A p \in Proc : ~At(p, "migrating")
  BY Jobs DEF OpsInit, At
<1>6. HalfApplied(done, ledger) = {}
  <2> SUFFICES ASSUME NEW m \in Migration \ ledger, NEW t \in OnceOf(m), t \in done
               PROVE  FALSE
    BY DEF HalfApplied
  <2>1. PICK i \in DOMAIN Steps(m) : t = <<m, i>>
    BY ChangeFacts DEF OnceOf
  <2> QED BY <1>2, <2>1
<1> QED BY <1>4, <1>5, <1>6
        DEF OpsInit, Empty, WindowInv, InOrder, OneWindow, InWindow, HalfAppliedIsExplained

\* A migration that is applied in part, and cannot be applied again, is at that moment
\* being applied, or a crash or a snapshot fell between its script and its row
\* (db.py:140, db.py:141): two processes that start together never do it to each other.
THEOREM HalfAppliedHolds == OpsSpec => []HalfAppliedIsExplained
<1>1. ASSUME TypeInv, LedgerInv, WindowInv, [OpsNext]_opsVars
      PROVE  WindowInv'
  <2>1. CASE UNCHANGED opsVars
    <3>1. \A q \in Proc : \A m : InWindow(q, m)' <=> InWindow(q, m)
      BY <2>1, SameWindow DEF opsVars
    <3>2. UNCHANGED <<done, ledger, broken, snapshot, job>>
      BY <2>1 DEF opsVars, db
    <3> QED BY <1>1, <3>1, <3>2, WindowsClose DEF WindowInv
  <2> QED BY <1>1, <2>1, WindowStep
<1>2. WindowInv => HalfAppliedIsExplained
  BY DEF WindowInv
<1> QED BY <1>1, <1>2, WindowInit, TypeInvHolds, LedgerInvHolds, PTL DEF OpsSpec

-----------------------------------------------------------------------------
(***************************************************************************)
(* Seeds.                                                                  *)
(***************************************************************************)

\* A step of p, which is not indexing, that leaves rows and index alone
LEMMA SameRows ==
    ASSUME SeedsAreFindable, NEW p \in Proc, ~At(p, "indexing"),
           \A q \in Proc \ {p} : job'[q] = job[q], UNCHANGED <<rows, index, lost>>
    PROVE  SeedsAreFindable'
<1>1. \A q \in Proc \ {p} : Indexing(q)' = Indexing(q)
  BY DEF Indexing, At
<1>2. Indexing(p) = {}
  BY DEF Indexing
<1> QED BY <1>1, <1>2 DEF SeedsAreFindable

LEMMA SeedStep ==
    ASSUME TypeInv, SeedsAreFindable, OpsNext
    PROVE  SeedsAreFindable'
<1>0. job \in [Proc -> Job]
  BY DEF TypeInv, OpsTypeOK
<1>1. ASSUME NEW p \in Proc,
             \/ Begins(p) \/ Ends(p) \/ BeginsSeeding(p) \/ LooksUp(p) \/ PublishRaises(p)
             \/ BeginsReindex(p) \/ CopiesOut(p) \/ WritesManifest(p)
      PROVE  SeedsAreFindable'
  <2>1. ~At(p, "indexing") /\ UNCHANGED <<rows, index, lost>>
    BY <1>1 DEF Begins, Ends, BeginsSeeding, LooksUp, PublishRaises, BeginsReindex, CopiesOut,
                WritesManifest, db, At
  <2>2. \E j : Goto(p, j)
    <3>1. Begins(p) => \E j : Goto(p, j)
      BY DEF Begins
    <3> QED BY <1>1, <3>1 DEF Ends, BeginsSeeding, LooksUp, PublishRaises, BeginsReindex,
                              CopiesOut, WritesManifest
  <2> QED BY <1>0, <2>1, <2>2, GotoFacts, SameRows
<1>2. ASSUME NEW p \in Proc, Migrates(p) PROVE SeedsAreFindable'
  <2>1. ~At(p, "indexing") /\ UNCHANGED <<rows, index, lost>>
    BY <1>2 DEF Migrates, ReadsLedger, Executes, Marks, ColumnExists, At
  <2>2. \E j : Goto(p, j)
    BY <1>2 DEF Migrates, ReadsLedger, Executes, Marks, ColumnExists, Advance
  <2> QED BY <1>0, <2>1, <2>2, GotoFacts, SameRows
<1>3. ASSUME NEW p \in Proc, Publishes(p) PROVE SeedsAreFindable'
  <2>1. PICK r \in Row : rows' = rows \cup {r} /\ Goto(p, [at |-> "indexing", row |-> r])
    BY <1>3 DEF Publishes
  <2>2. /\ job'[p] = [at |-> "indexing", row |-> r]
        /\ \A q \in Proc \ {p} : job'[q] = job[q]
    BY <1>0, <2>1, GotoFacts
  <2>3. Indexing(p)' = {r} /\ Indexing(p) = {} /\ UNCHANGED <<index, lost>>
    BY <1>3, <2>2 DEF Publishes, Indexing, At
  <2>4. \A q \in Proc \ {p} : Indexing(q)' = Indexing(q)
    BY <2>2 DEF Indexing, At
  <2> QED BY <2>1, <2>3, <2>4 DEF SeedsAreFindable
<1>4. ASSUME NEW p \in Proc, Indexes(p) PROVE SeedsAreFindable'
  <2>1. \A q \in Proc \ {p} : Indexing(q)' = Indexing(q)
    BY <1>0, <1>4, GotoFacts DEF Indexes, Indexing, At
  <2>2. /\ Indexing(p) = {job[p].row} /\ index' = index \cup {job[p].row}
        /\ UNCHANGED <<rows, lost>>
    BY <1>4 DEF Indexes, Indexing
  <2> QED BY <2>1, <2>2 DEF SeedsAreFindable
<1>5. ASSUME NEW p \in Proc, Reindexes(p) PROVE SeedsAreFindable'
  <2>1. \A q \in Proc : Indexing(q)' = Indexing(q)
    <3>1. job[p] \in [at : {"reindexing"}, todo : SUBSET Row]
      BY <1>0, <1>5, JobFields DEF Reindexes
    <3>2. \E j : Goto(p, j) /\ j.at # "indexing"
      <4>1. \A T : [job[p] EXCEPT !.todo = T].at # "indexing"
        BY <3>1
      <4>2. Down.at # "indexing"
        BY Jobs
      <4> QED BY <1>5, <4>1, <4>2 DEF Reindexes
    <3>3. job'[p].at # "indexing" /\ \A q \in Proc \ {p} : job'[q] = job[q]
      BY <1>0, <3>2, GotoFacts
    <3> QED BY <3>1, <3>3 DEF Indexing, At
  <2>2. /\ UNCHANGED rows
        /\ \/ UNCHANGED <<index, lost>>
           \/ \E r : index' = index \cup {r} /\ lost' = lost \ {r}
    BY <1>5 DEF Reindexes
  <2> QED BY <2>1, <2>2 DEF SeedsAreFindable
<1>6. ASSUME NEW p \in Proc, CopiesIn(p) PROVE SeedsAreFindable'
  BY <1>6 DEF CopiesIn, SeedsAreFindable
<1>7. ASSUME NEW p \in Proc, Dies(p) \/ IndexRaises(p) PROVE SeedsAreFindable'
  <2>1. \A q \in Proc \ {p} : Indexing(q)' = Indexing(q)
    BY <1>0, <1>7, GotoFacts DEF Dies, IndexRaises, Indexing, At
  <2>2. lost' = lost \cup (Indexing(p) \ index) /\ UNCHANGED <<rows, index>>
    BY <1>7 DEF Dies, IndexRaises, db
  <2> QED BY <2>1, <2>2 DEF SeedsAreFindable
<1> QED BY <1>1, <1>2, <1>3, <1>4, <1>5, <1>6, <1>7 DEF OpsNext, Works

\* A seeded skill that search cannot find is about to be indexed, or indexing it raised,
\* or a crash or a snapshot fell between its row, committed by trust.record
\* (service.py:209, 217), and its index entry (218).
THEOREM SeedsStayFindable == OpsSpec => []SeedsAreFindable
<1>1. OpsInit => SeedsAreFindable
  BY DEF OpsInit, SeedsAreFindable
<1>2. ASSUME TypeInv, SeedsAreFindable, [OpsNext]_opsVars
      PROVE  SeedsAreFindable'
  <2>1. CASE UNCHANGED opsVars
    BY <1>2, <2>1 DEF opsVars, db, SeedsAreFindable, Indexing, At
  <2> QED BY <1>2, <2>1, SeedStep
<1> QED BY <1>1, <1>2, TypeInvHolds, PTL DEF OpsSpec

\* All files before the n-th have their skill.
Ahead(n) == \A m \in 1..(n - 1) : SeedFiles[m] \notin BadSeed /\ Published(m, rows)

OrderInv ==
    /\ SeedsComeInOrder
    /\ \A p \in Proc : At(p, "seeding") \/ At(p, "publishing") => Ahead(job[p].n)

\* The rows stay, and p goes no further than they allow.
LEMMA SameOrder ==
    ASSUME OrderInv, NEW p \in Proc, UNCHANGED rows, snapshot'.rows \in {rows, snapshot.rows},
           \A q \in Proc \ {p} : job'[q] = job[q],
           job'[p].at \in {"seeding", "publishing"} => Ahead(job'[p].n)
    PROVE  OrderInv'
<1>1. SeedsComeInOrder'
  BY DEF OrderInv, SeedsComeInOrder, Published
<1>2. ASSUME NEW q \in Proc, At(q, "seeding")' \/ At(q, "publishing")' PROVE Ahead(job'[q].n)
  BY <1>2 DEF OrderInv, At
<1>3. \A n : Ahead(n)' <=> Ahead(n)
  BY DEF Ahead, Published
<1> QED BY <1>1, <1>2, <1>3 DEF OrderInv, Ahead, Published

LEMMA SeedingFacts ==
    ASSUME NEW n, Seeding(n).at \in {"seeding", "publishing"}
    PROVE  Seeding(n).n = n
BY DEF Seeding, Down

LEMMA RowsAreNumbered == \A r \in Row : r[1] \in Nat \ {0} /\ r[1] \in 1..r[1]
BY DEF Row, SeedNo

\* A seed whose skill is there was not bad: whoever looks it up may go on.
LEMMA OneFurther ==
    ASSUME SeedsComeInOrder, rows \subseteq Row, NEW n \in Nat, Ahead(n),
           NEW r \in rows, SeedFiles[r[1]] = SeedFiles[n]
    PROVE  Ahead(n + 1)
<1>1. SeedFiles[n] \notin BadSeed /\ Published(n, rows)
  BY RowsAreNumbered DEF SeedsComeInOrder, Published
<1>2. \A m \in 1..((n + 1) - 1) : m \in 1..(n - 1) \/ m = n
  OBVIOUS
<1> QED BY <1>1, <1>2 DEF Ahead

\* What follows a seed that is published
LEMMA BehindRow ==
    ASSUME SeedsComeInOrder, rows \subseteq Row, NEW r \in rows
    PROVE  Ahead(r[1] + 1)
<1>1. (r[1] + 1) - 1 = r[1]
  BY RowsAreNumbered
<1> QED BY <1>1 DEF Ahead, SeedsComeInOrder

LEMMA OrderStep ==
    ASSUME TypeInv, OrderInv, OpsNext
    PROVE  OrderInv'
<1>0. job \in [Proc -> Job] /\ rows \subseteq Row /\ snapshot \in Snapshot
  BY DEF TypeInv, OpsTypeOK
<1>1. ASSUME NEW p \in Proc, NEW j, Goto(p, j), j.at \notin {"seeding", "publishing"},
             UNCHANGED rows, snapshot'.rows \in {rows, snapshot.rows}
      PROVE  OrderInv'
  BY <1>0, <1>1, GotoFacts, SameOrder
<1>2. ASSUME NEW p \in Proc,
             \/ Ends(p) \/ Dies(p) \/ PublishRaises(p) \/ BeginsReindex(p) \/ IndexRaises(p)
             \/ CopiesOut(p) \/ WritesManifest(p)
      PROVE  OrderInv'
  <2>1. /\ UNCHANGED rows
        /\ snapshot'.rows \in {rows, snapshot.rows}
    BY <1>0, <1>2 DEF Ends, Dies, PublishRaises, BeginsReindex, IndexRaises, CopiesOut,
                      WritesManifest, db, Snapshot
  <2>2. \E j : Goto(p, j) /\ j.at \notin {"seeding", "publishing"}
    BY <1>2, Jobs DEF Ends, Dies, PublishRaises, BeginsReindex, IndexRaises, CopiesOut,
                      WritesManifest
  <2> QED BY <1>1, <2>1, <2>2
<1>3. ASSUME NEW p \in Proc, Begins(p) PROVE OrderInv'
  <2>1. \E j : Goto(p, j) /\ j.at \in {"starting", "backup", "restore"}
    <3>1. CASE p \in Service
      BY <1>3, <3>1 DEF Begins, Start
    <3>2. CASE p \notin Service
      BY <1>3, <3>2 DEF Begins, Start
    <3> QED BY <3>1, <3>2
  <2> QED BY <1>1, <1>3, <2>1 DEF Begins, db
<1>4. ASSUME NEW p \in Proc, Migrates(p) PROVE OrderInv'
  <2>1. UNCHANGED <<rows, snapshot>>
    BY <1>4 DEF Migrates
  <2>2. /\ job'[p].at \in {"migrating", "starting", "ready", "down"}
        /\ \A q \in Proc \ {p} : job'[q] = job[q]
    <3>1. CASE ReadsLedger(p)
      <4> DEFINE j == [at |-> "migrating", cmd |-> job[p].cmd, runs |-> job[p].runs,
                       todo |-> Migration \ ledger, next |-> 1]
      <4>1. Goto(p, IF Migration \ ledger = {} THEN AfterRun(p) ELSE j)
        BY <3>1 DEF ReadsLedger
      <4>2. AfterRun(p).at \in {"starting", "ready"} /\ j.at = "migrating"
        BY DEF AfterRun, Start
      <4> HIDE DEF j
      <4> QED BY <1>0, <4>1, <4>2, GotoFacts
    <3>2. CASE Executes(p) \/ Marks(p)
      <4>1. At(p, "migrating") /\ Advance(p) /\ PositionsOK
        BY <3>2 DEF Executes, Marks, TypeInv, OpsTypeOK, PositionsOK
      <4> QED BY <1>0, <4>1, AdvanceFacts
    <3>3. CASE ColumnExists(p)
      BY <1>0, <3>3, GotoFacts, Jobs DEF ColumnExists
    <3> QED BY <1>4, <3>1, <3>2, <3>3 DEF Migrates
  <2> QED BY <2>1, <2>2, SameOrder
<1>5. ASSUME NEW p \in Proc, Reindexes(p) PROVE OrderInv'
  <2>1. job[p] \in [at : {"reindexing"}, todo : SUBSET Row]
    BY <1>0, <1>5, JobFields DEF Reindexes
  <2>2. \A T : [job[p] EXCEPT !.todo = T].at \notin {"seeding", "publishing"}
    BY <2>1
  <2>3. \E j : Goto(p, j) /\ j.at \notin {"seeding", "publishing"}
    BY <1>5, <2>2, Jobs DEF Reindexes
  <2> QED BY <1>1, <1>5, <2>3 DEF Reindexes
<1>6. ASSUME NEW p \in Proc, NEW n, Goto(p, Seeding(n)), Ahead(n), UNCHANGED <<rows, snapshot>>
      PROVE  OrderInv'
  BY <1>0, <1>6, GotoFacts, SeedingFacts, SameOrder
<1>7. ASSUME NEW p \in Proc, BeginsSeeding(p) PROVE OrderInv'
  <2>1. Ahead(1)
    BY DEF Ahead
  <2> QED BY <1>6, <1>7, <2>1 DEF BeginsSeeding, db
<1>8. ASSUME NEW p \in Proc, LooksUp(p) PROVE OrderInv'
  <2>1. /\ job[p].n \in Nat /\ Ahead(job[p].n) /\ SeedsComeInOrder
    BY <1>0, <1>8, JobFields DEF LooksUp, OrderInv, SeedNo
  <2>2. CASE \E r \in rows : SeedFiles[r[1]] = SeedFiles[job[p].n]
    <3>1. Ahead(job[p].n + 1)
      BY <1>0, <2>1, <2>2, OneFurther
    <3>2. Goto(p, Seeding(job[p].n + 1))
      BY <1>8, <2>2 DEF LooksUp
    <3> QED BY <1>6, <1>8, <3>1, <3>2 DEF LooksUp, db
  <2>3. CASE ~\E r \in rows : SeedFiles[r[1]] = SeedFiles[job[p].n]
    <3>1. Goto(p, [at |-> "publishing", n |-> job[p].n])
      BY <1>8, <2>3 DEF LooksUp
    <3>2. job'[p].n = job[p].n /\ \A q \in Proc \ {p} : job'[q] = job[q]
      BY <1>0, <3>1, GotoFacts
    <3> QED BY <1>8, <2>1, <3>2, SameOrder DEF LooksUp, db
  <2> QED BY <2>2, <2>3
<1>9. ASSUME NEW p \in Proc, Publishes(p) PROVE OrderInv'
  <2>1. PICK r \in Row : /\ r[1] = job[p].n /\ rows' = rows \cup {r}
                         /\ Goto(p, [at |-> "indexing", row |-> r])
    BY <1>9 DEF Publishes
  <2>2. Ahead(r[1]) /\ SeedFiles[r[1]] \notin BadSeed /\ snapshot' = snapshot
    BY <1>9, <2>1 DEF Publishes, OrderInv
  <2>3. \A m : Published(m, rows) => Published(m, rows')
    BY <2>1 DEF Published
  <2>4. ASSUME NEW m \in 1..r[1] PROVE SeedFiles[m] \notin BadSeed /\ Published(m, rows')
    <3>1. CASE m = r[1]
      BY <2>1, <2>2, <3>1 DEF Published
    <3>2. CASE m # r[1]
      <4>1. m \in 1..(r[1] - 1)
        BY <3>2, RowsAreNumbered
      <4> QED BY <2>2, <2>3, <4>1 DEF Ahead
    <3> QED BY <3>1, <3>2
  <2>5. ASSUME NEW t \in rows', NEW m \in 1..t[1]
        PROVE  SeedFiles[m] \notin BadSeed /\ Published(m, rows')
    <3>1. CASE t \in rows
      BY <2>3, <2>5, <3>1 DEF OrderInv, SeedsComeInOrder
    <3>2. CASE t = r
      BY <2>4, <2>5, <3>2
    <3> QED BY <2>1, <3>1, <3>2
  <2>6. SeedsComeInOrder'
    BY <2>2, <2>5 DEF OrderInv, SeedsComeInOrder, Published
  <2>7. /\ job'[p].at = "indexing" /\ \A q \in Proc \ {p} : job'[q] = job[q]
    BY <1>0, <2>1, GotoFacts
  <2>8. \A n : Ahead(n) => Ahead(n)'
    BY <2>1 DEF Ahead, Published
  <2>9. ASSUME NEW q \in Proc, At(q, "seeding")' \/ At(q, "publishing")'
        PROVE  Ahead(job[q].n) /\ job'[q] = job[q]
    BY <2>7, <2>9 DEF OrderInv, At
  <2> QED BY <2>1, <2>6, <2>9 DEF OrderInv, Ahead, Published
<1>10. ASSUME NEW p \in Proc, Indexes(p) PROVE OrderInv'
  <2>1. job[p].row \in rows
    BY <1>10 DEF Indexes, TypeInv, RowsOK
  <2>2. Ahead(job[p].row[1] + 1)
    BY <1>0, <2>1, BehindRow DEF OrderInv
  <2> QED BY <1>6, <1>10, <2>2 DEF Indexes
<1>11. ASSUME NEW p \in Proc, CopiesIn(p) PROVE OrderInv'
  <2>1. job' = [job EXCEPT ![p] = Start("restore", 1)]
    BY <1>11 DEF CopiesIn, Goto
  <2>2. \A q \in Proc : job'[q].at \in {"down", "starting"}
    BY <1>0, <1>11, <2>1 DEF CopiesIn, At, Start
  <2>3. rows' = snapshot.rows /\ snapshot' = snapshot
    BY <1>11 DEF CopiesIn
  <2>4. SeedsComeInOrder'
    BY <2>3 DEF OrderInv, SeedsComeInOrder, Published
  <2> QED BY <2>2, <2>4 DEF OrderInv, At
<1> QED BY <1>2, <1>3, <1>4, <1>5, <1>7, <1>8, <1>9, <1>10, <1>11 DEF OpsNext, Works

\* Any number of seed runs, overlapping or cut short by a seed that raises (seed.py:184),
\* by a crash or by a restore, publish the seeds in the order of their files: none is
\* there without those before it, and none behind a bad one.
THEOREM SeedsStayInOrder == OpsSpec => []SeedsComeInOrder
<1>1. OpsInit => OrderInv
  BY Jobs DEF OpsInit, OrderInv, SeedsComeInOrder, Empty, At
<1>2. ASSUME TypeInv, OrderInv, [OpsNext]_opsVars
      PROVE  OrderInv'
  <2>1. CASE UNCHANGED opsVars
    BY <1>2, <2>1 DEF opsVars, db, OrderInv, SeedsComeInOrder, Published, Ahead, At
  <2> QED BY <1>2, <2>1, OrderStep
<1>3. OrderInv => SeedsComeInOrder
  BY DEF OrderInv
<1> QED BY <1>1, <1>2, <1>3, TypeInvHolds, PTL DEF OpsSpec
=============================================================================
