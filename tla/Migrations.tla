----------------------------- MODULE Migrations -----------------------------
(***************************************************************************)
(* The forward-only migration runner (run_migrations, skill_vault/db.py),  *)
(* as several processes run it over one database file.                     *)
(*                                                                         *)
(* executescript commits what is pending and then runs each statement of a *)
(* script in a transaction of its own; the row of the ledger is inserted   *)
(* after the script, and is committed by the next executescript or at the  *)
(* end.  So other processes, and a crash, may come between any two         *)
(* statements, and between a script and its row.                           *)
(***************************************************************************)
EXTENDS Naturals, Sequences

CONSTANTS
    Proc,     \* the processes
    Script    \* Script[m] lists the statements of migration m, as
              \*   "again"  one that can be repeated: IF NOT EXISTS, or the rebuild of
              \*            a table between BEGIN and COMMIT
              \*   "once"   ALTER TABLE ... ADD COLUMN, which raises the second time
              \*   "mark"   INSERT OR IGNORE of its own row of the ledger

Migration == DOMAIN Script

ASSUME MigrationsAssumption ==
    /\ Script \in Seq(Seq({"again", "once", "mark"}))
    /\ \A m \in Migration : \A i \in DOMAIN Script[m] :
          Script[m][i] = "mark" => i = Len(Script[m])

VARIABLES
    done,      \* the statements whose effect is in the database
    ledger,    \* rows of schema_migrations
    job        \* what each process is doing

\* The five scripts of migrations/, a line of repeatable statements as one
SkillVaultScript ==
    << <<"again", "mark">>, <<"again", "once", "again">>, <<"again">>, <<"once">>, <<"again">> >>

\* Mutant of Steps: the row of the ledger is inserted first.
MarkFirst(m) == <<"mark">> \o Script[m]

\* What the runner executes for a migration
Steps(m) == Append(Script[m], "mark")

Statement == UNION {{m} \X DOMAIN Steps(m) : m \in Migration}

Change(m) == {s \in Statement : s[1] = m /\ Steps(m)[s[2]] # "mark"}

OnceOf(m) == {s \in Change(m) : Steps(m)[s[2]] = "once"}

Applied(m, D) == Change(m) \subseteq D

\* Half applied for good, unless the process that is at it goes on
HalfApplied(D, L) == {m \in Migration \ L : OnceOf(m) \cap D # {}}

At(p, place) == job[p].at = place

Goto(p, j) == job' = [job EXCEPT ![p] = j]

Down == [at |-> "down"]

\* Process p runs the migrations that many times more, and is then ready for its command.
Start(cmd, runs) == [at |-> "starting", cmd |-> cmd, runs |-> runs]

AfterRun(p) == IF job[p].runs > 1 THEN Start(job[p].cmd, job[p].runs - 1)
               ELSE [at |-> "ready", cmd |-> job[p].cmd]

\* The pending migrations are what the ledger lacks now; a database of another
\* process may be ahead of that soon.
ReadsLedger(p) ==
    /\ At(p, "starting")
    /\ LET pending == Migration \ ledger IN
       Goto(p, IF pending = {} THEN AfterRun(p)
               ELSE [at |-> "migrating", cmd |-> job[p].cmd, runs |-> job[p].runs,
                     todo |-> pending, next |-> 1])
    /\ UNCHANGED <<done, ledger>>

Lowest(todo) == CHOOSE m \in todo : \A n \in todo : m <= n

Current(p) == Lowest(job[p].todo)

\* Mutant of Advance: the next script starts where the last one ended.
AdvanceOn(p) ==
    LET m == Current(p) IN
    Goto(p, IF job[p].next < Len(Steps(m)) THEN [job[p] EXCEPT !.next = @ + 1]
            ELSE IF job[p].todo = {m} THEN AfterRun(p)
            ELSE [job[p] EXCEPT !.todo = @ \ {m}])

Advance(p) ==
    LET m == Current(p) IN
    Goto(p, IF job[p].next < Len(Steps(m)) THEN [job[p] EXCEPT !.next = @ + 1]
            ELSE IF job[p].todo = {m} THEN AfterRun(p)
            ELSE [job[p] EXCEPT !.todo = @ \ {m}, !.next = 1])

Pending(p) == <<Current(p), job[p].next>>

Kind(p) == Steps(Current(p))[job[p].next]

Executes(p) ==
    /\ At(p, "migrating") /\ Kind(p) # "mark"
    /\ Kind(p) = "once" => Pending(p) \notin done
    /\ done' = done \cup {Pending(p)}
    /\ Advance(p)
    /\ UNCHANGED ledger

\* Mutant of Marks: the row is inserted, but not committed.
MarksOnly(p) ==
    /\ At(p, "migrating") /\ Kind(p) = "mark"
    /\ Advance(p)
    /\ UNCHANGED <<done, ledger>>

Marks(p) ==
    /\ At(p, "migrating") /\ Kind(p) = "mark"
    /\ ledger' = ledger \cup {Current(p)}
    /\ Advance(p)
    /\ UNCHANGED done

\* duplicate column name: run_migrations raises, and the process ends.
ColumnExists(p) ==
    /\ At(p, "migrating") /\ Kind(p) = "once"
    /\ Pending(p) \in done
    /\ Goto(p, Down)
    /\ UNCHANGED <<done, ledger>>

\* Process p has run a statement that cannot be repeated, and not yet inserted the row.
InWindow(p, m) ==
    /\ At(p, "migrating") /\ m = Current(p)
    /\ \E i \in 1..(job[p].next - 1) : Steps(m)[i] = "once"
=============================================================================
