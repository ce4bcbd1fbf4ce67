---------------------------- MODULE Connections -----------------------------
(***************************************************************************)
(* The registry as the threads of one process run it over SQLite           *)
(* (skill_vault/db.py): db_lock serialises the calls, every thread has a   *)
(* connection of its own, the vector store has one more, and the process   *)
(* may die.                                                                *)
(*                                                                         *)
(* The database variables of Registry are what the connection with an open *)
(* transaction sees; saved is what the other connections, and the next     *)
(* process, see.  A call that raises leaves the transaction of its thread  *)
(* open, for nobody rolls back, and an open transaction that has written   *)
(* holds the write lock of the file.  The calls of the other threads wait  *)
(* for busy_timeout and raise, and that leaves a mark on their connections *)
(* too, which follows what Python's sqlite3 does around a statement:       *)
(*    "idle"    no transaction                                             *)
(*    "open"    a write was refused after the implicit BEGIN               *)
(*    "pinned"  such a transaction has read since, and keeps its snapshot  *)
(*    "stale"   and the file has changed since: every write is refused     *)
(* Only a commit of its own, or a restart, makes a connection idle again.  *)
(*                                                                         *)
(* With StoreSharesDb the store is SqliteVecStore in the same file, the    *)
(* default: its one connection, used by all threads, needs the same lock.  *)
(* The store raises for no other reason here.                              *)
(***************************************************************************)
EXTENDS Registry

CONSTANTS
    Thread,         \* the worker threads of the process
    NoThread,       \* nobody has the write lock
    Store,          \* stands for the store among the connections
    StoreSharesDb,  \* VECTOR_BACKEND=sqlite_vec
    MayCrash        \* the process may die

ASSUME ConnectionsAssumption ==
    /\ NoThread \notin Thread
    /\ Store \notin Thread
    /\ StoreSharesDb \in BOOLEAN
    /\ MayCrash \in BOOLEAN
    /\ StoreMayFail     \* IndexVersion and ReplaceInIndex have all their outcomes

VARIABLES
    saved,     \* the committed rows
    holder,    \* the thread whose open transaction has the write lock
    conn,      \* the state of every other connection ("idle" for the holder's)
    promised   \* the versions whose publish or update has returned "ok" and
               \* that no delete has removed yet (no state of the code)

rows == <<agents, supers, skill, versions, files, hash, trust>>
connVars == <<vars, saved, holder, conn, promised>>

Connection == Thread \cup {Store}

Rows == [agents |-> agents, supers |-> supers, skill |-> skill, versions |-> versions,
         files |-> files, hash |-> hash, trust |-> trust]

\* The registry a restart would find.
Saved == INSTANCE Registry WITH
    agents <- saved.agents, supers <- saved.supers, skill <- saved.skill,
    versions <- saved.versions, files <- saved.files, hash <- saved.hash,
    trust <- saved.trust

-----------------------------------------------------------------------------
(***************************************************************************)
(* Connections.                                                            *)
(***************************************************************************)

\* Thread t can write: no other connection holds the lock, and its snapshot, if
\* it has one, is the newest.
MayWrite(t) == holder \in {NoThread, t} /\ conn[t] # "stale"

\* A connection after a commit of another one
AfterCommit(c) == IF c = "pinned" THEN "stale" ELSE c

\* ... after a read of its own
AfterRead(c) == IF c = "open" THEN "pinned" ELSE c

\* ... after a write of its own that was refused
AfterRefusal(c) == IF c = "idle" THEN "open" ELSE AfterRead(c)

\* All connections after a commit of the ones in C
AfterCommitOf(C) == [c \in Connection |-> IF c \in C THEN "idle" ELSE AfterCommit(conn[c])]

\* Mutants of Commit: rows are written, and acknowledged, but not committed; the
\* connection is given up with its transaction.
LeaveOpen(t) ==
    /\ holder' = t
    /\ UNCHANGED saved

GiveUp(t) ==
    /\ holder' = NoThread
    /\ UNCHANGED saved

Commit(t) ==
    /\ saved' = Rows'
    /\ holder' = NoThread

\* The call raises with its transaction open.
LeftOpen(t) ==
    /\ holder' = t
    /\ conn' = [conn EXCEPT ![t] = "idle"]

-----------------------------------------------------------------------------
(***************************************************************************)
(* Calls that do not touch the store.                                      *)
(***************************************************************************)

\* Any call with an agent key first notes last_used_at, and commits.
Resolve(t) ==
    /\ MayWrite(t)
    /\ UNCHANGED <<vars, promised>>
    /\ Commit(t)
    /\ conn' = AfterCommitOf({t})

\* The first write of a call is refused.
LockedOut(t) ==
    /\ ~MayWrite(t)
    /\ conn' = [conn EXCEPT ![t] = AfterRefusal(conn[t])]
    /\ UNCHANGED <<vars, saved, holder, promised>>

\* get and the listings of a guest, or of the dashboard
ReadCall(t) ==
    /\ conn' = [conn EXCEPT ![t] = AfterRead(conn[t])]
    /\ UNCHANGED <<vars, saved, holder, promised>>

PlainCall(t) ==
    /\ MayWrite(t)
    /\ \/ \E a \in Agent : CreateAgent(a) \/ \E on \in BOOLEAN : SetSuperAgent(a, on)
       \/ \E v \in VersionId, f \in File : AddSkillFile(v, f) \/ DeleteSkillFile(v, f)
    /\ Commit(t)
    /\ conn' = AfterCommitOf({t})
    /\ promised' = promised \cap versions'

\* A publish whose name is taken raises at its first INSERT, after BEGIN.
PublishNameClash(t) ==
    /\ MayWrite(t)
    /\ \E a \in agents : SkillsOf(a) # {}
    /\ LeftOpen(t)
    /\ UNCHANGED <<vars, saved, promised>>

RaisingCall(t) ==
    /\ MayWrite(t)
    /\ \E a \in Agent, s \in Skill, nm \in Name :
          \/ \E vis \in Visibility, F, stored \in SUBSET File :
                PublishFileClash(a, s, vis, nm, F, stored)
          \/ \E n \in VersionNo, u \in Upload : UpdateNameClash(a, s, n, nm, u)
          \/ \E n \in VersionNo, F, stored \in SUBSET File :
                UpdateFileClash(a, s, n, F, stored)
    /\ LeftOpen(t)
    /\ UNCHANGED <<saved, promised>>

-----------------------------------------------------------------------------
(***************************************************************************)
(* Calls that index: trust.record has committed before the store is asked. *)
(***************************************************************************)

IndexingCall ==
    \E a \in Agent, s \in Skill, nm \in Name, u \in Upload :
        \/ \E vis \in Visibility : Publish(a, s, vis, nm, u)
        \/ \E n \in VersionNo : Update(a, s, n, nm, u)

\* The versions that are released once the call is done
Released == {v \in VersionId : Exists(v[1]) /\ v[2] = skill[v[1]].current}

WriteCall(t) ==
    /\ MayWrite(t)
    /\ AfterCommit(conn[Store]) # "stale"
    /\ IndexingCall
    /\ index' = (index \cup (Released' \ Released)) \ (Released \ Released')
    /\ Commit(t)
    /\ conn' = AfterCommitOf({t, Store})
    /\ promised' = promised \cup (Released' \ Released)

\* The store refuses: the rows are committed all the same.
WriteCallUnindexed(t) ==
    /\ MayWrite(t)
    /\ AfterCommit(conn[Store]) = "stale"
    /\ IndexingCall
    /\ UNCHANGED index
    /\ Commit(t)
    /\ conn' = AfterCommitOf({t})
    /\ UNCHANGED promised

-----------------------------------------------------------------------------
(***************************************************************************)
(* Calls that remove: for every version, the store's entry and then the    *)
(* trust row, whose DELETE takes the lock of the file.                     *)
(***************************************************************************)

Before(v) == {w \in VersionsOf(v[1]) : w[2] < v[2]}

\* The store refuses to remove v, the skills of S being done by this call
Refused(t, S, v) ==
    /\ StoreSharesDb
    /\ v \in index
    /\ S # {} \/ Before(v) # {} \/ holder # NoThread \/ conn[Store] = "stale"

Passes(t, S, s) == \A v \in VersionsOf(s) : ~Refused(t, S, v)

\* The skills of S are removed one after the other.
AllPass(t, S) ==
    S # {} => \E first \in S : /\ Passes(t, {}, first)
                               /\ \A s \in S \ {first} : Passes(t, {first}, s)

FirstRefusal(t, S, v) ==
    /\ AllPass(t, S)
    /\ Refused(t, S, v)
    /\ \A w \in Before(v) : ~Refused(t, S, w)

\* What the store commits in the same file does not overtake t's snapshot.
KeepsUp(t) == StoreSharesDb /\ index' # index => holder = t \/ conn[t] = "idle"

RemovingCall(t) ==
    /\ MayWrite(t)
    /\ \/ \E a \in Agent, u \in User : DeleteAgent(a, u) /\ AllPass(t, SkillsOf(a))
       \/ \E a \in Agent, s \in Skill : Delete(a, s) /\ Passes(t, {}, s)
    /\ KeepsUp(t)
    /\ Commit(t)
    /\ conn' = IF index' # index THEN AfterCommitOf({t, Store})
               ELSE [AfterCommitOf({t}) EXCEPT ![Store] =
                        AfterCommit(IF versions' # versions THEN AfterRead(@) ELSE @)]
    /\ promised' = promised \cap versions'

RemovingCallRefused(t) ==
    /\ MayWrite(t)
    /\ \E S \in SUBSET Skill, v \in versions :
          /\ \E a \in Agent :
                \/ S = {} /\ skill[v[1]].owner = a /\ a \in agents
                \/ /\ S \subseteq SkillsOf(a) /\ v[1] \in SkillsOf(a)
                   /\ \E u \in User : MayDeleteAgent(a, u)
          /\ FirstRefusal(t, S, v)
          /\ RemoveContentStopsAt(S, v)
          /\ KeepsUp(t)
          /\ IF S # {} \/ Before(v) # {} THEN holder' = t ELSE UNCHANGED holder
          /\ conn' = IF index' # index
                     THEN [AfterCommitOf({t, Store}) EXCEPT ![Store] = "open"]
                     ELSE [conn EXCEPT ![Store] = AfterRefusal(@),
                                       ![t] = IF holder' = t THEN "idle" ELSE AfterRead(@)]
    /\ promised' = promised \cap versions'
    /\ UNCHANGED <<agents, supers, saved>>

\* The DELETE of the first trust row is not allowed, or no more: the store's
\* write may have been refused before, or done.
RemovingCallLockedOut(t) ==
    /\ \E s \in Skill :
          LET found == <<s, 1>> \in index
          IN  /\ Saved!Exists(s)
              /\ \/ /\ ~found /\ ~MayWrite(t)
                    /\ conn' = [conn EXCEPT ![t] = AfterRefusal(@), ![Store] = AfterRead(@)]
                    /\ UNCHANGED index
                 \/ /\ found /\ StoreSharesDb /\ ~MayWrite(t)
                    /\ holder # NoThread \/ conn[Store] = "stale"
                    /\ conn' = [conn EXCEPT ![t] = AfterRead(@), ![Store] = AfterRefusal(@)]
                    /\ UNCHANGED index
                 \/ /\ found /\ StoreSharesDb
                    /\ holder = NoThread /\ conn[t] # "idle" /\ conn[Store] # "stale"
                    /\ conn' = [AfterCommitOf({Store}) EXCEPT ![t] = "stale"]
                    /\ index' = index \ {<<s, 1>>}
                 \/ /\ found /\ ~StoreSharesDb /\ ~MayWrite(t)
                    /\ conn' = [conn EXCEPT ![t] = AfterRefusal(@)]
                    /\ index' = index \ {<<s, 1>>}
    /\ UNCHANGED <<rows, saved, holder, promised>>

\* search reads both databases
Search(t) ==
    /\ conn' = [conn EXCEPT ![t] = AfterRead(@), ![Store] = AfterRead(@)]
    /\ UNCHANGED <<vars, saved, holder, promised>>

-----------------------------------------------------------------------------
(***************************************************************************)
(* The process dies and is started again.                                  *)
(***************************************************************************)

Restore ==
    /\ agents' = saved.agents
    /\ supers' = saved.supers
    /\ skill' = saved.skill
    /\ versions' = saved.versions
    /\ files' = saved.files
    /\ hash' = saved.hash
    /\ trust' = saved.trust
    /\ UNCHANGED saved

\* ... between two calls, or in one that has committed nothing
Crash ==
    /\ Restore
    /\ UNCHANGED index

\* Mutants of the two actions below: every version is committed on its own; the
\* store is asked before the rows are committed.
CrashBetweenVersions ==
    /\ \E s \in Skill, n \in VersionNo :
          /\ index' = {v \in index : v[1] = s => v[2] > n}
          /\ versions' = {v \in saved.versions : v[1] = s => v[2] > n}
    /\ agents' = saved.agents
    /\ supers' = saved.supers
    /\ skill' = saved.skill
    /\ files' = saved.files
    /\ hash' = saved.hash
    /\ trust' = saved.trust
    /\ saved' = Rows'

CrashAfterIndexing ==
    /\ \E v \in VersionId : index' = index \cup {v}
    /\ Restore

\* ... while versions are removed: the store's part is done for the first ones.
CrashInRemoval ==
    /\ \E s \in Skill, n \in VersionNo :
          /\ StoreSharesDb => n = 1 /\ holder = NoThread /\ conn[Store] # "stale"
          /\ index' = {v \in index : v[1] = s => v[2] > n}
    /\ Restore

\* ... after trust.record has committed, before, between or after the store's
\* writes
CrashInWrite ==
    /\ IndexingCall
    /\ AfterCommit(conn[Store]) = "stale" => UNCHANGED index
    /\ saved' = Rows'

-----------------------------------------------------------------------------

ConnInit ==
    /\ Init
    /\ saved = Rows
    /\ holder = NoThread
    /\ conn = [c \in Connection |-> "idle"]
    /\ promised = {}

\* A worker thread runs a handler of the dashboard, or a tool, under locked(); or
\* the process dies.
ConnNext ==
    \/ \E t \in Thread :
          \/ Resolve(t)
          \/ LockedOut(t)
          \/ ReadCall(t)
          \/ PlainCall(t)
          \/ PublishNameClash(t)
          \/ RaisingCall(t)
          \/ WriteCall(t)
          \/ WriteCallUnindexed(t)
          \/ RemovingCall(t)
          \/ RemovingCallRefused(t)
          \/ RemovingCallLockedOut(t)
          \/ Search(t)
    \/ /\ MayCrash
       /\ Crash \/ CrashInRemoval \/ CrashInWrite
       /\ holder' = NoThread
       /\ conn' = [c \in Connection |-> "idle"]
       /\ UNCHANGED promised

ConnSpec == ConnInit /\ [][ConnNext]_connVars

-----------------------------------------------------------------------------
(***************************************************************************)
(* Properties.                                                             *)
(***************************************************************************)

\* The rows of the open transaction and of the file have the schema's types, and
\* without an open transaction they are the same.
ConnTypeOK ==
    /\ TypeOK
    /\ Saved!TypeOK
    /\ holder \in Thread \cup {NoThread}
    /\ holder = NoThread => saved = Rows
    /\ conn \in [Connection -> {"idle", "open", "pinned", "stale"}]
    /\ holder # NoThread => conn[holder] = "idle"
    /\ promised \subseteq VersionId

\* The vector store commits on its own, before or after the rows: whenever the
\* process dies, it holds no version the restarted registry does not have.
IndexWithinSaved == index \subseteq saved.versions

\* A version whose publish or update returned "ok" survives any crash, until a
\* delete removes it.
PromisesKept == promised \subseteq saved.versions

\* A restart finds tables that fit together and owners for all private skills,
\* whatever raised or died before.
RestartIsSound ==
    /\ Saved!CurrentIsAVersion
    /\ Saved!VersionsHaveNoGap
    /\ Saved!OwnersLive

\* While no transaction is open, the owner of a skill can delete it.
OwnerCanDelete ==
    holder = NoThread =>
        \A s \in Skill, t \in Thread : Exists(s) => Passes(t, {}, s)
=============================================================================
