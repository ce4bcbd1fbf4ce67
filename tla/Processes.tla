----------------------------- MODULE Processes ------------------------------
(***************************************************************************)
(* The life of one skill in a registry that several processes serve: the   *)
(* MCP server, the dashboard and the command line share the database file, *)
(* but db_lock (skill_vault/db.py) only serialises the calls of one        *)
(* process.  A process makes one call at a time, statement by statement;   *)
(* reads outside a transaction see the newest commit, and what a call      *)
(* writes in one transaction becomes visible in one step.                  *)
(*                                                                         *)
(* The vector store has a database of its own and does not fail.  A write  *)
(* that raises leaves the transaction of its process open, with the lock   *)
(* if it had it, until another call of the process commits.  What a        *)
(* connection without the lock reads afterwards may be an old snapshot; it *)
(* can then write nothing, which the refused writes below include.  Those  *)
(* reads, and a store in the same file, are the subject of module          *)
(* Connections.  A payload is the set of attached files: name, body and    *)
(* tags of a version never change.                                         *)
(***************************************************************************)
EXTENDS Naturals

CONSTANTS
    Proc,           \* the processes
    NoProc,
    File,           \* stored names of attached files
    MaxVersion      \* bound on the version numbers

ASSUME ProcessesAssumption ==
    /\ NoProc \notin Proc
    /\ MaxVersion \in Nat \ {0}

VARIABLES
    status,    \* the row of skills: not yet there, there, gone
    current,   \* skills.current_version_id, 0 for NULL
    versions,  \* the version numbers in skill_versions
    files,     \* the attached files of each version
    hash,      \* the payload each content_hash was computed from
    index,     \* the versions in the vector store
    dropped,   \* versions a delete has taken from the store (no state of the code)
    late,      \* versions that a delete could not know of when they got into the
               \* store (no state of the code either)
    lock,      \* the process whose transaction has the write lock
    call       \* what each process is doing, and has read

db == <<status, current, versions, files, hash>>
store == <<index, dropped, late>>
procVars == <<db, store, lock, call>>

-----------------------------------------------------------------------------

VersionNo == 1..MaxVersion

Idle == [at |-> "idle"]

\* A call between two of its statements, with what it has read
Call ==
    {Idle}
    \cup [at : {"update"}, old : VersionNo]
    \cup [at : {"numbered"}, old : VersionNo, n : VersionNo]
    \cup [at : {"index", "embed"}, old : {0} \cup VersionNo, n : VersionNo]
    \cup [at : {"retire"}, old : VersionNo]
    \cup [at : {"remove", "removing"}, todo : SUBSET VersionNo]
    \cup [at : {"get", "row"}, v : VersionNo]
    \cup [at : {"payload"}, v : VersionNo, F : SUBSET File]
    \cup [at : {"tampered"}]

At(p, step) == call[p].at = step

Goto(p, c) == call' = [call EXCEPT ![p] = c]

\* p has read which versions it is to delete.
Deleting(p) == At(p, "remove") \/ At(p, "removing")

\* No delete that is done or under way will take version n out of the store.
Escapes(n) == n \notin versions \/ \E p \in Proc : Deleting(p) /\ n \notin call[p].todo

\* A transaction of p can write.
Unlocked(p) == lock \in {NoProc, p}

-----------------------------------------------------------------------------
(***************************************************************************)
(* Publish and update.  Everything up to the commit in trust.record is one *)
(* transaction; embedding and the store's writes come after it.            *)
(***************************************************************************)

Publish(p) ==
    /\ At(p, "idle") /\ status = "unborn"
    /\ Unlocked(p)
    /\ status' = "live"
    /\ current' = 1
    /\ versions' = {1}
    /\ lock' = NoProc
    /\ Goto(p, [at |-> "index", old |-> 0, n |-> 1])
    /\ UNCHANGED <<files, hash, store>>

UpdateReadsSkill(p) ==
    /\ At(p, "idle") /\ status = "live"
    /\ Goto(p, [at |-> "update", old |-> current])
    /\ UNCHANGED <<db, store, lock>>

\* COALESCE(MAX(version), 0) + 1; past the bound the call ends.
UpdateReadsMax(p) ==
    /\ At(p, "update")
    /\ \/ \E n \in VersionNo :
             /\ \A m \in versions : m < n
             /\ n = 1 \/ n - 1 \in versions
             /\ Goto(p, [at |-> "numbered", old |-> call[p].old, n |-> n])
       \/ MaxVersion \in versions /\ Goto(p, Idle)
    /\ UNCHANGED <<db, store, lock>>

\* Mutants of UpdateCommits: UNIQUE(skill_id, version) is missing; the version is
\* not indexed.
UpdateCommitsAnyway(p) ==
    /\ At(p, "numbered")
    /\ Unlocked(p) /\ status = "live"
    /\ current' = call[p].n
    /\ versions' = versions \cup {call[p].n}
    /\ Goto(p, [at |-> "index", old |-> call[p].old, n |-> call[p].n])
    /\ lock' = NoProc
    /\ UNCHANGED <<status, files, hash, store>>

UpdateForgetsIndex(p) ==
    /\ At(p, "numbered")
    /\ Unlocked(p) /\ status = "live" /\ call[p].n \notin versions
    /\ current' = call[p].n
    /\ versions' = versions \cup {call[p].n}
    /\ Goto(p, [at |-> "retire", old |-> call[p].old])
    /\ lock' = NoProc
    /\ UNCHANGED <<status, files, hash, store>>

UpdateCommits(p) ==
    /\ At(p, "numbered")
    /\ Unlocked(p) /\ status = "live" /\ call[p].n \notin versions
    /\ current' = call[p].n
    /\ versions' = versions \cup {call[p].n}
    /\ Goto(p, [at |-> "index", old |-> call[p].old, n |-> call[p].n])
    /\ lock' = NoProc
    /\ UNCHANGED <<status, files, hash, store>>

\* UNIQUE or FOREIGN KEY raises and leaves the transaction open; or busy_timeout
\* is over, or the connection's snapshot too old to write.
UpdateRaises(p) ==
    /\ At(p, "numbered")
    /\ \/ /\ Unlocked(p)
          /\ status # "live" \/ call[p].n \in versions
          /\ lock' = p
       \/ UNCHANGED lock
    /\ Goto(p, Idle)
    /\ UNCHANGED <<db, store>>

\* The next call of the process, on whatever skill, commits (resolve, for one).
CommitElsewhere(p) ==
    /\ At(p, "idle") /\ lock = p
    /\ lock' = NoProc
    /\ UNCHANGED <<db, store, call>>

\* index_version loads the row, and raises KeyError when it is gone.
LoadForIndex(p) ==
    /\ At(p, "index")
    /\ IF call[p].n \in versions
       THEN Goto(p, [at |-> "embed", old |-> call[p].old, n |-> call[p].n])
       ELSE Goto(p, Idle)
    /\ UNCHANGED <<db, store, lock>>

Upsert(p) ==
    /\ At(p, "embed")
    /\ index' = index \cup {call[p].n}
    /\ dropped' = dropped \ {call[p].n}
    /\ late' = IF Escapes(call[p].n) THEN late \cup {call[p].n} ELSE late
    /\ Goto(p, IF call[p].old = 0 THEN Idle ELSE [at |-> "retire", old |-> call[p].old])
    /\ UNCHANGED <<db, lock>>

\* Mutant: current_version_id is read after the commit.
RetireCurrent(p) ==
    /\ At(p, "retire")
    /\ index' = index \ {current}
    /\ Goto(p, Idle)
    /\ UNCHANGED <<db, dropped, late, lock>>

RetireOld(p) ==
    /\ At(p, "retire")
    /\ index' = index \ {call[p].old}
    /\ Goto(p, Idle)
    /\ UNCHANGED <<db, dropped, late, lock>>

-----------------------------------------------------------------------------
(***************************************************************************)
(* Delete: the first DELETE of a trust row takes the write lock, after the *)
(* store's entry of that version is gone.                                  *)
(***************************************************************************)

\* Mutant: only the released version is removed from the store.
DeleteReadsReleased(p) ==
    /\ At(p, "idle") /\ status = "live"
    /\ Goto(p, [at |-> "remove", todo |-> {current}])
    /\ UNCHANGED <<db, store, lock>>

DeleteReads(p) ==
    /\ At(p, "idle") /\ status = "live"
    /\ Goto(p, [at |-> "remove", todo |-> versions])
    /\ UNCHANGED <<db, store, lock>>

\* The versions are removed in the order of the rows; the lock, or a snapshot too
\* old to write, may refuse the first DELETE.
RemoveNext(p) ==
    /\ Deleting(p)
    /\ \E v \in call[p].todo :
          /\ \A w \in call[p].todo : v <= w
          /\ index' = index \ {v}
          /\ dropped' = dropped \cup {v}
          /\ late' = late \ {v}
          /\ \/ /\ Unlocked(p)
                /\ lock' = p
                /\ Goto(p, [at |-> "removing", todo |-> call[p].todo \ {v}])
             \/ /\ At(p, "remove")
                /\ Goto(p, Idle)
                /\ UNCHANGED lock
    /\ UNCHANGED db

\* Mutant: foreign_keys is off, and the cascade does not happen.
DeleteKeepsVersions(p) ==
    /\ At(p, "removing") /\ call[p].todo = {}
    /\ status' = "deleted"
    /\ current' = 0
    /\ lock' = NoProc
    /\ Goto(p, Idle)
    /\ UNCHANGED <<versions, files, hash, store>>

DeleteCommits(p) ==
    /\ At(p, "removing") /\ call[p].todo = {}
    /\ status' = "deleted"
    /\ current' = 0
    /\ versions' = {}
    /\ files' = [v \in VersionNo |-> {}]
    /\ hash' = [v \in VersionNo |-> {}]
    /\ lock' = NoProc
    /\ Goto(p, Idle)
    /\ UNCHANGED store

-----------------------------------------------------------------------------
(***************************************************************************)
(* Files, and get.                                                         *)
(***************************************************************************)

\* Mutant of ChangeFiles: the hash is left as it was.
ChangeFilesOnly(p) ==
    /\ At(p, "idle") /\ Unlocked(p)
    /\ \E v \in versions, F \in SUBSET File :
          /\ \E f \in File : F \in {files[v] \cup {f}, files[v] \ {f}} \ {files[v]}
          /\ files' = [files EXCEPT ![v] = F]
    /\ lock' = NoProc
    /\ UNCHANGED <<status, current, versions, hash, store, call>>

\* add_skill_file and delete_skill_file: files and hash change in one transaction.
ChangeFiles(p) ==
    /\ At(p, "idle") /\ Unlocked(p)
    /\ \E v \in versions, F \in SUBSET File :
          /\ \E f \in File : F \in {files[v] \cup {f}, files[v] \ {f}} \ {files[v]}
          /\ files' = [files EXCEPT ![v] = F]
          /\ hash' = [hash EXCEPT ![v] = F]
    /\ lock' = NoProc
    /\ UNCHANGED <<status, current, versions, store, call>>

\* _resolve_version: the row of skills ...
GetReadsSkill(p) ==
    /\ At(p, "idle") /\ status = "live"
    /\ Goto(p, [at |-> "get", v |-> current])
    /\ UNCHANGED <<db, store, lock>>

\* ... and the row of the version
GetReadsVersion(p) ==
    /\ At(p, "get")
    /\ Goto(p, IF call[p].v \in versions THEN [at |-> "row", v |-> call[p].v]
               ELSE Idle)               \* NotFoundError
    /\ UNCHANGED <<db, store, lock>>

\* _payload_for
GetReadsFiles(p) ==
    /\ At(p, "row")
    /\ Goto(p, [at |-> "payload", v |-> call[p].v, F |-> files[call[p].v]])
    /\ UNCHANGED <<db, store, lock>>

\* ensure_integrity reads the hash and compares; a version that is gone is SV_INTEGRITY
\* as well.
GetChecks(p) ==
    /\ At(p, "payload")
    /\ Goto(p, IF call[p].v \in versions /\ hash[call[p].v] = call[p].F
               THEN Idle ELSE [at |-> "tampered"])
    /\ UNCHANGED <<db, store, lock>>

GetRaises(p) ==
    /\ At(p, "tampered")
    /\ Goto(p, Idle)
    /\ UNCHANGED <<db, store, lock>>

-----------------------------------------------------------------------------

ProcInit ==
    /\ status = "unborn"
    /\ current = 0
    /\ versions = {}
    /\ files = [v \in VersionNo |-> {}]
    /\ hash = [v \in VersionNo |-> {}]
    /\ index = {}
    /\ dropped = {}
    /\ late = {}
    /\ lock = NoProc
    /\ call = [p \in Proc |-> Idle]

\* The next statement of a call that has begun
Continue(p) ==
    \/ UpdateReadsMax(p) \/ UpdateCommits(p) \/ UpdateRaises(p)
    \/ LoadForIndex(p) \/ Upsert(p) \/ RetireOld(p)
    \/ RemoveNext(p) \/ DeleteCommits(p)
    \/ GetReadsVersion(p) \/ GetReadsFiles(p) \/ GetChecks(p) \/ GetRaises(p)

\* Any call on a skill that is not there raises NotFoundError.
NotFound(p) ==
    /\ At(p, "idle") /\ status = "deleted"
    /\ UNCHANGED procVars

Begin(p) ==
    \/ Publish(p) \/ NotFound(p) \/ UpdateReadsSkill(p) \/ DeleteReads(p) \/ ChangeFiles(p)
    \/ GetReadsSkill(p) \/ CommitElsewhere(p)

ProcNext == \E p \in Proc : Begin(p) \/ Continue(p)

\* A process that has begun a call runs on.
ProcSpec == ProcInit /\ [][ProcNext]_procVars /\ \A p \in Proc : WF_procVars(Continue(p))

-----------------------------------------------------------------------------
(***************************************************************************)
(* Properties.                                                             *)
(***************************************************************************)

\* Rows and calls have their types; a delete under way holds the write lock, and a
\* skill that is not there has no rows.
ProcTypeOK ==
    /\ status \in {"unborn", "live", "deleted"}
    /\ current \in {0} \cup VersionNo
    /\ versions \subseteq VersionNo
    /\ files \in [VersionNo -> SUBSET File]
    /\ hash \in [VersionNo -> SUBSET File]
    /\ index \subseteq VersionNo
    /\ dropped \subseteq VersionNo
    /\ late \subseteq VersionNo
    /\ lock \in Proc \cup {NoProc}
    /\ call \in [Proc -> Call]
    /\ \A p \in Proc : At(p, "removing") => lock = p
    /\ status = "live" <=> current # 0
    /\ status # "live" => versions = {}

\* However the updates of several processes overlap, none is lost and none
\* overtakes: the version numbers have no gap and the newest one is released.
\* (_update reads the maximum before its transaction begins.)
NewestIsReleased == status = "live" => current \in VersionNo /\ versions = 1..current

\* p has committed version n and will write it to the store.
Indexing(p, n) == (At(p, "index") \/ At(p, "embed")) /\ call[p].n = n

\* No overlap of updates takes the released version out of the vector store: it
\* is there, or the call that committed it is about to write it, unless a delete,
\* done or refused, has taken it out.
ReleasedStaysFindable ==
    status = "live" =>
        \/ current \in index \cup dropped
        \/ \E p \in Proc : Indexing(p, current)

\* An entry of the store whose version has no row got there after a delete had read
\* which versions there are: deleting leaves none behind that it could know of, also
\* when it is refused half way, repeated, or overlaps updates and other deletes.
\* (index_version embeds for a while between loading the row and writing.)
RowlessIsLate == index \ versions \subseteq late

\* A get reports tampering only if the version was deleted, or its attached files have
\* changed, since it read them, whatever statements of other processes fall in between.
AlarmsAreRaced ==
    [][\A p \in Proc : At(p, "payload") /\ At(p, "tampered")' =>
            call[p].v \notin versions \/ files[call[p].v] # call[p].F]_procVars

\* Every release becomes searchable, unless it is replaced, or a delete takes it out
\* of the store.
ReleaseBecomesFindable ==
    \A n \in VersionNo : (current = n) ~> (n \in index \cup dropped \/ current # n)
=============================================================================
