-------------------------- MODULE ProcessesProofs ---------------------------
(***************************************************************************)
(* What holds of Processes for any number of processes and versions: their *)
(* overlapping updates lose no version, and never take the released one    *)
(* out of the vector store.                                                *)
(***************************************************************************)
EXTENDS Processes, TLAPS

USE ProcessesAssumption

\* What a call has read bounds what the rows are now: reads may be old, but never
\* newer than the database, and a number is at most one past the newest version.
OldReads(p) ==
    /\ At(p, "update") => call[p].old <= current
    /\ At(p, "numbered") => call[p].old < call[p].n /\ call[p].n <= current + 1
    /\ At(p, "index") \/ At(p, "embed") => call[p].old < call[p].n /\ call[p].n <= current
    /\ At(p, "retire") => call[p].old < current

ReadsAreOld == status = "live" => \A p \in Proc : OldReads(p)

\* Before the skill is published no call on it has begun.
NothingBefore == status = "unborn" => \A p \in Proc : At(p, "idle")

\* What a delete under way does not know of is late; when it has nothing left to remove,
\* nothing else is left in the store.
DeletesKnow == \A p \in Proc : Deleting(p) => index \ late \subseteq call[p].todo

\* The inductive invariant
Inv ==
    /\ ProcTypeOK
    /\ NewestIsReleased
    /\ ReadsAreOld
    /\ NothingBefore
    /\ ReleasedStaysFindable
    /\ RowlessIsLate
    /\ DeletesKnow

\* Each hash is of the files that are stored.
HashIsOfFiles == hash = files

-----------------------------------------------------------------------------

LEMMA TypeInit == ProcInit => ProcTypeOK
BY DEF ProcInit, ProcTypeOK, Call, Idle, At, VersionNo

\* The fields of a call that is at a given step
LEMMA CallFields ==
    ASSUME call \in [Proc -> Call], NEW p \in Proc
    PROVE  /\ At(p, "update") => call[p].old \in VersionNo
           /\ At(p, "numbered") => call[p].old \in VersionNo /\ call[p].n \in VersionNo
           /\ At(p, "index") \/ At(p, "embed") =>
                 call[p].old \in {0} \cup VersionNo /\ call[p].n \in VersionNo
           /\ At(p, "retire") => call[p].old \in VersionNo
           /\ At(p, "remove") \/ At(p, "removing") => call[p].todo \in SUBSET VersionNo
           /\ At(p, "get") \/ At(p, "row") \/ At(p, "payload") => call[p].v \in VersionNo
BY DEF Call, At, Idle

\* A step of p leaves the other calls alone.
LEMMA GotoFacts ==
    ASSUME call \in [Proc -> Call], NEW p \in Proc, NEW c, Goto(p, c)
    PROVE  /\ call'[p] = c
           /\ \A q \in Proc \ {p} : call'[q] = call[q]
           /\ c \in Call => call' \in [Proc -> Call]
           /\ \A q \in Proc \ {p} : \A step : At(q, step)' <=> At(q, step)
           /\ \A step : At(p, step)' <=> c.at = step
BY DEF Goto, At

\* What a step of p from one point of its call to another leaves of the types
LEMMA CallTypeStep ==
    ASSUME ProcTypeOK, NEW p \in Proc, NEW c \in Call, Goto(p, c),
           \/ lock' = lock /\ (c.at = "removing" => At(p, "removing"))
           \/ lock' = p /\ Unlocked(p)
           \/ lock' = NoProc /\ c.at # "removing" /\ Unlocked(p)
    PROVE  /\ call' \in [Proc -> Call]
           /\ lock' \in Proc \cup {NoProc}
           /\ \A q \in Proc : At(q, "removing")' => lock' = q
<1>1. call \in [Proc -> Call] /\ lock \in Proc \cup {NoProc}
  BY DEF ProcTypeOK
<1>2. \A q \in Proc : At(q, "removing") => lock = q
  BY DEF ProcTypeOK
<1>3. /\ call' \in [Proc -> Call]
      /\ \A q \in Proc \ {p} : At(q, "removing")' <=> At(q, "removing")
      /\ At(p, "removing")' <=> c.at = "removing"
  BY <1>1, GotoFacts
<1> QED BY <1>1, <1>2, <1>3 DEF Unlocked

\* A call ends.
LEMMA IdleFacts == Idle \in Call /\ Idle.at = "idle"
BY DEF Idle, Call

LEMMA TypeStep == ProcTypeOK /\ [ProcNext]_procVars => ProcTypeOK'
<1> SUFFICES ASSUME ProcTypeOK, [ProcNext]_procVars PROVE ProcTypeOK'
  OBVIOUS
<1> DEFINE Rows == /\ status' \in {"unborn", "live", "deleted"}
                   /\ current' \in {0} \cup VersionNo
                   /\ versions' \subseteq VersionNo
                   /\ files' \in [VersionNo -> SUBSET File]
                   /\ hash' \in [VersionNo -> SUBSET File]
                   /\ index' \subseteq VersionNo
                   /\ dropped' \subseteq VersionNo
                   /\ late' \subseteq VersionNo
                   /\ status' = "live" <=> current' # 0
                   /\ status' # "live" => versions' = {}
           Ends == /\ call' \in [Proc -> Call]
                   /\ lock' \in Proc \cup {NoProc}
                   /\ \A q \in Proc : At(q, "removing")' => lock' = q
<1> SUFFICES Rows /\ Ends
  BY DEF ProcTypeOK
<1>0. 1 \in VersionNo /\ VersionNo \subseteq Nat \ {0}
  BY DEF VersionNo
<1>00. UNCHANGED <<db, store>> => Rows
  BY DEF db, store, ProcTypeOK
<1>1. CASE UNCHANGED procVars
  BY <1>1 DEF procVars, db, store, ProcTypeOK, At
<1>2. ASSUME NEW p \in Proc, Publish(p) PROVE Rows /\ Ends
  <2>1. [at |-> "index", old |-> 0, n |-> 1] \in Call
    BY <1>0 DEF Call
  <2>2. Ends
    BY <1>2, <2>1, CallTypeStep DEF Publish, At
  <2> QED BY <1>0, <1>2, <2>2 DEF Publish, ProcTypeOK, store
<1>3. ASSUME NEW p \in Proc, UpdateReadsSkill(p) PROVE Rows /\ Ends
  <2>1. [at |-> "update", old |-> current] \in Call
    BY <1>3 DEF Call, UpdateReadsSkill, ProcTypeOK
  <2>2. Ends
    BY <1>3, <2>1, CallTypeStep DEF UpdateReadsSkill, At
  <2> QED BY <1>3, <1>00, <2>2 DEF UpdateReadsSkill
<1>4. ASSUME NEW p \in Proc, UpdateReadsMax(p) PROVE Rows /\ Ends
  <2>1. PICK c \in Call : Goto(p, c) /\ c.at # "removing"
    <3>1. CASE Goto(p, Idle)
      BY <3>1, IdleFacts
    <3>2. CASE \E n \in VersionNo : Goto(p, [at |-> "numbered", old |-> call[p].old, n |-> n])
      BY <3>2, <1>4, CallFields DEF Call, UpdateReadsMax, ProcTypeOK
    <3> QED BY <1>4, <3>1, <3>2 DEF UpdateReadsMax
  <2>2. Ends
    BY <1>4, <2>1, CallTypeStep DEF UpdateReadsMax, At
  <2> QED BY <1>4, <1>00, <2>2 DEF UpdateReadsMax
<1>5. ASSUME NEW p \in Proc, UpdateCommits(p) PROVE Rows /\ Ends
  <2>1. call[p].old \in VersionNo /\ call[p].n \in VersionNo
    BY <1>5, CallFields DEF UpdateCommits, ProcTypeOK
  <2>2. [at |-> "index", old |-> call[p].old, n |-> call[p].n] \in Call
    BY <2>1 DEF Call
  <2>3. Ends
    BY <1>5, <2>2, CallTypeStep DEF UpdateCommits, At
  <2> QED BY <1>0, <1>5, <2>1, <2>3 DEF UpdateCommits, ProcTypeOK, store
<1>6. ASSUME NEW p \in Proc, UpdateRaises(p) PROVE Rows /\ Ends
  <2>1. Ends
    BY <1>6, IdleFacts, CallTypeStep DEF UpdateRaises, At
  <2> QED BY <1>6, <1>00, <2>1 DEF UpdateRaises
<1>7. ASSUME NEW p \in Proc, LoadForIndex(p) PROVE Rows /\ Ends
  <2>1. [at |-> "embed", old |-> call[p].old, n |-> call[p].n] \in Call
    BY <1>7, CallFields DEF Call, LoadForIndex, ProcTypeOK
  <2>2. PICK c \in Call : Goto(p, c) /\ c.at # "removing"
    BY <1>7, <2>1, IdleFacts DEF LoadForIndex
  <2>3. Ends
    BY <1>7, <2>2, CallTypeStep DEF LoadForIndex, At
  <2> QED BY <1>7, <1>00, <2>3 DEF LoadForIndex
<1>8. ASSUME NEW p \in Proc, Upsert(p) PROVE Rows /\ Ends
  <2>1. call[p].n \in VersionNo /\ call[p].old \in {0} \cup VersionNo
    BY <1>8, CallFields DEF Upsert, ProcTypeOK
  <2>2. PICK c \in Call : Goto(p, c) /\ c.at # "removing"
    <3>1. CASE call[p].old = 0
      BY <1>8, <3>1, IdleFacts DEF Upsert
    <3>2. CASE call[p].old # 0
      <4>1. [at |-> "retire", old |-> call[p].old] \in Call
        BY <2>1, <3>2 DEF Call
      <4> QED BY <1>8, <3>2, <4>1 DEF Upsert
    <3> QED BY <3>1, <3>2
  <2>3. Ends
    BY <1>8, <2>2, CallTypeStep DEF Upsert, At
  <2> QED BY <1>8, <2>1, <2>3 DEF Upsert, ProcTypeOK, db
<1>9. ASSUME NEW p \in Proc, RetireOld(p) PROVE Rows /\ Ends
  <2>1. Ends
    BY <1>9, IdleFacts, CallTypeStep DEF RetireOld, At
  <2> QED BY <1>9, <2>1 DEF RetireOld, ProcTypeOK, db
<1>10. ASSUME NEW p \in Proc, DeleteReads(p) PROVE Rows /\ Ends
  <2>1. [at |-> "remove", todo |-> versions] \in Call
    BY DEF Call, ProcTypeOK
  <2>2. Ends
    BY <1>10, <2>1, CallTypeStep DEF DeleteReads, At
  <2> QED BY <1>10, <1>00, <2>2 DEF DeleteReads
<1>11. ASSUME NEW p \in Proc, RemoveNext(p) PROVE Rows /\ Ends
  <2>1. PICK v \in call[p].todo :
            /\ index' = index \ {v} /\ dropped' = dropped \cup {v} /\ late' = late \ {v}
            /\ \/ /\ Unlocked(p) /\ lock' = p
                  /\ Goto(p, [at |-> "removing", todo |-> call[p].todo \ {v}])
               \/ Goto(p, Idle) /\ UNCHANGED lock
    BY <1>11 DEF RemoveNext, Deleting
  <2>2. call[p].todo \in SUBSET VersionNo
    BY <1>11, CallFields DEF RemoveNext, Deleting, ProcTypeOK
  <2>3. Rows
    BY <1>11, <2>1, <2>2 DEF RemoveNext, Deleting, ProcTypeOK, db
  <2>4. CASE /\ Unlocked(p) /\ lock' = p
             /\ Goto(p, [at |-> "removing", todo |-> call[p].todo \ {v}])
    <3>1. [at |-> "removing", todo |-> call[p].todo \ {v}] \in Call
      BY <2>2 DEF Call
    <3> QED BY <2>3, <2>4, <3>1, CallTypeStep
  <2>5. CASE Goto(p, Idle) /\ UNCHANGED lock
    BY <2>3, <2>5, IdleFacts, CallTypeStep
  <2> QED BY <2>1, <2>4, <2>5
<1>12. ASSUME NEW p \in Proc, DeleteCommits(p) PROVE Rows /\ Ends
  <2>1. Ends
    <3>1. Unlocked(p)
      BY <1>12 DEF DeleteCommits, ProcTypeOK, Unlocked
    <3> QED BY <1>12, <3>1, IdleFacts, CallTypeStep DEF DeleteCommits
  <2> QED BY <1>12, <2>1 DEF DeleteCommits, ProcTypeOK, store
<1>13. ASSUME NEW p \in Proc, ChangeFiles(p) PROVE Rows /\ Ends
  <2>1. PICK v \in versions, F \in SUBSET File :
            files' = [files EXCEPT ![v] = F] /\ hash' = [hash EXCEPT ![v] = F]
    BY <1>13 DEF ChangeFiles
  <2> QED BY <1>13, <2>1 DEF ChangeFiles, ProcTypeOK, At, Unlocked, store
<1>14. ASSUME NEW p \in Proc, GetReadsSkill(p) PROVE Rows /\ Ends
  <2>1. [at |-> "get", v |-> current] \in Call
    BY <1>14 DEF Call, GetReadsSkill, ProcTypeOK
  <2>2. Ends
    BY <1>14, <2>1, CallTypeStep DEF GetReadsSkill, At
  <2> QED BY <1>14, <1>00, <2>2 DEF GetReadsSkill
<1>15. ASSUME NEW p \in Proc, GetReadsVersion(p) PROVE Rows /\ Ends
  <2>1. [at |-> "row", v |-> call[p].v] \in Call
    BY <1>15, CallFields DEF Call, GetReadsVersion, ProcTypeOK
  <2>2. PICK c \in Call : Goto(p, c) /\ c.at # "removing"
    BY <1>15, <2>1, IdleFacts DEF GetReadsVersion
  <2>3. Ends
    BY <1>15, <2>2, CallTypeStep DEF GetReadsVersion, At
  <2> QED BY <1>15, <1>00, <2>3 DEF GetReadsVersion
<1>16. ASSUME NEW p \in Proc, GetReadsFiles(p) PROVE Rows /\ Ends
  <2>1. [at |-> "payload", v |-> call[p].v, F |-> files[call[p].v]] \in Call
    BY <1>16, CallFields DEF Call, GetReadsFiles, ProcTypeOK
  <2>2. Ends
    BY <1>16, <2>1, CallTypeStep DEF GetReadsFiles, At
  <2> QED BY <1>16, <1>00, <2>2 DEF GetReadsFiles
<1>17. ASSUME NEW p \in Proc, GetChecks(p) \/ GetRaises(p) PROVE Rows /\ Ends
  <2>1. PICK c \in Call : Goto(p, c) /\ c.at # "removing"
    BY <1>17, IdleFacts DEF GetChecks, GetRaises, Call
  <2>2. Ends
    BY <1>17, <2>1, CallTypeStep DEF GetChecks, GetRaises, At
  <2> QED BY <1>17, <1>00, <2>2 DEF GetChecks, GetRaises
<1>18. ASSUME NEW p \in Proc, NotFound(p) PROVE Rows /\ Ends
  BY <1>1, <1>18 DEF NotFound
<1>19. ASSUME NEW p \in Proc, CommitElsewhere(p) PROVE Rows /\ Ends
  BY <1>00, <1>19 DEF CommitElsewhere, ProcTypeOK, At
<1> HIDE DEF Rows, Ends
<1> QED BY <1>1, <1>2, <1>3, <1>4, <1>5, <1>6, <1>7, <1>8, <1>9, <1>10, <1>11, <1>12,
           <1>13, <1>14, <1>15, <1>16, <1>17, <1>18, <1>19 DEF ProcNext, Begin, Continue

\* Whatever overlaps, rows and calls keep their types.
THEOREM ProcTypeCorrect == ProcSpec => []ProcTypeOK
BY TypeInit, TypeStep, PTL DEF ProcSpec

-----------------------------------------------------------------------------

LEMMA InvInit == ProcInit => Inv
<1> SUFFICES ASSUME ProcInit PROVE Inv
  OBVIOUS
<1>1. ProcTypeOK
  BY TypeInit
<1>2. status = "unborn" /\ \A p \in Proc : At(p, "idle")
  BY DEF ProcInit, At, Idle
<1>3. RowlessIsLate /\ DeletesKnow
  BY DEF ProcInit, RowlessIsLate, DeletesKnow
<1> QED BY <1>1, <1>2, <1>3 DEF Inv, NewestIsReleased, ReadsAreOld, NothingBefore,
           ReleasedStaysFindable

\* A number that exceeds no gap-free set of versions by more than one, and is not
\* in it, is the next one.
LEMMA NextNumber ==
    ASSUME Inv, NEW p \in Proc, UpdateCommits(p)
    PROVE  /\ current \in Nat \ {0} /\ call[p].old \in Nat \ {0}
           /\ call[p].old <= current
           /\ call[p].n = current + 1 /\ call[p].n \in VersionNo
           /\ versions' = 1..call[p].n
<1>1. /\ current \in VersionNo /\ versions = 1..current
      /\ call[p].old < call[p].n /\ call[p].n <= current + 1
      /\ call[p].n \notin versions
  BY DEF UpdateCommits, Inv, NewestIsReleased, ReadsAreOld, OldReads
<1>2. call[p].n \in VersionNo /\ call[p].old \in VersionNo
  BY CallFields DEF Inv, ProcTypeOK, UpdateCommits
<1>3. call[p].n = current + 1
  BY <1>1, <1>2 DEF VersionNo
<1> QED BY <1>1, <1>2, <1>3 DEF VersionNo, UpdateCommits

LEMMA NewestStep == Inv /\ [ProcNext]_procVars => NewestIsReleased'
<1> SUFFICES ASSUME Inv, [ProcNext]_procVars PROVE NewestIsReleased'
  OBVIOUS
<1>1. CASE UNCHANGED <<status, current, versions>>
  BY <1>1 DEF Inv, NewestIsReleased
<1>2. ASSUME NEW p \in Proc, Publish(p) PROVE NewestIsReleased'
  BY <1>2 DEF Publish, NewestIsReleased, VersionNo
<1>3. ASSUME NEW p \in Proc, UpdateCommits(p) PROVE NewestIsReleased'
  BY <1>3, NextNumber DEF UpdateCommits, NewestIsReleased
<1>4. ASSUME NEW p \in Proc, DeleteCommits(p) PROVE NewestIsReleased'
  BY <1>4 DEF DeleteCommits, NewestIsReleased
<1>5. CASE UNCHANGED procVars
  BY <1>1, <1>5 DEF procVars, db
<1>6. ASSUME NEW p \in Proc, Begin(p), ~Publish(p) PROVE NewestIsReleased'
  BY <1>1, <1>6 DEF Begin, NotFound, UpdateReadsSkill, DeleteReads, ChangeFiles,
     GetReadsSkill, CommitElsewhere, procVars, db
<1>7. ASSUME NEW p \in Proc, Continue(p), ~UpdateCommits(p), ~DeleteCommits(p)
      PROVE  NewestIsReleased'
  BY <1>1, <1>7 DEF Continue, UpdateReadsMax, UpdateRaises, LoadForIndex, Upsert, RetireOld,
     RemoveNext, Deleting, GetReadsVersion, GetReadsFiles, GetChecks, GetRaises, db
<1> QED BY <1>2, <1>3, <1>4, <1>5, <1>6, <1>7 DEF ProcNext

\* What another process has read stays old while the newest version only grows.
LEMMA OthersReads ==
    ASSUME Inv, status = "live", NEW p \in Proc, NEW c, Goto(p, c),
           NEW q \in Proc \ {p}, current' \in Nat, current <= current'
    PROVE  OldReads(q)'
<1>1. call \in [Proc -> Call] /\ current \in Nat
  BY DEF Inv, ProcTypeOK, VersionNo
<1>2. call'[q] = call[q] /\ \A step : At(q, step)' <=> At(q, step)
  BY <1>1, GotoFacts
<1>3. OldReads(q)
  BY DEF Inv, ReadsAreOld
<1>4. /\ At(q, "update") => call[q].old \in Nat
      /\ At(q, "numbered") \/ At(q, "index") \/ At(q, "embed") =>
            call[q].old \in Nat /\ call[q].n \in Nat
      /\ At(q, "retire") => call[q].old \in Nat
  BY <1>1, CallFields DEF VersionNo
<1> QED BY <1>1, <1>2, <1>3, <1>4 DEF OldReads

\* A call that waits at no step of an update has nothing old to act on.
LEMMA NoReads ==
    ASSUME Inv, NEW p \in Proc, NEW c, Goto(p, c),
           c.at \notin {"update", "numbered", "index", "embed", "retire"}
    PROVE  OldReads(p)'
<1>1. \A step : At(p, step)' <=> c.at = step
  BY GotoFacts DEF Inv, ProcTypeOK
<1> QED BY <1>1 DEF OldReads

LEMMA ReadsStep == Inv /\ [ProcNext]_procVars => ReadsAreOld'
<1> SUFFICES ASSUME Inv, [ProcNext]_procVars, status' = "live",
                    NEW q \in Proc
             PROVE  OldReads(q)'
  BY DEF ReadsAreOld
<1>0. call \in [Proc -> Call] /\ current \in Nat
  BY DEF Inv, ProcTypeOK, VersionNo
<1>1. CASE UNCHANGED <<status, current, call>>
  BY <1>1 DEF Inv, ReadsAreOld, OldReads, At
\* A step that leaves the rows alone is old news to the others.
<1>2. ASSUME NEW p \in Proc, NEW c, Goto(p, c), UNCHANGED <<status, current>>,
             c.at \notin {"update", "numbered", "index", "embed", "retire"}
      PROVE  OldReads(q)'
  BY <1>0, <1>2, NoReads, OthersReads
<1>3. ASSUME NEW p \in Proc, Publish(p) PROVE OldReads(q)'
  <2>1. CASE q = p
    <3>1. call'[p] = [at |-> "index", old |-> 0, n |-> 1] /\ current' = 1
      BY <1>0, <1>3, GotoFacts DEF Publish
    <3> QED BY <2>1, <3>1 DEF OldReads, At
  <2>2. CASE q # p
    <3>1. At(q, "idle")
      BY <1>3 DEF Publish, Inv, NothingBefore
    <3>2. call'[q] = call[q]
      BY <1>0, <1>3, <2>2, GotoFacts DEF Publish
    <3> QED BY <3>1, <3>2 DEF OldReads, At
  <2> QED BY <2>1, <2>2
<1>4. ASSUME NEW p \in Proc, UpdateReadsSkill(p) PROVE OldReads(q)'
  <2>1. CASE q = p
    <3>1. call'[p] = [at |-> "update", old |-> current] /\ current' = current
      BY <1>0, <1>4, GotoFacts DEF UpdateReadsSkill, db
    <3> QED BY <1>0, <2>1, <3>1 DEF OldReads, At
  <2>2. CASE q # p
    BY <1>0, <1>4, <2>2, OthersReads DEF UpdateReadsSkill, db
  <2> QED BY <2>1, <2>2
<1>5. ASSUME NEW p \in Proc, UpdateReadsMax(p) PROVE OldReads(q)'
  <2>1. CASE Goto(p, Idle)
    BY <1>2, <1>5, <2>1, IdleFacts DEF UpdateReadsMax, db
  <2>2. ASSUME NEW n \in VersionNo, \A m \in versions : m < n, n = 1 \/ n - 1 \in versions,
               Goto(p, [at |-> "numbered", old |-> call[p].old, n |-> n])
        PROVE  OldReads(q)'
    <3>1. /\ current \in VersionNo /\ versions = 1..current
          /\ call[p].old \in VersionNo /\ call[p].old <= current
          /\ UNCHANGED <<status, current>>
      BY <1>0, <1>5, CallFields
      DEF UpdateReadsMax, db, Inv, NewestIsReleased, ReadsAreOld, OldReads
    <3>2. current < n /\ n <= current + 1
      BY <2>2, <3>1 DEF VersionNo
    <3>3. CASE q = p
      <4>1. call'[p] = [at |-> "numbered", old |-> call[p].old, n |-> n]
        BY <1>0, <2>2, GotoFacts
      <4> QED BY <3>1, <3>2, <3>3, <4>1 DEF OldReads, At, VersionNo
    <3>4. CASE q # p
      BY <1>0, <1>5, <2>2, <3>1, <3>4, OthersReads DEF UpdateReadsMax, db
    <3> QED BY <3>3, <3>4
  <2> QED BY <1>5, <2>1, <2>2 DEF UpdateReadsMax
<1>6. ASSUME NEW p \in Proc, UpdateCommits(p) PROVE OldReads(q)'
  <2>1. /\ call[p].old \in Nat /\ current' = current + 1
        /\ call[p].n = current + 1 /\ call[p].old <= current
    BY <1>6, NextNumber DEF UpdateCommits
  <2>2. CASE q = p
    <3>1. call'[p] = [at |-> "index", old |-> call[p].old, n |-> call[p].n]
      BY <1>0, <1>6, GotoFacts DEF UpdateCommits
    <3> QED BY <1>0, <2>1, <2>2, <3>1 DEF OldReads, At
  <2>3. CASE q # p
    BY <1>0, <1>6, <2>1, <2>3, OthersReads DEF UpdateCommits
  <2> QED BY <2>2, <2>3
<1>7. ASSUME NEW p \in Proc, LoadForIndex(p) PROVE OldReads(q)'
  <2>1. CASE Goto(p, Idle)
    BY <1>2, <1>7, <2>1, IdleFacts DEF LoadForIndex, db
  <2>2. CASE Goto(p, [at |-> "embed", old |-> call[p].old, n |-> call[p].n])
    <3>1. UNCHANGED <<status, current>> /\ status = "live" /\ At(p, "index")
      BY <1>7 DEF LoadForIndex, db
    <3>2. CASE q = p
      <4>1. call'[p] = [at |-> "embed", old |-> call[p].old, n |-> call[p].n]
        BY <1>0, <2>2, GotoFacts
      <4> QED BY <3>1, <3>2, <4>1 DEF OldReads, At, Inv, ReadsAreOld
    <3>3. CASE q # p
      BY <1>0, <2>2, <3>1, <3>3, OthersReads
    <3> QED BY <3>2, <3>3
  <2> QED BY <1>7, <2>1, <2>2 DEF LoadForIndex
<1>8. ASSUME NEW p \in Proc, Upsert(p) PROVE OldReads(q)'
  <2>1. CASE Goto(p, Idle)
    BY <1>2, <1>8, <2>1, IdleFacts DEF Upsert, db
  <2>2. CASE Goto(p, [at |-> "retire", old |-> call[p].old])
    <3>1. /\ UNCHANGED <<status, current>> /\ status = "live"
          /\ call[p].old \in Nat /\ call[p].n \in Nat
          /\ call[p].old < call[p].n /\ call[p].n <= current
      BY <1>0, <1>8, CallFields DEF Upsert, db, Inv, ReadsAreOld, OldReads, VersionNo
    <3>2. CASE q = p
      <4>1. call'[p] = [at |-> "retire", old |-> call[p].old]
        BY <1>0, <2>2, GotoFacts
      <4> QED BY <1>0, <3>1, <3>2, <4>1 DEF OldReads, At
    <3>3. CASE q # p
      BY <1>0, <2>2, <3>1, <3>3, OthersReads
    <3> QED BY <3>2, <3>3
  <2> QED BY <1>8, <2>1, <2>2 DEF Upsert
<1>9. ASSUME NEW p \in Proc, DeleteCommits(p) PROVE OldReads(q)'
  BY <1>9 DEF DeleteCommits
<1>10. ASSUME NEW p \in Proc, RemoveNext(p) PROVE OldReads(q)'
  <2>1. PICK c : Goto(p, c) /\ c.at \in {"idle", "removing"}
    BY <1>10, IdleFacts DEF RemoveNext, Deleting
  <2> QED BY <1>2, <1>10, <2>1 DEF RemoveNext, Deleting, db
<1>11. ASSUME NEW p \in Proc, RetireOld(p) \/ UpdateRaises(p) \/ DeleteReads(p) PROVE OldReads(q)'
  <2>1. PICK c : Goto(p, c) /\ c.at \in {"idle", "remove"}
    BY <1>11, IdleFacts DEF RetireOld, UpdateRaises, DeleteReads
  <2> QED BY <1>2, <1>11, <2>1 DEF RetireOld, UpdateRaises, DeleteReads, db
<1>12. ASSUME NEW p \in Proc,
              GetReadsSkill(p) \/ GetReadsVersion(p) \/ GetReadsFiles(p) \/ GetChecks(p) \/ GetRaises(p)
       PROVE  OldReads(q)'
  <2>1. PICK c : Goto(p, c) /\ c.at \in {"idle", "get", "row", "payload", "tampered"}
    BY <1>12, IdleFacts DEF GetReadsSkill, GetReadsVersion, GetReadsFiles, GetChecks, GetRaises
  <2> QED BY <1>2, <1>12, <2>1
          DEF GetReadsSkill, GetReadsVersion, GetReadsFiles, GetChecks, GetRaises, db
<1>13. ASSUME NEW p \in Proc, ChangeFiles(p) \/ NotFound(p) \/ CommitElsewhere(p)
       PROVE  OldReads(q)'
  BY <1>1, <1>13 DEF ChangeFiles, NotFound, CommitElsewhere, procVars, db
<1>14. CASE UNCHANGED procVars
  BY <1>1, <1>14 DEF procVars, db
<1> QED BY <1>3, <1>4, <1>5, <1>6, <1>7, <1>8, <1>9, <1>10, <1>11, <1>12, <1>13, <1>14
        DEF ProcNext, Begin, Continue

LEMMA NothingStep == Inv /\ [ProcNext]_procVars => NothingBefore'
<1> SUFFICES ASSUME Inv, [ProcNext]_procVars, status' = "unborn"
             PROVE  UNCHANGED <<status, call>>
  BY DEF Inv, NothingBefore, At
<1>1. ASSUME NEW p \in Proc, Begin(p) PROVE UNCHANGED <<status, call>>
  BY <1>1 DEF Begin, Publish, NotFound, UpdateReadsSkill, DeleteReads, ChangeFiles,
     GetReadsSkill, CommitElsewhere, procVars, db
<1>2. ASSUME NEW p \in Proc, Continue(p) PROVE FALSE
  <2>1. status = "unborn"
    BY <1>2 DEF Continue, UpdateReadsMax, UpdateCommits, UpdateRaises, LoadForIndex, Upsert,
       RetireOld, RemoveNext, Deleting, DeleteCommits, GetReadsVersion, GetReadsFiles, GetChecks,
       GetRaises, db
  <2>2. At(p, "idle")
    BY <2>1 DEF Inv, NothingBefore
  <2> QED BY <1>2, <2>2 DEF At, Continue, UpdateReadsMax, UpdateCommits, UpdateRaises,
          LoadForIndex, Upsert, RetireOld, RemoveNext, Deleting, DeleteCommits, GetReadsVersion,
          GetReadsFiles, GetChecks, GetRaises
<1> QED BY <1>1, <1>2 DEF ProcNext, procVars, db

\* A step that leaves no indexing call, and takes nothing released out of the
\* store, keeps the release findable.
LEMMA StaysFindable ==
    ASSUME Inv, UNCHANGED <<status, current>>, NEW p \in Proc, NEW c, Goto(p, c),
           current \in index \cup dropped => current \in (index \cup dropped)',
           Indexing(p, current) => current \in index' \/ Indexing(p, current)'
    PROVE  ReleasedStaysFindable'
<1>1. \A q \in Proc \ {p} : \A step : At(q, step)' <=> At(q, step)
  BY GotoFacts DEF Inv, ProcTypeOK
<1>2. \A q \in Proc \ {p} : call'[q] = call[q]
  BY GotoFacts DEF Inv, ProcTypeOK
<1>3. \A q \in Proc \ {p} : Indexing(q, current) => Indexing(q, current)'
  BY <1>1, <1>2 DEF Indexing
<1>4. CASE current \in index \cup dropped
  BY <1>4 DEF ReleasedStaysFindable
<1>5. ASSUME NEW q \in Proc, Indexing(q, current) PROVE ReleasedStaysFindable'
  BY <1>3, <1>5 DEF ReleasedStaysFindable
<1>6. CASE status # "live"
  BY <1>6 DEF ReleasedStaysFindable
<1> QED BY <1>4, <1>5, <1>6 DEF Inv, ReleasedStaysFindable

LEMMA FindableStep == Inv /\ [ProcNext]_procVars => ReleasedStaysFindable'
<1> SUFFICES ASSUME Inv, [ProcNext]_procVars PROVE ReleasedStaysFindable'
  OBVIOUS
<1>0. call \in [Proc -> Call] /\ current \in Nat
  BY DEF Inv, ProcTypeOK, VersionNo
<1>1. CASE UNCHANGED <<status, current, store, call>>
  BY <1>1 DEF Inv, ReleasedStaysFindable, Indexing, At, store
<1>2. ASSUME NEW p \in Proc, Publish(p) PROVE ReleasedStaysFindable'
  <2>1. call'[p] = [at |-> "index", old |-> 0, n |-> 1] /\ current' = 1
    BY <1>0, <1>2, GotoFacts DEF Publish
  <2> QED BY <2>1 DEF ReleasedStaysFindable, Indexing, At
<1>3. ASSUME NEW p \in Proc, UpdateCommits(p) PROVE ReleasedStaysFindable'
  <2>1. /\ call'[p] = [at |-> "index", old |-> call[p].old, n |-> call[p].n]
        /\ current' = call[p].n
    BY <1>0, <1>3, GotoFacts DEF UpdateCommits
  <2> QED BY <2>1 DEF ReleasedStaysFindable, Indexing, At
<1>4. ASSUME NEW p \in Proc, NEW step, At(p, step), step \notin {"index", "embed"},
             NEW c, Goto(p, c), UNCHANGED <<db, store>>
      PROVE  ReleasedStaysFindable'
  BY <1>4, StaysFindable DEF Indexing, At, db, store
<1>5. ASSUME NEW p \in Proc,
             UpdateReadsSkill(p) \/ UpdateReadsMax(p) \/ UpdateRaises(p) \/ DeleteReads(p)
      PROVE  ReleasedStaysFindable'
  <2>1. PICK c : Goto(p, c)
    BY <1>5 DEF UpdateReadsSkill, UpdateReadsMax, UpdateRaises, DeleteReads
  <2>2. PICK step \in {"idle", "update", "numbered"} : At(p, step)
    BY <1>5 DEF UpdateReadsSkill, UpdateReadsMax, UpdateRaises, DeleteReads
  <2> QED BY <1>4, <1>5, <2>1, <2>2
          DEF UpdateReadsSkill, UpdateReadsMax, UpdateRaises, DeleteReads
<1>6. ASSUME NEW p \in Proc,
             GetReadsSkill(p) \/ GetReadsVersion(p) \/ GetReadsFiles(p) \/ GetChecks(p) \/ GetRaises(p)
      PROVE  ReleasedStaysFindable'
  <2>1. PICK c : Goto(p, c)
    BY <1>6 DEF GetReadsSkill, GetReadsVersion, GetReadsFiles, GetChecks, GetRaises
  <2>2. PICK step \in {"idle", "get", "row", "payload", "tampered"} : At(p, step)
    BY <1>6 DEF GetReadsSkill, GetReadsVersion, GetReadsFiles, GetChecks, GetRaises
  <2> QED BY <1>4, <1>6, <2>1, <2>2
          DEF GetReadsSkill, GetReadsVersion, GetReadsFiles, GetChecks, GetRaises
<1>7. ASSUME NEW p \in Proc, LoadForIndex(p) PROVE ReleasedStaysFindable'
  <2>1. UNCHANGED <<status, current, index, dropped>>
    BY <1>7 DEF LoadForIndex, db, store
  <2>2. CASE Goto(p, Idle) /\ call[p].n \notin versions
    <3>1. status = "live" => ~Indexing(p, current)
      BY <2>2 DEF Indexing, Inv, NewestIsReleased, VersionNo
    <3>2. CASE status = "live"
      BY <2>1, <2>2, <3>1, <3>2, StaysFindable
    <3>3. CASE status # "live"
      BY <2>1, <3>3 DEF ReleasedStaysFindable
    <3> QED BY <3>2, <3>3
  <2>3. CASE Goto(p, [at |-> "embed", old |-> call[p].old, n |-> call[p].n])
    <3>1. call'[p] = [at |-> "embed", old |-> call[p].old, n |-> call[p].n]
      BY <1>0, <2>3, GotoFacts
    <3>2. Indexing(p, current) => Indexing(p, current)'
      BY <2>1, <3>1 DEF Indexing, At
    <3> QED BY <2>1, <2>3, <3>2, StaysFindable
  <2> QED BY <1>7, <2>2, <2>3 DEF LoadForIndex
<1>8. ASSUME NEW p \in Proc, Upsert(p) PROVE ReleasedStaysFindable'
  <2>1. /\ UNCHANGED <<status, current>>
        /\ index' = index \cup {call[p].n} /\ dropped' = dropped \ {call[p].n}
    BY <1>8 DEF Upsert, db
  <2>2. PICK c : Goto(p, c)
    BY <1>8 DEF Upsert
  <2> QED BY <2>1, <2>2, StaysFindable DEF Indexing
\* The version an update retires is older than the newest.
<1>9. ASSUME NEW p \in Proc, RetireOld(p) PROVE ReleasedStaysFindable'
  <2>1. /\ UNCHANGED <<status, current, dropped>> /\ ~Indexing(p, current)
        /\ index' = index \ {call[p].old} /\ Goto(p, Idle)
    BY <1>9 DEF RetireOld, Indexing, At, db
  <2>2. CASE status = "live"
    <3>1. call[p].old \in Nat /\ call[p].old < current
      BY <1>0, <1>9, <2>2, CallFields
      DEF RetireOld, Inv, ReadsAreOld, OldReads, VersionNo
    <3>2. current \in index \cup dropped => current \in (index \cup dropped)'
      BY <1>0, <2>1, <3>1
    <3> QED BY <2>1, <3>2, StaysFindable
  <2>3. CASE status # "live"
    BY <2>1, <2>3 DEF ReleasedStaysFindable
  <2> QED BY <2>2, <2>3
\* What a delete takes out of the store is accounted for.
<1>10. ASSUME NEW p \in Proc, RemoveNext(p) PROVE ReleasedStaysFindable'
  <2>1. PICK v : index' = index \ {v} /\ dropped' = dropped \cup {v}
    BY <1>10 DEF RemoveNext, Deleting
  <2>2. PICK c : Goto(p, c)
    BY <1>10 DEF RemoveNext, Deleting
  <2>3. UNCHANGED <<status, current>> /\ ~Indexing(p, current)
    BY <1>10 DEF RemoveNext, Deleting, Indexing, At, db
  <2> QED BY <2>1, <2>2, <2>3, StaysFindable
<1>11. ASSUME NEW p \in Proc, DeleteCommits(p) PROVE ReleasedStaysFindable'
  BY <1>11 DEF DeleteCommits, ReleasedStaysFindable
<1>12. ASSUME NEW p \in Proc, ChangeFiles(p) \/ NotFound(p) \/ CommitElsewhere(p)
       PROVE  ReleasedStaysFindable'
  BY <1>1, <1>12 DEF ChangeFiles, NotFound, CommitElsewhere, procVars, db
<1>13. CASE UNCHANGED procVars
  BY <1>1, <1>13 DEF procVars, db
<1> QED BY <1>2, <1>3, <1>5, <1>6, <1>7, <1>8, <1>9, <1>10, <1>11, <1>12, <1>13
        DEF ProcNext, Begin, Continue

-----------------------------------------------------------------------------

\* Where the next statements of an update leave the call
LEMMA UpdateGoesTo ==
    ASSUME NEW p \in Proc
    PROVE  /\ UpdateReadsMax(p) => \E c : Goto(p, c) /\ c.at \in {"idle", "numbered"}
           /\ LoadForIndex(p) => \E c : Goto(p, c) /\ c.at \in {"idle", "embed"}
           /\ Upsert(p) => \E c : Goto(p, c) /\ c.at \in {"idle", "retire"}
<1>1. ASSUME UpdateReadsMax(p) PROVE \E c : Goto(p, c) /\ c.at \in {"idle", "numbered"}
  <2>1. CASE Goto(p, Idle)
    BY <2>1, IdleFacts
  <2>2. CASE \E n \in VersionNo : Goto(p, [at |-> "numbered", old |-> call[p].old, n |-> n])
    BY <2>2
  <2> QED BY <1>1, <2>1, <2>2 DEF UpdateReadsMax
<1>2. ASSUME LoadForIndex(p) PROVE \E c : Goto(p, c) /\ c.at \in {"idle", "embed"}
  BY <1>2, IdleFacts DEF LoadForIndex
<1>3. ASSUME Upsert(p) PROVE \E c : Goto(p, c) /\ c.at \in {"idle", "retire"}
  BY <1>3, IdleFacts DEF Upsert
<1> QED BY <1>1, <1>2, <1>3

\* A step that adds nothing to the store but late versions, takes no row away, and
\* begins no delete that does not know them all.
LEMMA StaysKnown ==
    ASSUME Inv, NEW p \in Proc, NEW c, Goto(p, c),
           (index \ late)' \subseteq index \ late,
           versions \subseteq versions',
           c.at \in {"remove", "removing"} => (index \ late)' \subseteq c.todo
    PROVE  RowlessIsLate' /\ DeletesKnow'
<1>1. RowlessIsLate /\ DeletesKnow /\ call \in [Proc -> Call]
  BY DEF Inv, ProcTypeOK
<1>2. RowlessIsLate'
  BY <1>1 DEF RowlessIsLate
<1>3. Deleting(p)' => (index \ late)' \subseteq call'[p].todo
  BY <1>1, GotoFacts DEF Deleting
<1>4. ASSUME NEW q \in Proc \ {p}, Deleting(q)' PROVE (index \ late)' \subseteq call'[q].todo
  <2>1. Deleting(q) /\ call'[q] = call[q]
    BY <1>1, <1>4, GotoFacts DEF Deleting
  <2> QED BY <1>1, <2>1 DEF DeletesKnow
<1> QED BY <1>2, <1>3, <1>4 DEF DeletesKnow

\* A version that does not escape is in the list of each delete under way.
LEMMA UpsertKnown == ASSUME Inv, NEW p \in Proc, Upsert(p) PROVE RowlessIsLate' /\ DeletesKnow'
<1> DEFINE n == call[p].n
<1>1. RowlessIsLate /\ DeletesKnow /\ call \in [Proc -> Call]
  BY DEF Inv, ProcTypeOK
<1>2. /\ index' = index \cup {n} /\ versions' = versions
      /\ late' = IF Escapes(n) THEN late \cup {n} ELSE late
  BY DEF Upsert, db
<1>3. PICK c : Goto(p, c) /\ c.at \in {"idle", "retire"}
  BY UpdateGoesTo
<1>4. CASE Escapes(n)
  <2>1. (index \ late)' \subseteq index \ late
    BY <1>2, <1>4
  <2> QED BY <1>2, <1>3, <2>1, StaysKnown
<1>5. CASE ~Escapes(n)
  <2>1. n \in versions /\ \A q \in Proc : Deleting(q) => n \in call[q].todo
    BY <1>5 DEF Escapes
  <2>2. (index \ late)' \subseteq (index \ late) \cup {n}
    BY <1>2, <1>5
  <2>3. RowlessIsLate'
    BY <1>1, <1>2, <1>5, <2>1 DEF RowlessIsLate
  <2>4. ASSUME NEW q \in Proc, Deleting(q)' PROVE (index \ late)' \subseteq call'[q].todo
    <3>1. q # p
      BY <1>1, <1>3, <2>4, GotoFacts DEF Deleting
    <3>2. Deleting(q) /\ call'[q] = call[q]
      BY <1>1, <1>3, <2>4, <3>1, GotoFacts DEF Deleting
    <3> QED BY <1>1, <2>1, <2>2, <3>2 DEF DeletesKnow
  <2> QED BY <2>3, <2>4 DEF DeletesKnow
<1> QED BY <1>4, <1>5

LEMMA KnownStep == Inv /\ [ProcNext]_procVars => RowlessIsLate' /\ DeletesKnow'
<1> SUFFICES ASSUME Inv, [ProcNext]_procVars PROVE RowlessIsLate' /\ DeletesKnow'
  OBVIOUS
<1>0. ProcTypeOK /\ RowlessIsLate /\ DeletesKnow /\ call \in [Proc -> Call]
  BY DEF Inv, ProcTypeOK
<1>1. CASE UNCHANGED <<versions, store, call>>
  BY <1>0, <1>1 DEF RowlessIsLate, DeletesKnow, Deleting, At, store
<1>2. ASSUME NEW p \in Proc, NEW c, Goto(p, c), c.at \notin {"remove", "removing"},
             versions \subseteq versions', UNCHANGED store
      PROVE  RowlessIsLate' /\ DeletesKnow'
  BY <1>2, StaysKnown DEF store
<1>3. ASSUME NEW p \in Proc, Publish(p) \/ UpdateCommits(p) PROVE RowlessIsLate' /\ DeletesKnow'
  <2>1. PICK c : Goto(p, c) /\ c.at = "index"
    BY <1>3 DEF Publish, UpdateCommits
  <2>2. versions \subseteq versions'
    BY <1>0, <1>3 DEF Publish, UpdateCommits, ProcTypeOK
  <2> QED BY <1>2, <1>3, <2>1, <2>2 DEF Publish, UpdateCommits
<1>4. ASSUME NEW p \in Proc,
             UpdateReadsSkill(p) \/ UpdateReadsMax(p) \/ UpdateRaises(p) \/ LoadForIndex(p)
      PROVE  RowlessIsLate' /\ DeletesKnow'
  <2>1. PICK c : Goto(p, c) /\ c.at \in {"idle", "update", "numbered", "embed"}
    BY <1>4, IdleFacts, UpdateGoesTo DEF UpdateReadsSkill, UpdateRaises
  <2> QED BY <1>2, <1>4, <2>1
          DEF UpdateReadsSkill, UpdateReadsMax, UpdateRaises, LoadForIndex, db
<1>5. ASSUME NEW p \in Proc,
             GetReadsSkill(p) \/ GetReadsVersion(p) \/ GetReadsFiles(p) \/ GetChecks(p) \/ GetRaises(p)
      PROVE  RowlessIsLate' /\ DeletesKnow'
  <2>1. PICK c : Goto(p, c) /\ c.at \in {"idle", "get", "row", "payload", "tampered"}
    BY <1>5, IdleFacts DEF GetReadsSkill, GetReadsVersion, GetReadsFiles, GetChecks, GetRaises
  <2> QED BY <1>2, <1>5, <2>1
          DEF GetReadsSkill, GetReadsVersion, GetReadsFiles, GetChecks, GetRaises, db
<1>6. ASSUME NEW p \in Proc, Upsert(p) PROVE RowlessIsLate' /\ DeletesKnow'
  BY <1>6, UpsertKnown
<1>7. ASSUME NEW p \in Proc, RetireOld(p) PROVE RowlessIsLate' /\ DeletesKnow'
  <2>1. (index \ late)' \subseteq index \ late /\ versions' = versions
    BY <1>7 DEF RetireOld, db
  <2>2. Goto(p, Idle)
    BY <1>7 DEF RetireOld
  <2> QED BY <2>1, <2>2, IdleFacts, StaysKnown
\* A delete begins with all versions that have a row.
<1>8. ASSUME NEW p \in Proc, DeleteReads(p) PROVE RowlessIsLate' /\ DeletesKnow'
  <2> DEFINE c == [at |-> "remove", todo |-> versions]
  <2>1. Goto(p, c) /\ versions' = versions /\ UNCHANGED store
    BY <1>8 DEF DeleteReads, db
  <2>2. (index \ late)' = index \ late /\ index \ late \subseteq c.todo
    BY <1>0, <2>1 DEF RowlessIsLate, store
  <2> HIDE DEF c
  <2> QED BY <2>1, <2>2, StaysKnown
<1>9. ASSUME NEW p \in Proc, RemoveNext(p) PROVE RowlessIsLate' /\ DeletesKnow'
  <2>1. PICK v : /\ index' = index \ {v} /\ late' = late \ {v}
                 /\ \/ Goto(p, [at |-> "removing", todo |-> call[p].todo \ {v}])
                    \/ Goto(p, Idle)
    BY <1>9 DEF RemoveNext
  <2>2. (index \ late)' \subseteq (index \ late) \ {v} /\ versions' = versions
    BY <1>9, <2>1 DEF RemoveNext, db
  <2>3. index \ late \subseteq call[p].todo
    BY <1>0, <1>9 DEF RemoveNext, DeletesKnow
  <2>4. PICK c : Goto(p, c) /\ (c.at \in {"remove", "removing"} => c.todo = call[p].todo \ {v})
    BY <2>1, IdleFacts
  <2> QED BY <2>2, <2>3, <2>4, StaysKnown
\* A delete ends when its list is empty, and what is left in the store is late.
<1>10. ASSUME NEW p \in Proc, DeleteCommits(p) PROVE RowlessIsLate' /\ DeletesKnow'
  <2>1. index \ late = {} /\ UNCHANGED store
    BY <1>0, <1>10 DEF DeleteCommits, DeletesKnow, Deleting
  <2> QED BY <2>1 DEF RowlessIsLate, DeletesKnow, store
<1>11. ASSUME NEW p \in Proc, ChangeFiles(p) \/ NotFound(p) \/ CommitElsewhere(p)
       PROVE  RowlessIsLate' /\ DeletesKnow'
  BY <1>1, <1>11 DEF ChangeFiles, NotFound, CommitElsewhere, procVars, db
<1>12. CASE UNCHANGED procVars
  BY <1>1, <1>12 DEF procVars, db
<1> QED BY <1>3, <1>4, <1>5, <1>6, <1>7, <1>8, <1>9, <1>10, <1>11, <1>12
        DEF ProcNext, Begin, Continue

LEMMA InvStep == Inv /\ [ProcNext]_procVars => Inv'
BY TypeStep, NewestStep, ReadsStep, NothingStep, FindableStep, KnownStep DEF Inv

LEMMA InvHolds == ProcSpec => []Inv
BY InvInit, InvStep, PTL DEF ProcSpec

\* Updates of any number of processes lose no version and leave no gap, although
\* _update reads the maximum before its transaction begins: UNIQUE(skill_id,
\* version) refuses the loser.
THEOREM NewestCorrect == ProcSpec => []NewestIsReleased
<1>1. Inv => NewestIsReleased
  BY DEF Inv
<1> QED BY <1>1, InvHolds, PTL

\* However updates overlap, the released version is in the vector store or its
\* writer is about to put it there, unless a delete has taken it out.
THEOREM FindableCorrect == ProcSpec => []ReleasedStaysFindable
<1>1. Inv => ReleasedStaysFindable
  BY DEF Inv
<1> QED BY <1>1, InvHolds, PTL

\* What a delete leaves in the store, it could not know of: an entry without a row was
\* written after the delete had read which versions there are.
THEOREM OrphansAreLate == ProcSpec => []RowlessIsLate
<1>1. Inv => RowlessIsLate
  BY DEF Inv
<1> QED BY <1>1, InvHolds, PTL

-----------------------------------------------------------------------------

LEMMA HashStep == HashIsOfFiles /\ [ProcNext]_procVars => HashIsOfFiles'
<1> SUFFICES ASSUME HashIsOfFiles, [ProcNext]_procVars PROVE HashIsOfFiles'
  OBVIOUS
<1>1. CASE UNCHANGED <<files, hash>>
  BY <1>1 DEF HashIsOfFiles
<1>2. ASSUME NEW p \in Proc, ChangeFiles(p) \/ DeleteCommits(p) PROVE HashIsOfFiles'
  BY <1>2 DEF ChangeFiles, DeleteCommits, HashIsOfFiles
<1>3. ASSUME NEW p \in Proc, Begin(p), ~ChangeFiles(p) PROVE HashIsOfFiles'
  BY <1>1, <1>3 DEF Begin, Publish, NotFound, UpdateReadsSkill, DeleteReads,
     GetReadsSkill, CommitElsewhere, procVars, db
<1>4. ASSUME NEW p \in Proc, Continue(p), ~DeleteCommits(p) PROVE HashIsOfFiles'
  BY <1>1, <1>4 DEF Continue, UpdateReadsMax, UpdateCommits, UpdateRaises, LoadForIndex,
     Upsert, RetireOld, RemoveNext, GetReadsVersion, GetReadsFiles, GetChecks, GetRaises, db
<1>5. CASE UNCHANGED procVars
  BY <1>1, <1>5 DEF procVars, db
<1> QED BY <1>2, <1>3, <1>4, <1>5 DEF ProcNext

\* The step that raises is the check, and the hash it reads is of the files as they are.
LEMMA AlarmStep ==
    ASSUME Inv, HashIsOfFiles, [ProcNext]_procVars, NEW p \in Proc,
           At(p, "payload"), At(p, "tampered")'
    PROVE  call[p].v \notin versions \/ files[call[p].v] # call[p].F
<1>1. call \in [Proc -> Call]
  BY DEF Inv, ProcTypeOK
<1>2. call' # call
  BY DEF At
<1>3. ASSUME NEW q \in Proc, NEW c, Goto(q, c), c.at # "tampered" PROVE FALSE
  BY <1>1, <1>3, GotoFacts DEF At
<1>4. ASSUME NEW q \in Proc, GetChecks(q)
      PROVE  call[p].v \notin versions \/ files[call[p].v] # call[p].F
  <2>1. CASE q = p
    <3>1. CASE call[p].v \in versions /\ hash[call[p].v] = call[p].F
      BY <1>3, <1>4, <2>1, <3>1, IdleFacts DEF GetChecks
    <3>2. CASE ~(call[p].v \in versions /\ hash[call[p].v] = call[p].F)
      BY <3>2 DEF HashIsOfFiles
    <3> QED BY <3>1, <3>2
  <2>2. CASE q # p
    <3>1. PICK c : Goto(q, c)
      BY <1>4 DEF GetChecks
    <3> QED BY <1>1, <2>2, <3>1, GotoFacts DEF At
  <2> QED BY <2>1, <2>2
<1>5. ASSUME NEW q \in Proc, Begin(q) PROVE FALSE
  <2>1. PICK c : Goto(q, c) /\ c.at \in {"index", "update", "remove", "get"}
    BY <1>2, <1>5 DEF Begin, Publish, NotFound, UpdateReadsSkill, DeleteReads, ChangeFiles,
       GetReadsSkill, CommitElsewhere, procVars, db
  <2> QED BY <1>3, <2>1
<1>6. ASSUME NEW q \in Proc, Continue(q), ~GetChecks(q) PROVE FALSE
  <2>1. PICK c : Goto(q, c) /\ c.at # "tampered"
    <3>1. CASE UpdateReadsMax(q) \/ LoadForIndex(q) \/ Upsert(q)
      BY <3>1, UpdateGoesTo
    <3>2. CASE UpdateCommits(q) \/ UpdateRaises(q) \/ RetireOld(q) \/ DeleteCommits(q)
      BY <3>2, IdleFacts DEF UpdateCommits, UpdateRaises, RetireOld, DeleteCommits
    <3>3. CASE RemoveNext(q)
      BY <3>3, IdleFacts DEF RemoveNext
    <3>4. CASE GetReadsVersion(q) \/ GetReadsFiles(q) \/ GetRaises(q)
      BY <3>4, IdleFacts DEF GetReadsVersion, GetReadsFiles, GetRaises
    <3> QED BY <1>6, <3>1, <3>2, <3>3, <3>4 DEF Continue
  <2> QED BY <1>3, <2>1
<1> QED BY <1>2, <1>4, <1>5, <1>6 DEF ProcNext, procVars

\* A get that overlaps nothing that changes what it reads never reports tampering:
\* whenever it does, the version is gone or its files are others than it read.
THEOREM NoFalseAlarm == ProcSpec => AlarmsAreRaced
<1>1. ProcInit => HashIsOfFiles
  BY DEF ProcInit, HashIsOfFiles
<1>2. Inv /\ HashIsOfFiles /\ [ProcNext]_procVars =>
          [\A p \in Proc : At(p, "payload") /\ At(p, "tampered")' =>
              call[p].v \notin versions \/ files[call[p].v] # call[p].F]_procVars
  BY AlarmStep
<1> QED BY <1>1, <1>2, HashStep, InvHolds, PTL DEF ProcSpec, AlarmsAreRaced
=============================================================================
