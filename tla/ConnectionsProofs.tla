------------------------- MODULE ConnectionsProofs --------------------------
(***************************************************************************)
(* Proofs about module Connections, for any number of threads, in every    *)
(* configuration of the store: what a crash, or an exception, leaves in    *)
(* the file is sound, keeps what was promised, and covers the store.       *)
(***************************************************************************)
EXTENDS Connections, RegistryProofs

USE ConnectionsAssumption

-----------------------------------------------------------------------------
(***************************************************************************)
(* The invariant: the rows a connection sees are sound, and so are the     *)
(* committed ones, of which they are a later state.                        *)
(***************************************************************************)

Sound == TypeOK /\ Structure /\ OwnersLive

SavedSound ==
    /\ saved = [agents |-> saved.agents, supers |-> saved.supers, skill |-> saved.skill,
                versions |-> saved.versions, files |-> saved.files, hash |-> saved.hash,
                trust |-> saved.trust]
    /\ Saved!TypeOK
    /\ \A s \in Skill : ~Saved!Exists(s) => saved.skill[s] = NoSkill
    /\ Saved!CurrentIsAVersion
    /\ Saved!VersionsHaveNoGap
    /\ Saved!OwnersLive

Durable ==
    /\ index \subseteq saved.versions
    /\ promised \subseteq versions \cap saved.versions

ConnState == {"idle", "open", "pinned", "stale"}

LocksOK ==
    /\ holder \in Thread \cup {NoThread}
    /\ holder = NoThread => saved = Rows
    /\ conn \in [Connection -> ConnState]
    /\ holder # NoThread => conn[holder] = "idle"

ConnInv == Sound /\ SavedSound /\ Durable /\ LocksOK

LEMMA SoundStep == Sound /\ [Next]_vars => Sound'
BY TypeOKStep, StructureStep, OwnersLiveStep DEF Sound

-----------------------------------------------------------------------------
(***************************************************************************)
(* What a step does to the rows, and to the committed ones.                *)
(***************************************************************************)

\* The entries of the store that a call takes out before it raises are of no
\* consequence for the rows.
LEMMA RowsUnchanged ==
    ASSUME Sound, UNCHANGED rows, index' \subseteq index
    PROVE  Sound'
BY DEF Sound, rows, TypeOK, Structure, AbsentIsNoSkill, CurrentIsAVersion, VersionsHaveNoGap,
       IndexWithinVersions, OwnersLive, Exists, AgentUser

LEMMA SameTypes ==
    /\ Saved!SkillRow = SkillRow /\ Saved!VersionId = VersionId
    /\ Saved!Payload = Payload /\ Saved!Trust = Trust
BY DEF Saved!SkillRow, Saved!VersionId, Saved!Payload, Saved!Trust, Saved!Visibility,
       Saved!Caller, Saved!VersionNo, SkillRow, VersionId, Payload, Trust, Visibility, Caller,
       VersionNo

LEMMA CommitSaves ==
    ASSUME Sound', saved' = Rows'
    PROVE  SavedSound' /\ index' \subseteq saved'.versions
<1>1. /\ saved'.agents = agents' /\ saved'.supers = supers' /\ saved'.skill = skill'
      /\ saved'.versions = versions' /\ saved'.files = files' /\ saved'.hash = hash'
      /\ saved'.trust = trust'
  BY DEF Rows
<1>2. saved' = [agents |-> saved'.agents, supers |-> saved'.supers, skill |-> saved'.skill,
                versions |-> saved'.versions, files |-> saved'.files, hash |-> saved'.hash,
                trust |-> saved'.trust]
  BY <1>1 DEF Rows
<1>3. Saved!TypeOK'
  BY <1>1, SameTypes DEF Sound, TypeOK, Saved!TypeOK
<1>4. \A s \in Skill : (~Saved!Exists(s))' => saved'.skill[s] = NoSkill
  BY <1>1 DEF Sound, Structure, AbsentIsNoSkill, Exists, Saved!Exists
<1>5. (Saved!CurrentIsAVersion)' /\ (Saved!VersionsHaveNoGap)'
  BY <1>1 DEF Sound, Structure, CurrentIsAVersion, VersionsHaveNoGap, Exists,
              Saved!CurrentIsAVersion, Saved!VersionsHaveNoGap, Saved!Exists
<1>6. (Saved!OwnersLive)'
  BY <1>1 DEF Sound, OwnersLive, AgentUser, Saved!OwnersLive, Saved!AgentUser
<1>7. index' \subseteq saved'.versions
  BY <1>1 DEF Sound, Structure, IndexWithinVersions
<1> QED BY <1>2, <1>3, <1>4, <1>5, <1>6, <1>7 DEF SavedSound

LEMMA NothingSaved ==
    ASSUME SavedSound, UNCHANGED saved, index' \subseteq index
    PROVE  SavedSound'
BY DEF SavedSound, Saved!TypeOK, Saved!Exists, Saved!CurrentIsAVersion,
       Saved!VersionsHaveNoGap, Saved!OwnersLive, Saved!AgentUser

\* A restart finds the committed rows.
LEMMA RestoreLoads ==
    ASSUME SavedSound, Durable, Restore, index' \subseteq index
    PROVE  Sound' /\ saved' = Rows'
<1>1. /\ agents' = saved.agents /\ supers' = saved.supers /\ skill' = saved.skill
      /\ versions' = saved.versions /\ files' = saved.files /\ hash' = saved.hash
      /\ trust' = saved.trust /\ saved' = saved
  BY DEF Restore
<1>2. TypeOK'
  BY <1>1, SameTypes DEF SavedSound, Durable, TypeOK, Saved!TypeOK
<1>3. Structure'
  BY <1>1 DEF SavedSound, Durable, Structure, AbsentIsNoSkill, CurrentIsAVersion,
              VersionsHaveNoGap, IndexWithinVersions, Exists,
              Saved!CurrentIsAVersion, Saved!VersionsHaveNoGap, Saved!Exists
<1>4. OwnersLive'
  BY <1>1 DEF SavedSound, OwnersLive, AgentUser, Saved!OwnersLive, Saved!AgentUser
<1>5. saved' = Rows'
  BY <1>1 DEF SavedSound, Rows
<1> QED BY <1>2, <1>3, <1>4, <1>5 DEF Sound

-----------------------------------------------------------------------------
(***************************************************************************)
(* Connections.                                                            *)
(***************************************************************************)

LEMMA StateTypes ==
    ASSUME NEW c \in ConnState
    PROVE  /\ AfterCommit(c) \in ConnState /\ AfterRead(c) \in ConnState
           /\ AfterRefusal(c) \in ConnState
           /\ AfterRead("idle") = "idle" /\ AfterCommit("idle") = "idle"
BY DEF ConnState, AfterCommit, AfterRead, AfterRefusal

LEMMA AfterCommitTypes ==
    ASSUME conn \in [Connection -> ConnState], NEW C
    PROVE  /\ AfterCommitOf(C) \in [Connection -> ConnState]
           /\ \A c \in Connection \cap C : AfterCommitOf(C)[c] = "idle"
           /\ \A c \in Connection : conn[c] = "idle" => AfterCommitOf(C)[c] = "idle"
<1>1. \A c \in Connection : AfterCommit(conn[c]) \in ConnState
  BY StateTypes
<1>2. "idle" \in ConnState /\ AfterCommit("idle") = "idle"
  BY DEF ConnState, AfterCommit
<1> QED BY <1>1, <1>2 DEF AfterCommitOf

LEMMA ThreadFacts ==
    ASSUME NEW t \in Thread
    PROVE  t \in Connection /\ Store \in Connection /\ t # Store /\ t # NoThread
BY DEF Connection

\* Who may write is the holder, or there is none; who holds the lock may write.
LEMMA HolderMayWrite ==
    ASSUME LocksOK, NEW t \in Thread
    PROVE  /\ MayWrite(t) => holder \in {NoThread, t}
           /\ ~MayWrite(t) => holder # t
BY ThreadFacts DEF LocksOK, MayWrite

\* A step after which nobody holds the lock
LEMMA LockIsFree ==
    ASSUME saved' = Rows', holder' = NoThread, conn' \in [Connection -> ConnState]
    PROVE  LocksOK'
BY DEF LocksOK

\* A call of t that raises leaves its transaction open.
LEMMA HeldBy ==
    ASSUME NEW t \in Thread, holder' = t, conn' \in [Connection -> ConnState],
           conn'[t] = "idle"
    PROVE  LocksOK'
BY ThreadFacts DEF LocksOK

\* A step that leaves the lock, and what was saved, alone
LEMMA HolderStays ==
    ASSUME LocksOK, UNCHANGED <<holder, rows, saved>>, conn' \in [Connection -> ConnState],
           holder # NoThread => conn'[holder] = "idle"
    PROVE  LocksOK'
BY DEF LocksOK, rows, Rows

-----------------------------------------------------------------------------
(***************************************************************************)
(* The two ways a step can end: the rows are committed, or they are not.   *)
(***************************************************************************)

LEMMA Commits ==
    ASSUME Sound', saved' = Rows', holder' = NoThread, conn' \in [Connection -> ConnState],
           promised' \subseteq versions'
    PROVE  ConnInv'
<1>1. SavedSound' /\ index' \subseteq saved'.versions
  BY CommitSaves
<1>2. saved'.versions = versions'
  BY DEF Rows
<1>3. LocksOK'
  BY LockIsFree
<1> QED BY <1>1, <1>2, <1>3 DEF ConnInv, Durable

LEMMA Saves ==
    ASSUME ConnInv, Sound', UNCHANGED saved, index' \subseteq index,
           promised' \subseteq promised \cap versions', LocksOK'
    PROVE  ConnInv'
<1>1. SavedSound'
  BY NothingSaved DEF ConnInv
<1>2. Durable'
  BY DEF ConnInv, Durable
<1> QED BY <1>1, <1>2 DEF ConnInv

\* A step that leaves the rows alone
LEMMA RowsStay ==
    ASSUME ConnInv, UNCHANGED <<rows, saved, promised>>, index' \subseteq index, LocksOK'
    PROVE  ConnInv'
<1>1. Sound'
  BY RowsUnchanged DEF ConnInv
<1>2. promised' \subseteq promised \cap versions'
  BY DEF ConnInv, Durable, rows
<1> QED BY <1>1, <1>2, Saves

LEMMA ReleasedAreRows == ASSUME Structure' PROVE Released' \subseteq versions'
<1> SUFFICES ASSUME NEW v \in VersionId, skill'[v[1]].current = v[2] PROVE v \in versions'
  BY DEF Released
<1>1. v[1] \in Skill /\ v[2] # 0 /\ v = <<v[1], v[2]>>
  BY VersionIdFacts
<1> QED BY <1>1 DEF Structure, CurrentIsAVersion

-----------------------------------------------------------------------------
(***************************************************************************)
(* The calls of Connections are calls of Registry.                         *)
(***************************************************************************)

LEMMA IndexingIsStep ==
    ASSUME IndexingCall
    PROVE  Next /\ versions \subseteq versions'
<1>1. PICK a \in Agent, s \in Skill, nm \in Name, u \in Upload :
         \/ \E vis \in Visibility : Publish(a, s, vis, nm, u)
         \/ \E n \in VersionNo : Update(a, s, n, nm, u)
  BY DEF IndexingCall
<1>2. ASSUME NEW vis \in Visibility, Publish(a, s, vis, nm, u)
      PROVE  Next /\ versions \subseteq versions'
  BY <1>2 DEF Next, PublishStep, Publish, InsertVersion
<1>3. ASSUME NEW n \in VersionNo, Update(a, s, n, nm, u)
      PROVE  Next /\ versions \subseteq versions'
  BY <1>3 DEF Next, UpdateStep, Update, InsertVersion
<1> QED BY <1>1, <1>2, <1>3

LEMMA PlainIsStep ==
    ASSUME \/ \E a \in Agent : CreateAgent(a) \/ \E on \in BOOLEAN : SetSuperAgent(a, on)
           \/ \E v \in VersionId, f \in File : AddSkillFile(v, f) \/ DeleteSkillFile(v, f)
    PROVE  Next
BY DEF Next, AgentStep

LEMMA RaisingIsStep ==
    ASSUME NEW a \in Agent, NEW s \in Skill, NEW nm \in Name,
           \/ \E vis \in Visibility, F, stored \in SUBSET File :
                 PublishFileClash(a, s, vis, nm, F, stored)
           \/ \E n \in VersionNo, u \in Upload : UpdateNameClash(a, s, n, nm, u)
           \/ \E n \in VersionNo, F, stored \in SUBSET File :
                 UpdateFileClash(a, s, n, F, stored)
    PROVE  Next /\ versions \subseteq versions' /\ UNCHANGED index
<1>1. ASSUME NEW vis \in Visibility, NEW F \in SUBSET File, NEW stored \in SUBSET File,
             PublishFileClash(a, s, vis, nm, F, stored)
      PROVE  Next /\ versions \subseteq versions' /\ UNCHANGED index
  BY <1>1 DEF Next, PublishStep, PublishFileClash, InsertVersion
<1>2. ASSUME NEW n \in VersionNo, NEW u \in Upload, UpdateNameClash(a, s, n, nm, u)
      PROVE  Next /\ versions \subseteq versions' /\ UNCHANGED index
  BY <1>2 DEF Next, UpdateStep, UpdateNameClash, InsertVersion
<1>3. ASSUME NEW n \in VersionNo, NEW F \in SUBSET File, NEW stored \in SUBSET File,
             UpdateFileClash(a, s, n, F, stored)
      PROVE  Next /\ versions \subseteq versions' /\ UNCHANGED index
  BY <1>3 DEF Next, UpdateStep, UpdateFileClash, InsertVersion
<1> QED BY <1>1, <1>2, <1>3

-----------------------------------------------------------------------------
(***************************************************************************)
(* Actions.                                                                *)
(***************************************************************************)

LEMMA QuietSteps ==
    ASSUME ConnInv, NEW t \in Thread,
           LockedOut(t) \/ ReadCall(t) \/ Search(t) \/ PublishNameClash(t) \/ Resolve(t)
    PROVE  ConnInv'
<1>1. /\ conn \in [Connection -> ConnState] /\ t \in Connection /\ Store \in Connection
      /\ holder # NoThread => conn[holder] = "idle" /\ holder \in Connection /\ holder # Store
  BY ThreadFacts DEF ConnInv, LocksOK
<1>2. /\ AfterRefusal(conn[t]) \in ConnState
      /\ \A c \in Connection : AfterRead(conn[c]) \in ConnState
      /\ \A c \in Connection : conn[c] = "idle" => AfterRead(conn[c]) = "idle"
  BY <1>1, StateTypes
<1>3. ASSUME UNCHANGED <<vars, saved, promised>>, LocksOK' PROVE ConnInv'
  BY <1>3, RowsStay DEF vars, rows
<1>4. CASE LockedOut(t)
  <2>1. holder # t
    BY <1>4, HolderMayWrite DEF LockedOut, ConnInv
  <2>2. UNCHANGED <<vars, saved, holder, promised>>
        /\ conn' = [conn EXCEPT ![t] = AfterRefusal(conn[t])]
    BY <1>4 DEF LockedOut
  <2>3. LocksOK'
    BY <1>1, <1>2, <2>1, <2>2, HolderStays DEF ConnInv, vars, rows
  <2> QED BY <1>3, <2>2, <2>3
<1>5. CASE ReadCall(t)
  <2>1. UNCHANGED <<vars, saved, holder, promised>>
        /\ conn' = [conn EXCEPT ![t] = AfterRead(conn[t])]
    BY <1>5 DEF ReadCall
  <2>2. LocksOK'
    BY <1>1, <1>2, <2>1, HolderStays DEF ConnInv, vars, rows
  <2> QED BY <1>3, <2>1, <2>2
<1>6. CASE Search(t)
  <2>1. UNCHANGED <<vars, saved, holder, promised>>
        /\ conn' = [conn EXCEPT ![t] = AfterRead(@), ![Store] = AfterRead(@)]
    BY <1>6 DEF Search
  <2>2. t # Store
    BY ThreadFacts
  <2>3. conn' \in [Connection -> ConnState] /\ (holder # NoThread => conn'[holder] = "idle")
    BY <1>1, <1>2, <2>1, <2>2
  <2>4. LocksOK'
    BY <2>1, <2>3, HolderStays DEF ConnInv, vars, rows
  <2> QED BY <1>3, <2>1, <2>4
<1>7. CASE PublishNameClash(t)
  <2>1. UNCHANGED <<vars, saved, promised>> /\ holder' = t
        /\ conn' = [conn EXCEPT ![t] = "idle"]
    BY <1>7 DEF PublishNameClash, LeftOpen
  <2>2. conn' \in [Connection -> ConnState] /\ conn'[t] = "idle"
    BY <1>1, <2>1 DEF ConnState
  <2> QED BY <1>3, <2>1, <2>2, HeldBy
<1>8. CASE Resolve(t)
  <2>1. UNCHANGED <<vars, promised>> /\ saved' = Rows' /\ holder' = NoThread
        /\ conn' = AfterCommitOf({t})
    BY <1>8 DEF Resolve, Commit
  <2>2. Sound'
    BY <2>1, RowsUnchanged DEF ConnInv, vars, rows
  <2>3. promised' \subseteq versions'
    BY <2>1 DEF ConnInv, Durable, vars
  <2> QED BY <1>1, <2>1, <2>2, <2>3, AfterCommitTypes, Commits
<1> QED BY <1>4, <1>5, <1>6, <1>7, <1>8

LEMMA WritingSteps ==
    ASSUME ConnInv, NEW t \in Thread,
           PlainCall(t) \/ RaisingCall(t) \/ WriteCall(t) \/ WriteCallUnindexed(t)
    PROVE  ConnInv'
<1>1. conn \in [Connection -> ConnState] /\ t \in Connection /\ Sound /\ promised \subseteq versions
  BY ThreadFacts DEF ConnInv, LocksOK, Durable
<1>2. CASE PlainCall(t)
  <2>1. /\ Next /\ saved' = Rows' /\ holder' = NoThread /\ conn' = AfterCommitOf({t})
        /\ promised' = promised \cap versions'
    BY <1>2, PlainIsStep DEF PlainCall, Commit
  <2> QED BY <1>1, <2>1, SoundStep, AfterCommitTypes, Commits
<1>3. CASE RaisingCall(t)
  <2>1. /\ Next /\ versions \subseteq versions' /\ UNCHANGED <<index, saved, promised>>
        /\ holder' = t /\ conn' = [conn EXCEPT ![t] = "idle"]
    BY <1>3, RaisingIsStep DEF RaisingCall, LeftOpen
  <2>2. conn' \in [Connection -> ConnState] /\ conn'[t] = "idle"
    BY <1>1, <2>1 DEF ConnState
  <2>3. LocksOK'
    BY <2>1, <2>2, HeldBy
  <2> QED BY <1>1, <2>1, <2>3, SoundStep, Saves
<1>4. ASSUME IndexingCall, saved' = Rows', holder' = NoThread,
             conn' \in [Connection -> ConnState],
             promised' \in {promised, promised \cup (Released' \ Released)}
      PROVE  ConnInv'
  <2>1. Sound' /\ versions \subseteq versions'
    BY <1>1, <1>4, IndexingIsStep, SoundStep
  <2>2. promised' \subseteq versions'
    BY <1>1, <1>4, <2>1, ReleasedAreRows DEF Sound
  <2> QED BY <1>4, <2>1, <2>2, Commits
<1>5. CASE WriteCall(t)
  BY <1>1, <1>4, <1>5, AfterCommitTypes DEF WriteCall, Commit
<1>6. CASE WriteCallUnindexed(t)
  BY <1>1, <1>4, <1>6, AfterCommitTypes DEF WriteCallUnindexed, Commit
<1> QED BY <1>2, <1>3, <1>5, <1>6

LEMMA RemovingStep ==
    ASSUME ConnInv, NEW t \in Thread, RemovingCall(t)
    PROVE  ConnInv'
<1>1. conn \in [Connection -> ConnState] /\ t \in Connection /\ Sound
  BY ThreadFacts DEF ConnInv, LocksOK
<1>2. Next
  BY DEF RemovingCall, Next, AgentStep
<1>3. saved' = Rows' /\ holder' = NoThread /\ promised' = promised \cap versions'
  BY DEF RemovingCall, Commit
<1>4. conn' \in [Connection -> ConnState]
  <2> DEFINE after == AfterCommitOf({t})
             store == after[Store]
  <2>1. after \in [Connection -> ConnState] /\ AfterCommitOf({t, Store}) \in [Connection -> ConnState]
    BY <1>1, AfterCommitTypes
  <2>2. store \in ConnState
    BY <2>1, ThreadFacts
  <2> HIDE DEF after
  <2>3. AfterCommit(IF versions' # versions THEN AfterRead(store) ELSE store) \in ConnState
    BY <2>2, StateTypes
  <2>4. conn' = IF index' # index THEN AfterCommitOf({t, Store})
                ELSE [after EXCEPT ![Store] =
                         AfterCommit(IF versions' # versions THEN AfterRead(@) ELSE @)]
    BY DEF RemovingCall, after
  <2> QED BY <2>1, <2>3, <2>4
<1> QED BY <1>1, <1>2, <1>3, <1>4, SoundStep, Commits

\* A removal that stops at the first version has changed nothing.
LEMMA StopsAtOnce ==
    ASSUME TypeOK, NEW v \in versions, Before(v) = {}, RemoveContentStopsAt({}, v),
           UNCHANGED <<agents, supers>>
    PROVE  UNCHANGED rows
<1>1. {w \in VersionsOf(v[1]) : w[2] < v[2]} = {}
  BY DEF Before
<1> QED BY <1>1 DEF RemoveContentStopsAt, TypeOK, rows

LEMMA RefusedStep ==
    ASSUME ConnInv, NEW t \in Thread, RemovingCallRefused(t)
    PROVE  ConnInv'
<1>1. /\ conn \in [Connection -> ConnState] /\ t \in Connection /\ Store \in Connection
      /\ t # Store /\ t # NoThread /\ Sound
  BY ThreadFacts DEF ConnInv, LocksOK
<1>2. PICK S \in SUBSET Skill, v \in versions :
        /\ \E a \in Agent :
              \/ S = {} /\ skill[v[1]].owner = a /\ a \in agents
              \/ /\ S \subseteq SkillsOf(a) /\ v[1] \in SkillsOf(a)
                 /\ \E u \in User : MayDeleteAgent(a, u)
        /\ RemoveContentStopsAt(S, v)
        /\ IF S # {} \/ Before(v) # {} THEN holder' = t ELSE UNCHANGED holder
        /\ conn' = IF index' # index
                   THEN [AfterCommitOf({t, Store}) EXCEPT ![Store] = "open"]
                   ELSE [conn EXCEPT ![Store] = AfterRefusal(@),
                                     ![t] = IF holder' = t THEN "idle" ELSE AfterRead(@)]
  BY DEF RemovingCallRefused
<1>3. /\ MayWrite(t) /\ promised' = promised \cap versions'
      /\ UNCHANGED <<agents, supers, saved>>
  BY DEF RemovingCallRefused
<1>4. Next
  <2>1. v[1] \in Skill /\ Exists(v[1]) /\ v \in VersionsOf(v[1])
    BY <1>1, VersionIdFacts DEF Sound, TypeOK, Structure, CurrentIsAVersion, VersionsOf
  <2>2. PICK a \in Agent :
          \/ S = {} /\ skill[v[1]].owner = a /\ a \in agents
          \/ /\ S \subseteq SkillsOf(a) /\ v[1] \in SkillsOf(a)
             /\ \E u \in User : MayDeleteAgent(a, u)
    BY <1>2
  <2>3. CASE S = {} /\ skill[v[1]].owner = a /\ a \in agents
    <3>1. DeleteFails(a, v[1])
      BY <1>2, <1>3, <2>1, <2>3 DEF DeleteFails
    <3> QED BY <2>1, <3>1 DEF Next
  <2>4. ASSUME NEW u \in User, MayDeleteAgent(a, u), S \subseteq SkillsOf(a), v[1] \in SkillsOf(a)
        PROVE  Next
    <3>1. DeleteAgentFails(a, u)
      BY <1>2, <1>3, <2>4 DEF DeleteAgentFails
    <3> QED BY <3>1 DEF Next, AgentStep
  <2> QED BY <2>2, <2>3, <2>4
<1>5. index' \subseteq index
  BY <1>2 DEF RemoveContentStopsAt
<1>6. conn' \in [Connection -> ConnState] /\ (holder' = t => conn'[t] = "idle")
  <2>1. CASE index' # index
    <3>1. /\ AfterCommitOf({t, Store}) \in [Connection -> ConnState]
          /\ AfterCommitOf({t, Store})[t] = "idle"
      BY <1>1, AfterCommitTypes
    <3>2. conn' = [AfterCommitOf({t, Store}) EXCEPT ![Store] = "open"]
      BY <1>2, <2>1
    <3> QED BY <1>1, <3>1, <3>2 DEF ConnState
  <2>2. CASE index' = index
    <3> DEFINE own == IF holder' = t THEN "idle" ELSE AfterRead(conn[t])
    <3>1. AfterRefusal(conn[Store]) \in ConnState /\ own \in ConnState
      BY <1>1, StateTypes DEF ConnState
    <3>2. conn' = [conn EXCEPT ![Store] = AfterRefusal(conn[Store]), ![t] = own]
      BY <1>1, <1>2, <2>2
    <3>3. holder' = t => own = "idle"
      OBVIOUS
    <3> HIDE DEF own
    <3> QED BY <1>1, <3>1, <3>2, <3>3
  <2> QED BY <2>1, <2>2
<1>7. LocksOK'
  <2>1. CASE holder' = t
    BY <1>6, <2>1, HeldBy
  <2>2. CASE holder' # t
    <3>1. S = {} /\ Before(v) = {} /\ UNCHANGED holder /\ holder = NoThread
      BY <1>2, <1>3, <2>2, HolderMayWrite DEF ConnInv
    <3>2. UNCHANGED rows
      BY <1>1, <1>2, <1>3, <3>1, StopsAtOnce DEF Sound
    <3> QED BY <1>3, <1>6, <3>1, <3>2, HolderStays DEF ConnInv
  <2> QED BY <2>1, <2>2
<1> QED BY <1>1, <1>3, <1>4, <1>5, <1>7, SoundStep, Saves

LEMMA LockedOutStep ==
    ASSUME ConnInv, NEW t \in Thread, RemovingCallLockedOut(t)
    PROVE  ConnInv'
<1>1. /\ conn \in [Connection -> ConnState] /\ t \in Connection /\ Store \in Connection
      /\ t # Store /\ (holder # NoThread => holder \in Thread /\ holder # Store)
      /\ holder # NoThread => conn[holder] = "idle"
  BY ThreadFacts DEF ConnInv, LocksOK
<1>2. UNCHANGED <<rows, saved, holder, promised>> /\ index' \subseteq index
  BY DEF RemovingCallLockedOut
<1>3. /\ AfterRead("idle") = "idle"
      /\ \A c \in Connection : AfterRead(conn[c]) \in ConnState /\ AfterRefusal(conn[c]) \in ConnState
  BY <1>1, StateTypes DEF ConnState
<1>4. \/ holder # t /\ conn' = [conn EXCEPT ![t] = AfterRefusal(conn[t]), ![Store] = AfterRead(conn[Store])]
      \/ holder # t /\ conn' = [conn EXCEPT ![t] = AfterRead(conn[t]), ![Store] = AfterRefusal(conn[Store])]
      \/ holder # t /\ conn' = [conn EXCEPT ![t] = AfterRefusal(conn[t])]
      \/ holder = NoThread /\ conn' = [AfterCommitOf({Store}) EXCEPT ![t] = "stale"]
  BY <1>1, HolderMayWrite DEF RemovingCallLockedOut, ConnInv
<1>5. conn' \in [Connection -> ConnState] /\ (holder # NoThread => conn'[holder] = "idle")
  <2>1. holder # NoThread => holder \in Connection
    BY <1>1 DEF Connection
  <2>2. ASSUME NEW x \in ConnState, NEW y \in ConnState, holder # t,
               conn' = [conn EXCEPT ![t] = x, ![Store] = y]
        PROVE  conn' \in [Connection -> ConnState] /\ (holder # NoThread => conn'[holder] = "idle")
    BY <1>1, <2>1, <2>2
  <2>3. CASE holder # t /\ conn' = [conn EXCEPT ![t] = AfterRefusal(conn[t]), ![Store] = AfterRead(conn[Store])]
    BY <1>1, <1>3, <2>2, <2>3
  <2>4. CASE holder # t /\ conn' = [conn EXCEPT ![t] = AfterRead(conn[t]), ![Store] = AfterRefusal(conn[Store])]
    BY <1>1, <1>3, <2>2, <2>4
  <2>5. CASE holder # t /\ conn' = [conn EXCEPT ![t] = AfterRefusal(conn[t])]
    BY <1>1, <1>3, <2>1, <2>5
  <2>6. CASE holder = NoThread /\ conn' = [AfterCommitOf({Store}) EXCEPT ![t] = "stale"]
    BY <1>1, <2>6, AfterCommitTypes DEF ConnState
  <2> QED BY <1>4, <2>3, <2>4, <2>5, <2>6
<1>6. LocksOK'
  BY <1>2, <1>5, HolderStays DEF ConnInv
<1> QED BY <1>2, <1>6, RowsStay

\* Deaths: between calls, while versions are removed, and after trust.record has
\* committed.
LEMMA CrashStep ==
    ASSUME ConnInv, Crash \/ CrashInRemoval \/ CrashInWrite, holder' = NoThread,
           conn' = [c \in Connection |-> "idle"], UNCHANGED promised
    PROVE  ConnInv'
<1>1. conn' \in [Connection -> ConnState] /\ Sound
  BY DEF ConnState, ConnInv
<1>2. CASE Crash \/ CrashInRemoval
  <2>1. Restore /\ index' \subseteq index
    BY <1>2 DEF Crash, CrashInRemoval
  <2>2. Sound' /\ saved' = Rows'
    BY <2>1, RestoreLoads DEF ConnInv
  <2>3. promised' \subseteq versions'
    BY <2>1 DEF ConnInv, Durable, Restore
  <2> QED BY <1>1, <2>2, <2>3, Commits
<1>3. CASE CrashInWrite
  <2>1. IndexingCall /\ saved' = Rows'
    BY <1>3 DEF CrashInWrite
  <2>2. Sound' /\ versions \subseteq versions'
    BY <1>1, <2>1, IndexingIsStep, SoundStep
  <2>3. promised' \subseteq versions'
    BY <2>2 DEF ConnInv, Durable
  <2> QED BY <1>1, <2>1, <2>2, <2>3, Commits
<1> QED BY <1>2, <1>3

LEMMA ConnInvInit == ConnInit => ConnInv
<1> SUFFICES ASSUME ConnInit PROVE ConnInv
  OBVIOUS
<1>1. Sound
  BY TypeOKInit, StructureInit, OwnersLiveInit DEF ConnInit, Sound
<1>2. /\ saved.agents = agents /\ saved.supers = supers /\ saved.skill = skill
      /\ saved.versions = versions /\ saved.files = files /\ saved.hash = hash
      /\ saved.trust = trust
  BY DEF ConnInit, Rows
<1>3. SavedSound
  BY <1>1, <1>2, SameTypes
     DEF ConnInit, SavedSound, Rows, Sound, TypeOK, Structure, AbsentIsNoSkill,
         CurrentIsAVersion, VersionsHaveNoGap, OwnersLive, Exists, AgentUser,
         Saved!TypeOK, Saved!CurrentIsAVersion, Saved!VersionsHaveNoGap, Saved!OwnersLive,
         Saved!Exists, Saved!AgentUser
<1>4. Durable
  BY <1>2 DEF ConnInit, Init, Durable
<1>5. LocksOK
  BY DEF ConnInit, LocksOK, ConnState
<1> QED BY <1>1, <1>3, <1>4, <1>5 DEF ConnInv

LEMMA ConnInvStep == ConnInv /\ [ConnNext]_connVars => ConnInv'
<1> SUFFICES ASSUME ConnInv, [ConnNext]_connVars PROVE ConnInv'
  OBVIOUS
<1>1. CASE UNCHANGED connVars
  <2>1. UNCHANGED <<rows, saved, holder, promised, index>> /\ conn' = conn
    BY <1>1 DEF connVars, vars, rows
  <2>2. LocksOK'
    BY <2>1, HolderStays DEF ConnInv, LocksOK
  <2> QED BY <2>1, <2>2, RowsStay
<1> QED BY <1>1, QuietSteps, WritingSteps, RemovingStep, RefusedStep, LockedOutStep, CrashStep
        DEF ConnNext

LEMMA ConnInvHolds == ConnSpec => []ConnInv
BY ConnInvInit, ConnInvStep, PTL DEF ConnSpec

-----------------------------------------------------------------------------

\* What a connection sees and what is committed keep the types of the schema, and
\* without an open transaction they are the same.
THEOREM ConnTypesHold == ConnSpec => []ConnTypeOK
<1>1. ConnInv => ConnTypeOK
  BY DEF ConnInv, ConnTypeOK, Sound, SavedSound, Durable, LocksOK, TypeOK, ConnState
<1> QED BY <1>1, ConnInvHolds, PTL

\* Whenever the process dies, the store holds no version the file has not.
THEOREM StoreStaysBehind == ConnSpec => []IndexWithinSaved
<1>1. ConnInv => IndexWithinSaved
  BY DEF ConnInv, Durable, IndexWithinSaved
<1> QED BY <1>1, ConnInvHolds, PTL

\* What was acknowledged is in the file until a delete removes it.
THEOREM PromisesAreKept == ConnSpec => []PromisesKept
<1>1. ConnInv => PromisesKept
  BY DEF ConnInv, Durable, PromisesKept
<1> QED BY <1>1, ConnInvHolds, PTL

\* A restart finds tables that fit together, and living owners.
THEOREM RestartsAreSound == ConnSpec => []RestartIsSound
<1>1. ConnInv => RestartIsSound
  BY DEF ConnInv, SavedSound, RestartIsSound
<1> QED BY <1>1, ConnInvHolds, PTL
=============================================================================
