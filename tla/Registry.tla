------------------------------ MODULE Registry ------------------------------
(***************************************************************************)
(* The skill registry: RegistryService (skill_vault/service.py) together   *)
(* with the trust records it writes (trust.py), the vector index it keeps  *)
(* in step (search.py) and the agents that own skills (auth.py).           *)
(*                                                                         *)
(* One action is one call, as the connection that makes it sees the        *)
(* database.  A call that raises half way is an action too: no caller      *)
(* rolls back, so the rows written before the exception stay in the        *)
(* connection's open transaction and the next commit on that connection    *)
(* makes them durable.  What other connections and a crash make of that    *)
(* open transaction is the subject of module Connections.                  *)
(*                                                                         *)
(* An operator under the comment "Mutant" is no part of the model: it is a *)
(* wrong form of the definition that follows it, for trying the properties *)
(* on.                                                                     *)
(*                                                                         *)
(* A version id is the pair <<skill, version number>>; the code draws a    *)
(* UUID for it, and UNIQUE(skill_id, version) makes the two equivalent.    *)
(***************************************************************************)
EXTENDS Naturals

CONSTANTS
    Agent,          \* agent ids
    User,           \* dashboard accounts
    Superuser,      \* the accounts with users.superuser = 1
    Skill,          \* skill ids
    Name,           \* skill names
    File,           \* stored (stripped) names of attached files
    MaxVersion,     \* bound on the version numbers of a skill
    UserOf,         \* the owner_user_id an agent is created with
    NoAgent,        \* the NULL of skills.owner_agent_id, and the guest caller
    NoUser,         \* the NULL of agents.owner_user_id
    NoName,         \* the name of an absent skill row
    HasCuratorKey,  \* settings.curator_key is configured in this process
    StoreMayFail,   \* a write to the vector store may raise
    MayReindex      \* an operator runs the CLI command "reindex"

ASSUME ConstantsAssumption ==
    /\ NoAgent \notin Agent
    /\ NoUser \notin User
    /\ NoName \notin Name
    /\ Superuser \subseteq User
    /\ UserOf \in [Agent -> User \cup {NoUser}]
    /\ MaxVersion \in Nat
    /\ HasCuratorKey \in BOOLEAN
    /\ StoreMayFail \in BOOLEAN
    /\ MayReindex \in BOOLEAN

VARIABLES
    agents,    \* rows of agents
    supers,    \* agents with is_super_agent = 1
    skill,     \* rows of skills, NoSkill where there is none
    versions,  \* ids of the rows of skill_versions
    files,     \* file names in skill_version_files, per version
    hash,      \* what skill_versions.content_hash was computed from
    trust,     \* rows of trust, NoTrust where there is none
    index      \* version ids in the vector store

vars == <<agents, supers, skill, versions, files, hash, trust, index>>

-----------------------------------------------------------------------------
(***************************************************************************)
(* Rows.                                                                   *)
(***************************************************************************)

Visibility == {"global", "personal", "team"}
Scope == {"global", "personal", "team", "all"}
Caller == Agent \cup {NoAgent}
VersionNo == 1..MaxVersion
VersionId == Skill \X VersionNo

SkillRow == [vis     : Visibility \cup {"absent"},
             owner   : Caller,
             name    : Name \cup {NoName},
             current : {0} \cup VersionNo]     \* 0 is NULL

NoSkill == [vis |-> "absent", owner |-> NoAgent, name |-> NoName, current |-> 0]

\* The canonical payload of a version, whose name, body and tags its id stands
\* for: the attached files, and whether they are serialised under the names the
\* file rows carry.  They are not when an uploaded name has surrounding blanks
\* or occurs twice, since _build_payload hashes the raw names and
\* _insert_version stores f.filename.strip().
Payload == [files : SUBSET File, exact : BOOLEAN]

Upload == {u \in Payload : u.files = {} => u.exact}

PayloadOf(F) == [files |-> F, exact |-> TRUE]

\* A trust row: the tier and the payloads its stored signature verifies.
Trust == [tier : {"none", "user", "public", "verified"}, sig : SUBSET Payload]

NoTrust == [tier |-> "none", sig |-> {}]

Exists(s) == skill[s].vis # "absent"

VersionsOf(s) == {v \in versions : v[1] = s}

SkillsOf(a) == {s \in Skill : Exists(s) /\ skill[s].owner = a}

\* n is COALESCE(MAX(version), 0) + 1, and within the bound
IsNextVersion(s, n) ==
    /\ n \in VersionNo
    /\ \A v \in VersionsOf(s) : v[2] < n
    /\ n = 1 \/ <<s, n - 1>> \in versions

\* UNIQUE(name, owner_agent_id): NULL owners are distinct.
NameFree(nm, a, s) == \A t \in SkillsOf(a) \ {s} : skill[t].name # nm

AgentUser(a) == IF a \in agents THEN UserOf[a] ELSE NoUser

-----------------------------------------------------------------------------
(***************************************************************************)
(* Reading: tiers, authorisation and search.                               *)
(***************************************************************************)

\* Mutant: "team", which migration 003 added, is forgotten.
ComputeTierWithoutTeam(vis, a) ==
    IF vis = "personal" /\ a # NoAgent THEN "user" ELSE "public"

\* TrustService.compute_tier for the unsigned case
ComputeTier(vis, a) ==
    IF vis # "global" /\ a # NoAgent THEN "user" ELSE "public"

Signed(p) == [tier |-> "verified", sig |-> {p}]
Unsigned(vis, a) == [tier |-> ComputeTier(vis, a), sig |-> {}]

\* Mutant: signs whatever the visibility.
PublishTrustSignsAll(vis, a, p) ==
    IF HasCuratorKey THEN Signed(p) ELSE Unsigned(vis, a)

\* _record_publish_trust; a caller that may publish globally is super or admin
PublishTrust(vis, a, p) ==
    IF vis = "global" /\ HasCuratorKey THEN Signed(p) ELSE Unsigned(vis, a)

ResolveTier(v) ==
    IF trust[v].tier # "none" THEN trust[v].tier
    ELSE IF skill[v[1]].owner # NoAgent THEN "user" ELSE "public"

SameUser(a, b) == AgentUser(a) # NoUser /\ AgentUser(a) = AgentUser(b)

\* _authorize_read
MayRead(a, s) ==
    /\ skill[s].vis = "personal" => a # NoAgent /\ skill[s].owner = a
    /\ skill[s].vis = "team" => a # NoAgent /\ SameUser(a, skill[s].owner)

\* verify_integrity on the payload rebuilt from the stored rows
Intact(v) == hash[v] = PayloadOf(files[v])

SignatureValid(v) == PayloadOf(files[v]) \in trust[v].sig

\* Mutant of InScope: any agent sees the team skills of every user.
InScopeAnyTeam(scope, a, s) ==
    \/ skill[s].vis = "global" /\ (scope = "global" \/ a # NoAgent)
    \/ skill[s].vis = "personal" /\ scope \in {"personal", "all"} /\ skill[s].owner = a
    \/ skill[s].vis = "team" /\ scope \in {"team", "all"} /\ a # NoAgent

\* _scope_predicate, per scope
InScope(scope, a, s) ==
    \/ /\ skill[s].vis = "global"
       /\ \/ scope = "global"
          \/ scope = "team" /\ AgentUser(a) # NoUser
          \/ scope = "all" /\ a # NoAgent
    \/ /\ skill[s].vis = "personal"
       /\ scope \in {"personal", "all"}
       /\ a # NoAgent
       /\ skill[s].owner = a
    \/ /\ skill[s].vis = "team"
       /\ scope \in {"team", "all"}
       /\ a # NoAgent
       /\ SameUser(a, skill[s].owner)

\* The versions a search may return, before ranking cuts them off
SearchHits(scope, a) == {v \in index : v \in versions /\ InScope(scope, a, v[1])}

-----------------------------------------------------------------------------
(***************************************************************************)
(* Pieces of the write paths.                                              *)
(***************************************************************************)

\* _insert_version: the row, its hash, and the file rows stored for it
InsertVersion(v, stored, hashed) ==
    /\ versions' = versions \cup {v}
    /\ files' = [files EXCEPT ![v] = stored]
    /\ hash' = [hash EXCEPT ![v] = hashed]

\* index_version, which may raise in the embedder or in the store
IndexVersion(v) ==
    \/ index' = index \cup {v}
    \/ StoreMayFail /\ index' = index

\* Mutant: the replaced version is not removed.
AddToIndex(old, new) == index' = index \cup {new}

\* index_version of the new version, then remove_version of the old one
ReplaceInIndex(old, new) ==
    \/ index' = (index \ {old}) \cup {new}
    \/ StoreMayFail /\ index' = index
    \/ StoreMayFail /\ index' = index \cup {new}

\* Mutant: relies on the cascades of the schema, which do not reach the store.
RemoveContentKeepsIndex(S) ==
    /\ skill' = [s \in Skill |-> IF s \in S THEN NoSkill ELSE skill[s]]
    /\ versions' = {v \in versions : v[1] \notin S}
    /\ files' = [v \in VersionId |-> IF v[1] \in S THEN {} ELSE files[v]]
    /\ hash' = [v \in VersionId |-> IF v[1] \in S THEN PayloadOf({}) ELSE hash[v]]
    /\ trust' = [v \in VersionId |-> IF v[1] \in S THEN NoTrust ELSE trust[v]]
    /\ UNCHANGED index

\* _remove_skill_content of every skill of S, with the cascades of the schema
RemoveContent(S) ==
    /\ skill' = [s \in Skill |-> IF s \in S THEN NoSkill ELSE skill[s]]
    /\ versions' = {v \in versions : v[1] \notin S}
    /\ files' = [v \in VersionId |-> IF v[1] \in S THEN {} ELSE files[v]]
    /\ hash' = [v \in VersionId |-> IF v[1] \in S THEN PayloadOf({}) ELSE hash[v]]
    /\ trust' = [v \in VersionId |-> IF v[1] \in S THEN NoTrust ELSE trust[v]]
    /\ index' = {v \in index : v[1] \notin S}

\* Mutants of RemoveContentStopsAt with S = {}: each version row is deleted right
\* after its store entry; current_version_id is cleared before the loop.
StopsAfterDeletingRows(S, v) ==
    /\ StoreMayFail /\ S = {} /\ v \in versions
    /\ versions' = {w \in versions : w[1] # v[1] \/ w[2] >= v[2]}
    /\ index' = index \cap versions'
    /\ UNCHANGED <<skill, files, hash, trust>>

StopsAfterClearingCurrent(S, v) ==
    /\ StoreMayFail /\ S = {} /\ v \in versions
    /\ skill' = [skill EXCEPT ![v[1]].current = 0]
    /\ UNCHANGED <<versions, files, hash, trust, index>>

\* The store raises at version v after the skills of S and the versions before
\* v are done: their store entries and trust rows are gone, v's skill stays.
RemoveContentStopsAt(S, v) ==
    LET done == {w \in VersionsOf(v[1]) : w[2] < v[2]}
    IN  /\ StoreMayFail
        /\ v \in versions
        /\ v[1] \notin S
        /\ skill' = [s \in Skill |-> IF s \in S THEN NoSkill ELSE skill[s]]
        /\ versions' = {w \in versions : w[1] \notin S}
        /\ files' = [w \in VersionId |-> IF w[1] \in S THEN {} ELSE files[w]]
        /\ hash' = [w \in VersionId |-> IF w[1] \in S THEN PayloadOf({}) ELSE hash[w]]
        /\ trust' = [w \in VersionId |->
                        IF w[1] \in S \/ w \in done THEN NoTrust ELSE trust[w]]
        /\ index' = {w \in index : w[1] \notin S /\ w \notin done}

\* Mutants of Rehash: the hash is kept; the signature is kept; the tier is
\* derived again.
RehashKeepsHash(v, F) ==
    /\ files' = [files EXCEPT ![v] = F]
    /\ UNCHANGED <<hash, trust>>

RehashKeepsSignature(v, F) ==
    /\ files' = [files EXCEPT ![v] = F]
    /\ hash' = [hash EXCEPT ![v] = PayloadOf(F)]
    /\ UNCHANGED trust

RehashDerivesTier(v, F) ==
    /\ files' = [files EXCEPT ![v] = F]
    /\ hash' = [hash EXCEPT ![v] = PayloadOf(F)]
    /\ trust' = [trust EXCEPT ![v] = Unsigned(skill[v[1]].vis, skill[v[1]].owner)]

\* _recompute_version_hash and _resign_verified after a change of the files
Rehash(v, F) ==
    /\ files' = [files EXCEPT ![v] = F]
    /\ hash' = [hash EXCEPT ![v] = PayloadOf(F)]
    /\ trust' = IF HasCuratorKey /\ trust[v].tier = "verified"
                THEN [trust EXCEPT ![v] = Signed(PayloadOf(F))]
                ELSE trust

-----------------------------------------------------------------------------
(***************************************************************************)
(* Agents.                                                                 *)
(***************************************************************************)

CreateAgent(a) ==
    /\ a \notin agents
    /\ agents' = agents \cup {a}
    /\ UNCHANGED <<supers, skill, versions, files, hash, trust, index>>

\* Mutant: no row check.
SetSuperAgentUnchecked(a, on) ==
    /\ supers' = IF on THEN supers \cup {a} ELSE supers \ {a}
    /\ UNCHANGED <<agents, skill, versions, files, hash, trust, index>>

SetSuperAgent(a, on) ==
    /\ a \in agents
    /\ supers' = IF on THEN supers \cup {a} ELSE supers \ {a}
    /\ UNCHANGED <<agents, skill, versions, files, hash, trust, index>>

\* Mutant: the agents of the user are not counted.
MayDeleteLastAgent(a, u) == a \in agents /\ (u \in Superuser \/ UserOf[a] = u)

\* The guards of delete_agent for dashboard user u
MayDeleteAgent(a, u) ==
    /\ a \in agents
    /\ u \notin Superuser => /\ UserOf[a] = u
                             /\ \E b \in agents \ {a} : UserOf[b] = UserOf[a]

\* Mutant: left to ON DELETE SET NULL.
DeleteAgentOrphans(a, u) ==
    /\ MayDeleteAgent(a, u)
    /\ agents' = agents \ {a}
    /\ supers' = supers \ {a}
    /\ skill' = [s \in Skill |-> IF s \in SkillsOf(a)
                               THEN [skill[s] EXCEPT !.owner = NoAgent] ELSE skill[s]]
    /\ UNCHANGED <<versions, files, hash, trust, index>>

DeleteAgent(a, u) ==
    /\ MayDeleteAgent(a, u)
    /\ agents' = agents \ {a}
    /\ supers' = supers \ {a}
    /\ RemoveContent(SkillsOf(a))

\* The cascade raises at one version of one of the agent's skills
DeleteAgentFails(a, u) ==
    /\ MayDeleteAgent(a, u)
    /\ \E S \in SUBSET SkillsOf(a), v \in versions :
          /\ v[1] \in SkillsOf(a)
          /\ RemoveContentStopsAt(S, v)
    /\ UNCHANGED <<agents, supers>>

-----------------------------------------------------------------------------
(***************************************************************************)
(* Publish.  A call with an agent key may attach files, and needs a super  *)
(* agent for a global skill.  The dashboard (admin_publish, admin_update)  *)
(* needs no super agent, and its form attaches no files.                   *)
(***************************************************************************)

MayWriteGlobal(a, F) == a \in supers \/ F = {}

MayPublish(a, s, vis, nm, F) ==
    /\ a \in agents
    /\ ~Exists(s)
    /\ MaxVersion > 0
    /\ vis = "global" => MayWriteGlobal(a, F)
    /\ vis = "team" => UserOf[a] # NoUser
    /\ NameFree(nm, a, s)

Publish(a, s, vis, nm, u) ==
    LET v == <<s, 1>>
    IN  /\ MayPublish(a, s, vis, nm, u.files)
        /\ skill' = [skill EXCEPT ![s] = [vis |-> vis, owner |-> a,
                                          name |-> nm, current |-> 1]]
        /\ InsertVersion(v, u.files, u)
        /\ trust' = [trust EXCEPT ![v] = PublishTrust(vis, a, u)]
        /\ IndexVersion(v)
        /\ UNCHANGED <<agents, supers>>

\* Two uploaded files have the same stored name: the skill and its version are
\* inserted, and the files before the clash, when UNIQUE raises.
PublishFileClash(a, s, vis, nm, F, stored) ==
    LET v == <<s, 1>>
    IN  /\ MayPublish(a, s, vis, nm, F)
        /\ stored \subseteq F /\ stored # {}
        /\ skill' = [skill EXCEPT ![s] = [vis |-> vis, owner |-> a,
                                          name |-> nm, current |-> 0]]
        /\ InsertVersion(v, stored, [files |-> F, exact |-> FALSE])
        /\ UNCHANGED <<agents, supers, trust, index>>

\* admin_publish_seed as seed_skills calls it; signed says that the seed file is
\* marked "verify" and the seed command has a key.  A seed whose files clash ends
\* the command, and its process takes the uncommitted rows with it.
PublishSeed(s, nm, F, signed) ==
    LET v == <<s, 1>>
    IN  /\ ~Exists(s)
        /\ MaxVersion > 0
        /\ \A t \in Skill : skill[t].vis = "global" => skill[t].name # nm
        /\ skill' = [skill EXCEPT ![s] = [vis |-> "global", owner |-> NoAgent,
                                          name |-> nm, current |-> 1]]
        /\ InsertVersion(v, F, PayloadOf(F))
        /\ trust' = [trust EXCEPT ![v] = IF signed THEN Signed(PayloadOf(F))
                                         ELSE Unsigned("global", NoAgent)]
        /\ IndexVersion(v)
        /\ UNCHANGED <<agents, supers>>

-----------------------------------------------------------------------------
(***************************************************************************)
(* Update.                                                                 *)
(***************************************************************************)

MayUpdate(a, s, n, F) ==
    /\ a \in agents
    /\ Exists(s)
    /\ skill[s].owner = a
    /\ skill[s].vis = "global" => MayWriteGlobal(a, F)
    /\ IsNextVersion(s, n)

Update(a, s, n, nm, u) ==
    LET v == <<s, n>>
    IN  /\ MayUpdate(a, s, n, u.files)
        /\ NameFree(nm, a, s)
        /\ InsertVersion(v, u.files, u)
        /\ skill' = [skill EXCEPT ![s] = [vis |-> skill[s].vis, owner |-> a,
                                          name |-> nm, current |-> n]]
        /\ trust' = [trust EXCEPT ![v] = PublishTrust(skill[s].vis, a, u)]
        /\ ReplaceInIndex(<<s, skill[s].current>>, v)
        /\ UNCHANGED <<agents, supers>>

\* The new name is taken by another skill of the agent: UNIQUE raises at the
\* UPDATE of skills, after the version and its files are inserted.
UpdateNameClash(a, s, n, nm, u) ==
    /\ MayUpdate(a, s, n, u.files)
    /\ ~NameFree(nm, a, s)
    /\ InsertVersion(<<s, n>>, u.files, u)
    /\ UNCHANGED <<agents, supers, skill, trust, index>>

UpdateFileClash(a, s, n, F, stored) ==
    /\ MayUpdate(a, s, n, F)
    /\ stored \subseteq F /\ stored # {}
    /\ InsertVersion(<<s, n>>, stored, [files |-> F, exact |-> FALSE])
    /\ UNCHANGED <<agents, supers, skill, trust, index>>

-----------------------------------------------------------------------------
(***************************************************************************)
(* Delete, files, and the operator's commands.                             *)
(***************************************************************************)

Delete(a, s) ==
    /\ a \in agents
    /\ Exists(s) /\ skill[s].owner = a
    /\ RemoveContent({s})
    /\ UNCHANGED <<agents, supers>>

DeleteFails(a, s) ==
    /\ a \in agents
    /\ Exists(s) /\ skill[s].owner = a
    /\ \E v \in VersionsOf(s) : RemoveContentStopsAt({}, v)
    /\ UNCHANGED <<agents, supers>>

\* The tool upload_skill_file names any version
AddSkillFile(v, f) ==
    /\ v \in versions
    /\ f \notin files[v]
    /\ Rehash(v, files[v] \cup {f})
    /\ UNCHANGED <<agents, supers, skill, versions, index>>

\* Only the dashboard calls it, for the released version of an agent's skill
DeleteSkillFile(v, f) ==
    /\ v \in versions
    /\ v[2] = skill[v[1]].current
    /\ skill[v[1]].owner # NoAgent
    /\ f \in files[v]
    /\ Rehash(v, files[v] \ {f})
    /\ UNCHANGED <<agents, supers, skill, versions, index>>

\* recheck_signatures (CLI "curator re-sign"), for one seed name: the current
\* version of a global skill of that name is signed as it is stored.
ReSign(s) ==
    LET v == <<s, skill[s].current>>
    IN  /\ skill[s].vis = "global"
        /\ skill[s].current # 0
        /\ trust' = [trust EXCEPT ![v] = Signed(PayloadOf(files[v]))]
        /\ UNCHANGED <<agents, supers, skill, versions, files, hash, index>>

\* reindex_all upserts every version; a store that raises leaves the ones done
Reindex(done) ==
    /\ MayReindex
    /\ StoreMayFail \/ done = versions
    /\ index' = index \cup done
    /\ UNCHANGED <<agents, supers, skill, versions, files, hash, trust>>

-----------------------------------------------------------------------------

Init ==
    /\ agents = {}
    /\ supers = {}
    /\ skill = [s \in Skill |-> NoSkill]
    /\ versions = {}
    /\ files = [v \in VersionId |-> {}]
    /\ hash = [v \in VersionId |-> PayloadOf({})]
    /\ trust = [v \in VersionId |-> NoTrust]
    /\ index = {}

AgentStep ==
    \E a \in Agent :
        \/ CreateAgent(a)
        \/ \E on \in BOOLEAN : SetSuperAgent(a, on)
        \/ \E u \in User : DeleteAgent(a, u) \/ DeleteAgentFails(a, u)

PublishStep ==
    \E a \in Agent, s \in Skill, nm \in Name, vis \in Visibility :
        \/ \E u \in Upload : Publish(a, s, vis, nm, u)
        \/ \E F, stored \in SUBSET File : PublishFileClash(a, s, vis, nm, F, stored)

UpdateStep ==
    \E a \in Agent, s \in Skill, n \in VersionNo :
        \/ \E nm \in Name, u \in Upload :
              Update(a, s, n, nm, u) \/ UpdateNameClash(a, s, n, nm, u)
        \/ \E F, stored \in SUBSET File : UpdateFileClash(a, s, n, F, stored)

OperatorStep ==
    \/ \E s \in Skill, nm \in Name, F \in SUBSET File, signed \in BOOLEAN :
          PublishSeed(s, nm, F, signed)
    \/ \E s \in Skill : ReSign(s)
    \/ \E done \in SUBSET versions : Reindex(done)

Next ==
    \/ AgentStep
    \/ PublishStep
    \/ UpdateStep
    \/ OperatorStep
    \/ \E a \in Agent, s \in Skill : Delete(a, s) \/ DeleteFails(a, s)
    \/ \E v \in VersionId, f \in File : AddSkillFile(v, f) \/ DeleteSkillFile(v, f)

Spec == Init /\ [][Next]_vars

-----------------------------------------------------------------------------
(***************************************************************************)
(* Properties.                                                             *)
(***************************************************************************)

\* The rows have the types of the schema.
TypeOK ==
    /\ agents \subseteq Agent
    /\ supers \subseteq agents
    /\ skill \in [Skill -> SkillRow]
    /\ versions \subseteq VersionId
    /\ files \in [VersionId -> SUBSET File]
    /\ hash \in [VersionId -> Payload]
    /\ trust \in [VersionId -> Trust]
    /\ index \subseteq VersionId

\* The released version of a skill is one of its version rows, and a version
\* row belongs to a skill row, whatever calls raised half way (_publish,
\* _update and _remove_skill_content write the two tables in several steps).
CurrentIsAVersion ==
    /\ \A s \in Skill : skill[s].current # 0 => <<s, skill[s].current>> \in versions
    /\ \A v \in versions : Exists(v[1])

\* The version numbers of a skill are 1, 2, ... without a gap, also after
\* updates that raised and left a version row behind (_update takes MAX + 1).
VersionsHaveNoGap ==
    \A v \in versions : \A n \in 1..v[2] : <<v[1], n>> \in versions

\* The vector store holds no version the registry has lost: a hit can always be
\* joined to its row, whichever store write of publish, update, delete,
\* delete_agent or reindex fails.
IndexWithinVersions == index \subseteq versions

\* Deleting an agent leaves no skill of its own behind (the schema would only
\* set the owner to NULL): a private skill always has a living owner, and a team
\* skill one that belongs to a user, so somebody can read and delete it.
OwnersLive ==
    \A s \in Skill :
        /\ skill[s].owner \in agents \cup {NoAgent}
        /\ skill[s].vis \in {"personal", "team"} => skill[s].owner # NoAgent
        /\ skill[s].vis = "team" => AgentUser(skill[s].owner) # NoUser

\* Search and get agree on who reads what, though two pieces of code decide it: the
\* scope predicates of search.py never show a caller more than _authorize_read in
\* service.py admits (guests may only search the global scope), and scope "all" misses
\* no indexed version that get would give the caller.
SearchAgreesWithGet ==
    /\ \A a \in agents \cup {NoAgent}, scope \in Scope :
          a # NoAgent \/ scope = "global" =>
              \A v \in SearchHits(scope, a) : MayRead(a, v[1])
    /\ \A a \in agents : \A v \in index : MayRead(a, v[1]) => v \in SearchHits("all", a)

\* A stored content hash that was computed from the stored rows still matches
\* them: no path changes the files of a version without recomputing its hash.
HashFollowsFiles == \A v \in versions : hash[v].exact => Intact(v)

\* A version of tier "verified" that passes the integrity check of get also has
\* a valid signature, after any publish, update, re-sign and any sequence of file
\* uploads and deletions (_resign_verified).  It needs a curator key in the
\* process.
VerifiedIsSigned ==
    \A v \in versions : trust[v].tier = "verified" /\ Intact(v) => SignatureValid(v)

\* Only versions of global skills are ever "verified", and a version nobody
\* released carries no tier.
VerifiedIsGlobal ==
    \A v \in VersionId :
        /\ trust[v].tier = "verified" => skill[v[1]].vis = "global"
        /\ trust[v].tier # "none" => v \in versions /\ v[2] <= skill[v[1]].current

\* With a store that does not fail and no reindex, the vector store holds the
\* released version of every skill and nothing else.
IndexIsCurrent ==
    index = {v \in VersionId : Exists(v[1]) /\ v[2] = skill[v[1]].current}

\* With a store that does not fail, a released version has a trust row and its
\* tier fits the visibility of its skill.
CurrentHasTier ==
    \A s \in Skill : skill[s].current # 0 =>
        LET v == <<s, skill[s].current>>
        IN  /\ trust[v].tier # "none"
            /\ (ResolveTier(v) = "user") <=> (skill[s].vis # "global")

\* Every stored version passes the integrity check of get.
EveryVersionIntact == \A v \in versions : Intact(v)

\* While no superuser acts, a user who has agents keeps at least one of them,
\* whatever the user deletes and in whatever order (the guard of delete_agent).
LastAgentStays ==
    [][Superuser = {} =>
          \A u \in User : (\E a \in agents : UserOf[a] = u) =>
                              \E a \in agents' : UserOf[a] = u]_vars

\* A version that was "verified" stays so as long as it exists.
VerifiedStays ==
    [][\A v \in versions \cap versions' :
            trust[v].tier = "verified" => trust'[v].tier = "verified"]_vars

\* Whatever calls raise half way, and whatever the store does: a skill keeps its owner
\* and its audience, its version never goes back, no owner has two skills of one name,
\* and what an agent cannot delete stays (module Vault).
V == INSTANCE Vault WITH
    Audience <- Visibility, Owner <- Agent, NoOwner <- NoAgent, Nothing <- NoSkill

ImplementsVault == V!VaultSpec
=============================================================================
