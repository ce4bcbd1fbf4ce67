--------------------------- MODULE RegistryProofs ---------------------------
(***************************************************************************)
(* Theorems about Registry, for every value of its constants.              *)
(***************************************************************************)
EXTENDS Registry, TLAPS

\* What the constants promise, in the form the steps below use.
LEMMA VersionIdFacts ==
    ASSUME NEW v \in VersionId
    PROVE  /\ v[1] \in Skill
           /\ v[2] \in VersionNo
           /\ v[2] \in Nat \ {0}
           /\ v = <<v[1], v[2]>>
BY ConstantsAssumption DEF VersionId, VersionNo

LEMMA PublishTrustType ==
    ASSUME NEW vis \in Visibility, NEW a \in Caller, NEW p \in Payload
    PROVE  PublishTrust(vis, a, p) \in Trust /\ Unsigned(vis, a) \in Trust
                /\ Signed(p) \in Trust
BY DEF PublishTrust, Unsigned, Signed, ComputeTier, Trust, Visibility

LEMMA PayloadOfType == ASSUME NEW F \in SUBSET File PROVE PayloadOf(F) \in Payload
BY DEF PayloadOf, Payload

LEMMA NoRowTypes == NoSkill \in SkillRow /\ NoTrust \in Trust
BY DEF NoSkill, SkillRow, Caller, NoTrust, Trust

-----------------------------------------------------------------------------
(***************************************************************************)
(* Types.                                                                  *)
(***************************************************************************)

LEMMA TypeOKInit == Init => TypeOK
BY NoRowTypes, PayloadOfType DEF Init, TypeOK

LEMMA InsertVersionType ==
    ASSUME TypeOK, NEW v \in VersionId, NEW F \in SUBSET File, NEW p \in Payload,
           InsertVersion(v, F, p)
    PROVE  /\ versions' \subseteq VersionId
           /\ files' \in [VersionId -> SUBSET File]
           /\ hash' \in [VersionId -> Payload]
BY DEF TypeOK, InsertVersion

LEMMA RehashType ==
    ASSUME TypeOK, NEW v \in VersionId, NEW F \in SUBSET File, Rehash(v, F)
    PROVE  /\ files' \in [VersionId -> SUBSET File]
           /\ hash' \in [VersionId -> Payload]
           /\ trust' \in [VersionId -> Trust]
<1>1. PayloadOf(F) \in Payload
  BY PayloadOfType
<1>2. Signed(PayloadOf(F)) \in Trust
  BY <1>1 DEF Signed, Trust
<1> QED BY <1>1, <1>2 DEF TypeOK, Rehash

LEMMA RemoveContentType ==
    ASSUME TypeOK, NEW S \in SUBSET Skill,
           RemoveContent(S) \/ \E v \in versions : RemoveContentStopsAt(S, v)
    PROVE  /\ skill' \in [Skill -> SkillRow]
           /\ versions' \subseteq VersionId
           /\ files' \in [VersionId -> SUBSET File]
           /\ hash' \in [VersionId -> Payload]
           /\ trust' \in [VersionId -> Trust]
           /\ index' \subseteq VersionId
<1>1. PayloadOf({}) \in Payload
  BY PayloadOfType
<1> QED BY <1>1, NoRowTypes DEF TypeOK, RemoveContent, RemoveContentStopsAt

LEMMA TypeOKStep == TypeOK /\ [Next]_vars => TypeOK'
<1> SUFFICES ASSUME TypeOK, [Next]_vars PROVE TypeOK'
  OBVIOUS
<1> USE DEF TypeOK
<1>1. ASSUME NEW a \in Agent, CreateAgent(a) PROVE TypeOK'
  BY <1>1 DEF CreateAgent
<1>2. ASSUME NEW a \in Agent, NEW on \in BOOLEAN, SetSuperAgent(a, on) PROVE TypeOK'
  BY <1>2 DEF SetSuperAgent
<1>3. ASSUME NEW a \in Agent, NEW u \in User, DeleteAgent(a, u) PROVE TypeOK'
  <2>1. SkillsOf(a) \in SUBSET Skill
    BY DEF SkillsOf
  <2>2. RemoveContent(SkillsOf(a)) /\ agents' = agents \ {a} /\ supers' = supers \ {a}
    BY <1>3 DEF DeleteAgent
  <2> QED BY <2>1, <2>2, RemoveContentType
<1>4. ASSUME NEW a \in Agent, NEW u \in User, DeleteAgentFails(a, u) PROVE TypeOK'
  <2>1. PICK S \in SUBSET SkillsOf(a), v \in versions : RemoveContentStopsAt(S, v)
    BY <1>4 DEF DeleteAgentFails
  <2>2. S \in SUBSET Skill
    BY DEF SkillsOf
  <2>3. UNCHANGED <<agents, supers>>
    BY <1>4 DEF DeleteAgentFails
  <2> QED BY <2>1, <2>2, <2>3, RemoveContentType
<1>5. ASSUME NEW a \in Agent, NEW s \in Skill, NEW nm \in Name, NEW vis \in Visibility,
             NEW u \in Upload, Publish(a, s, vis, nm, u)
      PROVE  TypeOK'
  <2>1. 1 \in VersionNo /\ <<s, 1>> \in VersionId
    BY <1>5, ConstantsAssumption DEF Publish, MayPublish, VersionNo, VersionId
  <2>2. u \in Payload /\ u.files \in SUBSET File
    BY DEF Upload, Payload
  <2>3. PublishTrust(vis, a, u) \in Trust
    BY <2>2, PublishTrustType DEF Caller
  <2>4. skill' \in [Skill -> SkillRow]
    BY <1>5, <2>1 DEF Publish, SkillRow, Caller
  <2>5. trust' \in [VersionId -> Trust]
    BY <1>5, <2>3 DEF Publish
  <2>6. InsertVersion(<<s, 1>>, u.files, u) /\ IndexVersion(<<s, 1>>)
        /\ UNCHANGED <<agents, supers>>
    BY <1>5 DEF Publish
  <2> QED BY <2>1, <2>2, <2>4, <2>5, <2>6, InsertVersionType DEF IndexVersion
<1>6. ASSUME NEW a \in Agent, NEW s \in Skill, NEW nm \in Name, NEW vis \in Visibility,
             NEW F \in SUBSET File, NEW stored \in SUBSET File,
             PublishFileClash(a, s, vis, nm, F, stored)
      PROVE  TypeOK'
  <2>1. <<s, 1>> \in VersionId
    BY <1>6, ConstantsAssumption DEF PublishFileClash, MayPublish, VersionNo, VersionId
  <2>2. skill' \in [Skill -> SkillRow]
    BY <1>6 DEF PublishFileClash, SkillRow, Caller
  <2>3. InsertVersion(<<s, 1>>, stored, [files |-> F, exact |-> FALSE])
        /\ UNCHANGED <<agents, supers, trust, index>>
    BY <1>6 DEF PublishFileClash
  <2>4. [files |-> F, exact |-> FALSE] \in Payload
    BY DEF Payload
  <2> QED BY <2>1, <2>2, <2>3, <2>4, InsertVersionType
<1>7. ASSUME NEW a \in Agent, NEW s \in Skill, NEW n \in VersionNo, NEW nm \in Name,
             NEW u \in Upload, Update(a, s, n, nm, u)
      PROVE  TypeOK'
  <2>1. <<s, n>> \in VersionId
    BY DEF VersionId
  <2>2. u \in Payload /\ u.files \in SUBSET File
    BY DEF Upload, Payload
  <2>3. skill[s].vis \in Visibility
    BY <1>7 DEF Update, MayUpdate, Exists, SkillRow
  <2>4. PublishTrust(skill[s].vis, a, u) \in Trust
    BY <2>2, <2>3, PublishTrustType DEF Caller
  <2>5. skill' \in [Skill -> SkillRow]
    BY <1>7, <2>3 DEF Update, SkillRow, Caller
  <2>6. trust' \in [VersionId -> Trust]
    BY <1>7, <2>4 DEF Update
  <2>7. InsertVersion(<<s, n>>, u.files, u) /\ UNCHANGED <<agents, supers>>
        /\ ReplaceInIndex(<<s, skill[s].current>>, <<s, n>>)
    BY <1>7 DEF Update
  <2> QED BY <2>1, <2>2, <2>5, <2>6, <2>7, InsertVersionType DEF ReplaceInIndex
<1>8. ASSUME NEW a \in Agent, NEW s \in Skill, NEW n \in VersionNo, NEW nm \in Name,
             NEW u \in Upload, UpdateNameClash(a, s, n, nm, u)
      PROVE  TypeOK'
  <2>1. <<s, n>> \in VersionId /\ u \in Payload /\ u.files \in SUBSET File
    BY DEF VersionId, Upload, Payload
  <2> QED BY <1>8, <2>1, InsertVersionType DEF UpdateNameClash
<1>9. ASSUME NEW a \in Agent, NEW s \in Skill, NEW n \in VersionNo,
             NEW F \in SUBSET File, NEW stored \in SUBSET File,
             UpdateFileClash(a, s, n, F, stored)
      PROVE  TypeOK'
  <2>1. <<s, n>> \in VersionId /\ [files |-> F, exact |-> FALSE] \in Payload
    BY DEF VersionId, Payload
  <2> QED BY <1>9, <2>1, InsertVersionType DEF UpdateFileClash
<1>10. ASSUME NEW s \in Skill, NEW nm \in Name, NEW F \in SUBSET File,
              NEW signed \in BOOLEAN, PublishSeed(s, nm, F, signed)
       PROVE  TypeOK'
  <2>1. 1 \in VersionNo /\ <<s, 1>> \in VersionId /\ PayloadOf(F) \in Payload
    BY <1>10, ConstantsAssumption, PayloadOfType DEF PublishSeed, VersionNo, VersionId
  <2>2. skill' \in [Skill -> SkillRow]
    BY <1>10, <2>1 DEF PublishSeed, SkillRow, Caller, Visibility
  <2>3. Signed(PayloadOf(F)) \in Trust /\ Unsigned("global", NoAgent) \in Trust
    BY <2>1, PublishTrustType DEF Caller, Visibility
  <2>4. trust' \in [VersionId -> Trust]
    BY <1>10, <2>3 DEF PublishSeed
  <2>5. InsertVersion(<<s, 1>>, F, PayloadOf(F)) /\ IndexVersion(<<s, 1>>)
        /\ UNCHANGED <<agents, supers>>
    BY <1>10 DEF PublishSeed
  <2> QED BY <2>1, <2>2, <2>4, <2>5, InsertVersionType DEF IndexVersion
<1>11. ASSUME NEW s \in Skill, ReSign(s) PROVE TypeOK'
  <2> DEFINE v == <<s, skill[s].current>>
  <2>1. v \in VersionId
    BY <1>11 DEF ReSign, VersionId, SkillRow
  <2>2. Signed(PayloadOf(files[v])) \in Trust
    BY <2>1, PayloadOfType DEF Signed, Trust
  <2>3. trust' \in [VersionId -> Trust]
    BY <1>11, <2>2 DEF ReSign
  <2> QED BY <1>11, <2>3 DEF ReSign
<1>12. ASSUME NEW done \in SUBSET versions, Reindex(done) PROVE TypeOK'
  BY <1>12 DEF Reindex
<1>13. ASSUME NEW a \in Agent, NEW s \in Skill, Delete(a, s) \/ DeleteFails(a, s)
       PROVE  TypeOK'
  <2>1. CASE Delete(a, s)
    <3>1. RemoveContent({s}) /\ UNCHANGED <<agents, supers>>
      BY <2>1 DEF Delete
    <3> QED BY <3>1, RemoveContentType
  <2>2. CASE DeleteFails(a, s)
    <3>1. PICK v \in VersionsOf(s) : RemoveContentStopsAt({}, v)
      BY <2>2 DEF DeleteFails
    <3>2. {} \in SUBSET Skill /\ v \in versions /\ UNCHANGED <<agents, supers>>
      BY <2>2 DEF DeleteFails, VersionsOf
    <3>3. \E w \in versions : RemoveContentStopsAt({}, w)
      BY <3>1, <3>2
    <3> QED BY <3>2, <3>3, RemoveContentType
  <2> QED BY <1>13, <2>1, <2>2
<1>14. ASSUME NEW v \in VersionId, NEW f \in File, AddSkillFile(v, f) \/ DeleteSkillFile(v, f)
       PROVE  TypeOK'
  <2>1. files[v] \cup {f} \in SUBSET File /\ files[v] \ {f} \in SUBSET File
    OBVIOUS
  <2> QED BY <1>14, <2>1, RehashType DEF AddSkillFile, DeleteSkillFile
<1>15. CASE UNCHANGED vars
  BY <1>15 DEF vars
<1> QED
  <2> HIDE DEF TypeOK
  <2>1. CASE AgentStep
    BY <2>1, <1>1, <1>2, <1>3, <1>4 DEF AgentStep
  <2>2. CASE PublishStep
    BY <2>2, <1>5, <1>6 DEF PublishStep
  <2>3. CASE UpdateStep
    BY <2>3, <1>7, <1>8, <1>9 DEF UpdateStep
  <2>4. CASE OperatorStep
    BY <2>4, <1>10, <1>11, <1>12 DEF OperatorStep
  <2> QED
    BY <2>1, <2>2, <2>3, <2>4, <1>13, <1>14, <1>15 DEF Next

\* The rows of a reachable state have the types of the schema.
THEOREM TypeCorrect == Spec => []TypeOK
BY TypeOKInit, TypeOKStep, PTL DEF Spec

-----------------------------------------------------------------------------
(***************************************************************************)
(* The tables fit together.                                                *)
(***************************************************************************)

\* The strengthening: an absent row carries nothing, so that a skill published
\* under its id starts afresh.
AbsentIsNoSkill == \A s \in Skill : ~Exists(s) => skill[s] = NoSkill

Structure ==
    /\ AbsentIsNoSkill
    /\ CurrentIsAVersion
    /\ VersionsHaveNoGap
    /\ IndexWithinVersions

LEMMA StructureInit == Init => Structure
BY VersionIdFacts
   DEF Init, Structure, AbsentIsNoSkill, CurrentIsAVersion, VersionsHaveNoGap,
       IndexWithinVersions, Exists, NoSkill

\* A skill that is absent has no versions, so 1 is its next one.
LEMMA AbsentHasNoVersion ==
    ASSUME TypeOK, Structure, NEW s \in Skill, ~Exists(s), MaxVersion > 0
    PROVE  /\ \A v \in versions : v[1] # s
           /\ IsNextVersion(s, 1)
           /\ 1 \in VersionNo
           /\ <<s, 1>> \in VersionId
BY ConstantsAssumption
   DEF Structure, CurrentIsAVersion, IsNextVersion, VersionsOf, VersionNo, VersionId

\* A step that adds the next version of one skill and changes no other skill.
LEMMA NextVersionStructure ==
    ASSUME TypeOK, Structure, NEW s \in Skill, NEW n \in VersionNo, IsNextVersion(s, n),
           versions' = versions \cup {<<s, n>>},
           skill' \in [Skill -> SkillRow],
           skill'[s].vis # "absent",
           skill'[s].current \in {skill[s].current, 0, n},
           \A t \in Skill \ {s} : skill'[t] = skill[t],
           index' \subseteq versions'
    PROVE  Structure'
<1>1. AbsentIsNoSkill'
  BY DEF Structure, AbsentIsNoSkill, Exists
<1>2. CurrentIsAVersion'
  <2>1. ASSUME NEW t \in Skill, skill'[t].current # 0
        PROVE  <<t, skill'[t].current>> \in versions'
    BY <2>1 DEF Structure, CurrentIsAVersion
  <2>2. ASSUME NEW v \in versions' PROVE skill'[v[1]].vis # "absent"
    BY <2>2, VersionIdFacts DEF TypeOK, Structure, CurrentIsAVersion, Exists
  <2> QED BY <2>1, <2>2 DEF CurrentIsAVersion, Exists
<1>3. VersionsHaveNoGap'
  <2> SUFFICES ASSUME NEW v \in versions', NEW m \in 1..v[2]
               PROVE  <<v[1], m>> \in versions'
    BY DEF VersionsHaveNoGap
  <2>1. CASE v \in versions
    BY <2>1 DEF Structure, VersionsHaveNoGap
  <2>2. CASE v = <<s, n>> /\ m = n
    BY <2>2
  <2>3. CASE v = <<s, n>> /\ m < n
    <3>1. n \in Nat /\ m \in Nat /\ 1 <= m
      BY <2>3, ConstantsAssumption DEF VersionNo
    <3>2. <<s, n - 1>> \in versions /\ m \in 1..(n - 1)
      BY <2>3, <3>1 DEF IsNextVersion
    <3>3. <<s, m>> \in versions
      <4>1. \A k \in 1..(<<s, n - 1>>[2]) : <<<<s, n - 1>>[1], k>> \in versions
        BY <3>2 DEF Structure, VersionsHaveNoGap
      <4> QED BY <4>1, <3>2
    <3> QED BY <3>3, <2>3
  <2>4. n \in Nat /\ (v = <<s, n>> => v[2] = n)
    BY ConstantsAssumption DEF VersionNo
  <2> QED BY <2>1, <2>2, <2>3, <2>4
<1> QED BY <1>1, <1>2, <1>3 DEF Structure, IndexWithinVersions

LEMMA RemoveContentStructure ==
    ASSUME TypeOK, Structure, NEW S \in SUBSET Skill,
           RemoveContent(S) \/ \E v \in versions : RemoveContentStopsAt(S, v)
    PROVE  Structure'
<1>1. /\ skill' = [s \in Skill |-> IF s \in S THEN NoSkill ELSE skill[s]]
      /\ versions' = {v \in versions : v[1] \notin S}
      /\ index' \subseteq {v \in index : v[1] \notin S}
  BY DEF RemoveContent, RemoveContentStopsAt
<1>2. AbsentIsNoSkill'
  BY <1>1 DEF Structure, AbsentIsNoSkill, Exists
<1>3. CurrentIsAVersion'
  <2>1. ASSUME NEW s \in Skill, skill'[s].current # 0
        PROVE  <<s, skill'[s].current>> \in versions'
    BY <1>1, <2>1 DEF Structure, CurrentIsAVersion, NoSkill
  <2>2. ASSUME NEW v \in versions' PROVE skill'[v[1]].vis # "absent"
    BY <1>1, <2>2, VersionIdFacts DEF TypeOK, Structure, CurrentIsAVersion, Exists
  <2> QED BY <2>1, <2>2 DEF CurrentIsAVersion, Exists
<1>4. VersionsHaveNoGap'
  BY <1>1 DEF Structure, VersionsHaveNoGap
<1> QED BY <1>1, <1>2, <1>3, <1>4 DEF Structure, IndexWithinVersions

LEMMA StructureStep == TypeOK /\ TypeOK' /\ Structure /\ [Next]_vars => Structure'
<1> SUFFICES ASSUME TypeOK, TypeOK', Structure, [Next]_vars PROVE Structure'
  OBVIOUS
<1>1. ASSUME UNCHANGED <<skill, versions>>, index' \subseteq versions PROVE Structure'
  BY <1>1 DEF Structure, AbsentIsNoSkill, CurrentIsAVersion, VersionsHaveNoGap,
              IndexWithinVersions, Exists
<1>2. index \subseteq versions /\ skill' \in [Skill -> SkillRow]
  BY DEF Structure, IndexWithinVersions, TypeOK
<1>3. CASE AgentStep
  <2>1. ASSUME NEW a \in Agent, CreateAgent(a) \/ \E on \in BOOLEAN : SetSuperAgent(a, on)
        PROVE  Structure'
    BY <1>1, <1>2, <2>1 DEF CreateAgent, SetSuperAgent
  <2>2. ASSUME NEW a \in Agent, NEW u \in User, DeleteAgent(a, u) PROVE Structure'
    <3>1. SkillsOf(a) \in SUBSET Skill /\ RemoveContent(SkillsOf(a))
      BY <2>2 DEF DeleteAgent, SkillsOf
    <3> QED BY <3>1, RemoveContentStructure
  <2>3. ASSUME NEW a \in Agent, NEW u \in User, DeleteAgentFails(a, u) PROVE Structure'
    <3>1. PICK S \in SUBSET SkillsOf(a), v \in versions : RemoveContentStopsAt(S, v)
      BY <2>3 DEF DeleteAgentFails
    <3>2. S \in SUBSET Skill
      BY DEF SkillsOf
    <3> QED BY <3>1, <3>2, RemoveContentStructure
  <2> QED BY <1>3, <2>1, <2>2, <2>3 DEF AgentStep
<1>4. CASE PublishStep
  <2>1. ASSUME NEW a \in Agent, NEW s \in Skill, NEW nm \in Name, NEW vis \in Visibility,
               \/ \E u \in Upload : Publish(a, s, vis, nm, u)
               \/ \E F, stored \in SUBSET File : PublishFileClash(a, s, vis, nm, F, stored)
        PROVE  Structure'
    <3>1. ~Exists(s) /\ MaxVersion > 0
      BY <2>1 DEF Publish, PublishFileClash, MayPublish
    <3>2. /\ versions' = versions \cup {<<s, 1>>}
          /\ skill'[s].vis # "absent"
          /\ skill'[s].current \in {0, 1}
          /\ \A t \in Skill \ {s} : skill'[t] = skill[t]
          /\ index' \subseteq index \cup {<<s, 1>>}
      <4>1. CASE \E u \in Upload : Publish(a, s, vis, nm, u)
        BY <4>1 DEF Publish, InsertVersion, IndexVersion, TypeOK, Visibility
      <4>2. CASE \E F, stored \in SUBSET File : PublishFileClash(a, s, vis, nm, F, stored)
        BY <4>2 DEF PublishFileClash, InsertVersion, TypeOK, Visibility
      <4> QED BY <2>1, <4>1, <4>2
    <3> QED BY <1>2, <3>1, <3>2, AbsentHasNoVersion, NextVersionStructure
  <2> QED BY <1>4, <2>1 DEF PublishStep
<1>5. CASE UpdateStep
  <2>1. ASSUME NEW a \in Agent, NEW s \in Skill, NEW n \in VersionNo, NEW nm \in Name,
               NEW u \in Upload, Update(a, s, n, nm, u)
        PROVE  Structure'
    <3>1. IsNextVersion(s, n) /\ Exists(s)
      BY <2>1 DEF Update, MayUpdate
    <3>2. /\ versions' = versions \cup {<<s, n>>}
          /\ skill'[s].vis # "absent"
          /\ skill'[s].current = n
          /\ \A t \in Skill \ {s} : skill'[t] = skill[t]
      BY <2>1, <3>1 DEF Update, InsertVersion, TypeOK, Exists
    <3>3. index' \subseteq index \cup {<<s, n>>}
      BY <2>1 DEF Update, ReplaceInIndex
    <3> QED BY <1>2, <3>1, <3>2, <3>3, NextVersionStructure
  <2>2. ASSUME NEW a \in Agent, NEW s \in Skill, NEW n \in VersionNo,
               \/ \E nm \in Name, u \in Upload : UpdateNameClash(a, s, n, nm, u)
               \/ \E F, stored \in SUBSET File : UpdateFileClash(a, s, n, F, stored)
        PROVE  Structure'
    <3>1. IsNextVersion(s, n) /\ Exists(s)
      BY <2>2 DEF UpdateNameClash, UpdateFileClash, MayUpdate
    <3>2. versions' = versions \cup {<<s, n>>} /\ UNCHANGED <<skill, index>>
      BY <2>2 DEF UpdateNameClash, UpdateFileClash, InsertVersion
    <3> QED BY <1>2, <3>1, <3>2, NextVersionStructure DEF Exists
  <2> QED BY <1>5, <2>1, <2>2 DEF UpdateStep
<1>6. CASE OperatorStep
  <2>1. ASSUME NEW s \in Skill, NEW nm \in Name, NEW F \in SUBSET File,
               NEW signed \in BOOLEAN, PublishSeed(s, nm, F, signed)
        PROVE  Structure'
    <3>1. ~Exists(s) /\ MaxVersion > 0
      BY <2>1 DEF PublishSeed
    <3>2. /\ versions' = versions \cup {<<s, 1>>}
          /\ skill'[s].vis # "absent"
          /\ skill'[s].current = 1
          /\ \A t \in Skill \ {s} : skill'[t] = skill[t]
          /\ index' \subseteq index \cup {<<s, 1>>}
      BY <2>1 DEF PublishSeed, InsertVersion, IndexVersion, TypeOK
    <3> QED BY <1>2, <3>1, <3>2, AbsentHasNoVersion, NextVersionStructure
  <2>2. ASSUME NEW s \in Skill, ReSign(s) PROVE Structure'
    BY <1>1, <1>2, <2>2 DEF ReSign
  <2>3. ASSUME NEW done \in SUBSET versions, Reindex(done) PROVE Structure'
    BY <1>1, <1>2, <2>3 DEF Reindex
  <2> QED BY <1>6, <2>1, <2>2, <2>3 DEF OperatorStep
<1>7. ASSUME NEW a \in Agent, NEW s \in Skill, Delete(a, s) PROVE Structure'
  <2>1. {s} \in SUBSET Skill /\ RemoveContent({s})
    BY <1>7 DEF Delete
  <2> QED BY <2>1, RemoveContentStructure
<1>8. ASSUME NEW a \in Agent, NEW s \in Skill, DeleteFails(a, s) PROVE Structure'
  <2>1. {} \in SUBSET Skill /\ \E v \in versions : RemoveContentStopsAt({}, v)
    BY <1>8 DEF DeleteFails, VersionsOf
  <2> QED BY <2>1, RemoveContentStructure
<1>9. ASSUME NEW v \in VersionId, NEW f \in File, AddSkillFile(v, f) \/ DeleteSkillFile(v, f)
      PROVE  Structure'
  BY <1>1, <1>2, <1>9 DEF AddSkillFile, DeleteSkillFile
<1>10. CASE UNCHANGED vars
  BY <1>1, <1>2, <1>10 DEF vars
<1> QED BY <1>3, <1>4, <1>5, <1>6, <1>7, <1>8, <1>9, <1>10 DEF Next

LEMMA StructureHolds == Spec => []Structure
BY StructureInit, StructureStep, TypeCorrect, PTL DEF Spec

\* The released version of every skill is one of its rows and no version row is
\* without its skill, whatever call raises half way.
THEOREM CurrentStaysAVersion == Spec => []CurrentIsAVersion
<1>1. Structure => CurrentIsAVersion
  BY DEF Structure
<1> QED BY <1>1, StructureHolds, PTL

\* Updates and the failures between their statements skip no version number.
THEOREM NumbersHaveNoGap == Spec => []VersionsHaveNoGap
<1>1. Structure => VersionsHaveNoGap
  BY DEF Structure
<1> QED BY <1>1, StructureHolds, PTL

\* The vector store never holds what the registry has lost, whatever raises half way.
THEOREM IndexStaysWithinVersions == Spec => []IndexWithinVersions
<1>1. Structure => IndexWithinVersions
  BY DEF Structure
<1> QED BY <1>1, StructureHolds, PTL

-----------------------------------------------------------------------------
(***************************************************************************)
(* The registry implements module Vault.                                   *)
(***************************************************************************)

\* Every skill named by an owner has a name of its own (NamesDiffer of Vault).
OwnNamesDiffer == V!NamesDiffer

\* A step of the registry, as Vault sees it.
VaultStep == [V!VaultNext]_skill

RowOffered ==
    \E s \in Skill, e \in V!Entry :
        /\ ~Exists(s)
        /\ e.owner = NoAgent => e.vis = "global"
        /\ e.owner # NoAgent => NameFree(e.name, e.owner, s)
        /\ skill' = [skill EXCEPT ![s] = e]

RowRevised ==
    \E s \in Skill, nm \in Name, n \in VersionNo :
        /\ Exists(s) /\ skill[s].owner \in Agent
        /\ n > skill[s].current
        /\ NameFree(nm, skill[s].owner, s)
        /\ skill' = [skill EXCEPT ![s] = [vis |-> skill[s].vis, owner |-> skill[s].owner,
                                          name |-> nm, current |-> n]]

RowsWithdrawn ==
    \E a \in Agent : \E S \in SUBSET SkillsOf(a) :
        skill' = [s \in Skill |-> IF s \in S THEN NoSkill ELSE skill[s]]

\* What a step of the registry does to the rows of skills
LEMMA RowSteps ==
    ASSUME TypeOK, Structure, [Next]_vars
    PROVE  UNCHANGED skill \/ RowOffered \/ RowRevised \/ RowsWithdrawn
<1>1. CASE AgentStep
  <2>1. ASSUME NEW a \in Agent, NEW u \in User, DeleteAgent(a, u) \/ DeleteAgentFails(a, u)
        PROVE  RowsWithdrawn
    <3>1. \E S \in SUBSET SkillsOf(a) :
             skill' = [s \in Skill |-> IF s \in S THEN NoSkill ELSE skill[s]]
      BY <2>1 DEF DeleteAgent, DeleteAgentFails, RemoveContent, RemoveContentStopsAt
    <3> QED BY <3>1 DEF RowsWithdrawn
  <2> QED BY <1>1, <2>1 DEF AgentStep, CreateAgent, SetSuperAgent
<1>2. CASE PublishStep
  <2>1. PICK a \in Agent, s \in Skill, nm \in Name, vis \in Visibility :
           \/ \E u \in Upload : Publish(a, s, vis, nm, u)
           \/ \E F, stored \in SUBSET File : PublishFileClash(a, s, vis, nm, F, stored)
    BY <1>2 DEF PublishStep
  <2>2. PICK n \in {0, 1} :
           skill' = [skill EXCEPT ![s] = [vis |-> vis, owner |-> a, name |-> nm, current |-> n]]
    BY <2>1 DEF Publish, PublishFileClash
  <2>3. ~Exists(s) /\ NameFree(nm, a, s)
    BY <2>1 DEF Publish, PublishFileClash, MayPublish
  <2> DEFINE e == [vis |-> vis, owner |-> a, name |-> nm, current |-> n]
  <2>4. e \in V!Entry /\ e.owner = a /\ e.owner # NoAgent /\ e.name = nm
    BY ConstantsAssumption DEF V!Entry
  <2> QED BY <2>2, <2>3, <2>4 DEF RowOffered
<1>3. CASE UpdateStep
  <2>1. ASSUME NEW a \in Agent, NEW s \in Skill, NEW n \in VersionNo, NEW nm \in Name,
               NEW u \in Upload, Update(a, s, n, nm, u)
        PROVE  RowRevised
    <3>1. /\ Exists(s) /\ skill[s].owner = a /\ NameFree(nm, a, s) /\ IsNextVersion(s, n)
          /\ skill' = [skill EXCEPT ![s] = [vis |-> skill[s].vis, owner |-> a,
                                            name |-> nm, current |-> n]]
      BY <2>1 DEF Update, MayUpdate
    <3>2. n > skill[s].current
      <4>1. CASE skill[s].current = 0
        BY <4>1, ConstantsAssumption DEF VersionNo
      <4>2. CASE skill[s].current # 0
        <5>1. <<s, skill[s].current>> \in VersionsOf(s)
          BY <4>2 DEF Structure, CurrentIsAVersion, VersionsOf
        <5>2. skill[s].current < n
          BY <3>1, <5>1 DEF IsNextVersion
        <5>3. skill[s].current \in Nat /\ n \in Nat
          BY ConstantsAssumption DEF VersionNo, TypeOK, SkillRow
        <5> QED BY <5>2, <5>3
      <4> QED BY <4>1, <4>2
    <3> QED BY <3>1, <3>2 DEF RowRevised
  <2> QED BY <1>3, <2>1 DEF UpdateStep, UpdateNameClash, UpdateFileClash
<1>4. CASE OperatorStep
  <2>1. ASSUME NEW s \in Skill, NEW nm \in Name, NEW F \in SUBSET File,
               NEW signed \in BOOLEAN, PublishSeed(s, nm, F, signed)
        PROVE  RowOffered
    <3> DEFINE e == [vis |-> "global", owner |-> NoAgent, name |-> nm, current |-> 1]
    <3>1. e \in V!Entry /\ e.owner = NoAgent /\ e.vis = "global"
      BY DEF V!Entry, Visibility
    <3>2. ~Exists(s) /\ skill' = [skill EXCEPT ![s] = e]
      BY <2>1 DEF PublishSeed
    <3> HIDE DEF e
    <3> QED BY <3>1, <3>2 DEF RowOffered
  <2>2. ASSUME \/ \E s \in Skill : ReSign(s)
               \/ \E done \in SUBSET versions : Reindex(done)
        PROVE  UNCHANGED skill
    BY <2>2 DEF ReSign, Reindex
  <2> QED BY <1>4, <2>1, <2>2 DEF OperatorStep
<1>5. ASSUME NEW a \in Agent, NEW s \in Skill, Delete(a, s) \/ DeleteFails(a, s)
      PROVE  RowsWithdrawn
  <2>1. {} \in SUBSET SkillsOf(a) /\ {s} \in SUBSET SkillsOf(a)
    BY <1>5 DEF Delete, DeleteFails, SkillsOf
  <2>2. \/ skill' = [t \in Skill |-> IF t \in {} THEN NoSkill ELSE skill[t]]
        \/ skill' = [t \in Skill |-> IF t \in {s} THEN NoSkill ELSE skill[t]]
    BY <1>5 DEF Delete, DeleteFails, RemoveContent, RemoveContentStopsAt
  <2> QED BY <2>1, <2>2 DEF RowsWithdrawn
<1>6. ASSUME NEW v \in VersionId, NEW f \in File, AddSkillFile(v, f) \/ DeleteSkillFile(v, f)
      PROVE  UNCHANGED skill
  BY <1>6 DEF AddSkillFile, DeleteSkillFile
<1>7. CASE UNCHANGED vars
  BY <1>7 DEF vars
<1> QED BY <1>1, <1>2, <1>3, <1>4, <1>5, <1>6, <1>7 DEF Next

LEMMA RowStepKeeps ==
    ASSUME TypeOK, AbsentIsNoSkill, OwnNamesDiffer,
           UNCHANGED skill \/ RowOffered \/ RowRevised \/ RowsWithdrawn
    PROVE  OwnNamesDiffer' /\ VaultStep
<1> USE DEF AbsentIsNoSkill, OwnNamesDiffer, V!NamesDiffer
<1>0. /\ skill \in [Skill -> SkillRow]
      /\ \A s \in Skill : V!Offered(s) <=> Exists(s)
      /\ NoSkill.vis = "absent"
  BY DEF TypeOK, V!Offered, Exists, NoSkill
<1>1. ASSUME NEW s \in Skill, NEW a \in Agent, NEW nm, NameFree(nm, a, s)
      PROVE  V!MayName(s, a, nm)
  BY <1>0, <1>1 DEF V!MayName, NameFree, SkillsOf
<1>2. ASSUME NEW s \in Skill, NEW e \in V!Entry, V!MayName(s, e.owner, e.name),
             skill' = [skill EXCEPT ![s] = e]
      PROVE  OwnNamesDiffer' /\ V!Becomes(s, e) /\ skill'[s] = e
  <2>1. skill'[s] = e /\ (\A t \in Skill \ {s} : skill'[t] = skill[t]) /\ e.vis # "absent"
    BY <1>0, <1>2 DEF V!Entry, Visibility
  <2>3. \A t \in Skill \ {s} :
           V!Offered(t) /\ skill[t].owner = e.owner /\ e.owner # NoAgent => skill[t].name # e.name
    BY <1>2 DEF V!MayName
  <2>4. \A t \in Skill \ {s} : (V!Offered(t))' <=> V!Offered(t)
    BY <2>1 DEF V!Offered
  <2>5. OwnNamesDiffer'
    BY <2>1, <2>3, <2>4
  <2> QED BY <1>2, <2>1, <2>5 DEF V!Becomes
<1>3. CASE UNCHANGED skill
  BY <1>3 DEF V!Offered, Exists, VaultStep
<1>4. CASE RowOffered
  <2>1. PICK s \in Skill, e \in V!Entry :
           /\ ~Exists(s)
           /\ e.owner = NoAgent => e.vis = "global"
           /\ e.owner # NoAgent => NameFree(e.name, e.owner, s)
           /\ skill' = [skill EXCEPT ![s] = e]
    BY <1>4 DEF RowOffered
  <2>2. V!MayName(s, e.owner, e.name)
    <3>1. CASE e.owner = NoAgent
      BY <3>1 DEF V!MayName
    <3>2. CASE e.owner # NoAgent
      BY <1>1, <2>1, <3>2 DEF V!Entry
    <3> QED BY <3>1, <3>2
  <2>3. OwnNamesDiffer' /\ V!Becomes(s, e) /\ skill'[s] = e
    BY <1>2, <2>1, <2>2
  <2>4. V!Offer(s)
    BY <1>0, <2>1, <2>3 DEF V!Offer
  <2> QED BY <2>3, <2>4 DEF VaultStep, V!VaultNext
<1>5. CASE RowRevised
  <2>1. PICK s \in Skill, nm \in Name, n \in VersionNo :
           /\ Exists(s) /\ skill[s].owner \in Agent
           /\ n > skill[s].current
           /\ NameFree(nm, skill[s].owner, s)
           /\ skill' = [skill EXCEPT ![s] = [vis |-> skill[s].vis, owner |-> skill[s].owner,
                                             name |-> nm, current |-> n]]
    BY <1>5 DEF RowRevised
  <2> DEFINE e == [vis |-> skill[s].vis, owner |-> skill[s].owner, name |-> nm, current |-> n]
  <2>2. e \in V!Entry /\ e.owner = skill[s].owner /\ e.name = nm /\ e.current = n
    <3>1. n \in Nat /\ skill[s].vis \in Visibility
      BY <1>0, <2>1, ConstantsAssumption DEF VersionNo, Exists, SkillRow
    <3> QED BY <2>1, <3>1 DEF V!Entry
  <2>3. e.vis = skill[s].vis
    OBVIOUS
  <2>4. V!MayName(s, e.owner, e.name) /\ skill' = [skill EXCEPT ![s] = e]
    BY <1>1, <2>1, <2>2
  <2> HIDE DEF e
  <2>5. OwnNamesDiffer' /\ V!Becomes(s, e) /\ skill'[s] = e
    BY <1>2, <2>2, <2>4
  <2>6. V!Revise(s)
    <3>1. skill[s].owner # NoAgent /\ V!Offered(s) /\ skill'[s].current > skill[s].current
      BY <1>0, <2>1, <2>2, <2>5, ConstantsAssumption
    <3> QED BY <2>2, <2>3, <2>5, <3>1 DEF V!Revise
  <2> QED BY <2>5, <2>6 DEF VaultStep, V!VaultNext
<1>6. CASE RowsWithdrawn
  <2>0. PICK a \in Agent : \E S \in SUBSET SkillsOf(a) :
           skill' = [s \in Skill |-> IF s \in S THEN NoSkill ELSE skill[s]]
    BY <1>6 DEF RowsWithdrawn
  <2>1. PICK S \in SUBSET SkillsOf(a) :
           skill' = [s \in Skill |-> IF s \in S THEN NoSkill ELSE skill[s]]
    BY <2>0
  <2>2. V!Withdraw(a, S) /\ S \in SUBSET Skill
    BY <1>0, <2>1 DEF V!Withdraw, SkillsOf
  <2>3. \A s \in Skill : skill'[s] \in {NoSkill, skill[s]}
    BY <2>1
  <2>4. OwnNamesDiffer'
    BY <1>0, <2>3 DEF V!Offered, Exists
  <2> QED BY <2>2, <2>4 DEF VaultStep, V!VaultNext
<1> QED BY <1>3, <1>4, <1>5, <1>6

LEMMA RowsInit ==
    ASSUME Init
    PROVE  OwnNamesDiffer /\ V!VaultInit
BY DEF Init, OwnNamesDiffer, V!NamesDiffer, V!VaultInit, V!Offered

\* Every call of the registry, also one that raises half way, is for each skill an
\* offer, a revision or a withdrawal as module Vault allows it, or nothing.
THEOREM RegistryImplementsVault == Spec => ImplementsVault
<1>1. ASSUME TypeOK, Structure, OwnNamesDiffer, [Next]_vars
      PROVE  OwnNamesDiffer' /\ VaultStep
  BY <1>1, RowSteps, RowStepKeeps DEF Structure
<1> QED BY <1>1, RowsInit, StructureHolds, TypeCorrect, PTL
        DEF Spec, ImplementsVault, V!VaultSpec, VaultStep

\* An agent never has two skills of one name, so that get finds the right one by its
\* name (the UNIQUE of schema.sql, across publish, update and their failures).
THEOREM NamesStayDifferent == Spec => [](V!NamesDiffer)
<1>1. ASSUME TypeOK, Structure, OwnNamesDiffer, [Next]_vars
      PROVE  OwnNamesDiffer'
  BY <1>1, RowSteps, RowStepKeeps DEF Structure
<1> QED BY <1>1, RowsInit, StructureHolds, TypeCorrect, PTL DEF Spec, OwnNamesDiffer
-----------------------------------------------------------------------------
(***************************************************************************)
(* Owners, agents and what search shows.                                   *)
(***************************************************************************)


LEMMA OwnersLiveInit == Init => OwnersLive
BY DEF Init, OwnersLive, NoSkill

\* Removing rows, or leaving them, while no agent disappears.
LEMMA RemovedRowsOwnersLive ==
    ASSUME OwnersLive, NEW S \in SUBSET Skill, UNCHANGED agents,
           skill' = [s \in Skill |-> IF s \in S THEN NoSkill ELSE skill[s]]
    PROVE  OwnersLive'
BY DEF OwnersLive, NoSkill, AgentUser

\* Writing the row of one skill for a living agent.
LEMMA WrittenRowOwnersLive ==
    ASSUME TypeOK, OwnersLive, NEW s \in Skill, UNCHANGED agents, NEW a \in agents,
           NEW vis \in Visibility, NEW nm, NEW n, vis = "team" => UserOf[a] # NoUser,
           skill' = [skill EXCEPT ![s] = [vis |-> vis, owner |-> a,
                                          name |-> nm, current |-> n]]
    PROVE  OwnersLive'
<1>1. a # NoAgent
  BY ConstantsAssumption DEF TypeOK
<1>2. \A t \in Skill : skill'[t] = IF t = s
                          THEN [vis |-> vis, owner |-> a, name |-> nm, current |-> n]
                          ELSE skill[t]
  BY DEF TypeOK
<1> QED BY <1>1, <1>2 DEF OwnersLive, AgentUser

LEMMA OwnersLiveStep == TypeOK /\ Structure /\ OwnersLive /\ [Next]_vars => OwnersLive'
<1> SUFFICES ASSUME TypeOK, Structure, OwnersLive, [Next]_vars PROVE OwnersLive'
  OBVIOUS
<1>1. ASSUME UNCHANGED <<agents, skill>> PROVE OwnersLive'
  BY <1>1 DEF OwnersLive, AgentUser
<1>2. CASE AgentStep
  <2>1. ASSUME NEW a \in Agent, CreateAgent(a) PROVE OwnersLive'
    BY <2>1, ConstantsAssumption DEF CreateAgent, OwnersLive, AgentUser
  <2>2. ASSUME NEW a \in Agent, NEW on \in BOOLEAN, SetSuperAgent(a, on) PROVE OwnersLive'
    BY <1>1, <2>2 DEF SetSuperAgent
  <2>3. ASSUME NEW a \in Agent, NEW u \in User, DeleteAgent(a, u) PROVE OwnersLive'
    <3>1. \A s \in Skill : skill'[s] = IF s \in SkillsOf(a) THEN NoSkill ELSE skill[s]
      BY <2>3 DEF DeleteAgent, RemoveContent
    <3>2. agents' = agents \ {a} /\ a # NoAgent
      BY <2>3, ConstantsAssumption DEF DeleteAgent
    <3>3. \A s \in Skill : s \notin SkillsOf(a) => skill[s].owner # a
      BY <3>2 DEF SkillsOf, Structure, AbsentIsNoSkill, NoSkill
    <3> QED BY <3>1, <3>2, <3>3 DEF OwnersLive, AgentUser, NoSkill
  <2>4. ASSUME NEW a \in Agent, NEW u \in User, DeleteAgentFails(a, u) PROVE OwnersLive'
    <3>1. PICK S \in SUBSET SkillsOf(a), v \in versions : RemoveContentStopsAt(S, v)
      BY <2>4 DEF DeleteAgentFails
    <3>2. S \in SUBSET Skill /\ UNCHANGED agents
      BY <2>4 DEF SkillsOf, DeleteAgentFails
    <3> QED BY <3>1, <3>2, RemovedRowsOwnersLive DEF RemoveContentStopsAt
  <2> QED BY <1>2, <2>1, <2>2, <2>3, <2>4 DEF AgentStep
<1>3. CASE PublishStep
  <2>1. ASSUME NEW a \in Agent, NEW s \in Skill, NEW nm \in Name, NEW vis \in Visibility,
               NEW u \in Upload, Publish(a, s, vis, nm, u)
        PROVE  OwnersLive'
    <3>1. a \in agents /\ (vis = "team" => UserOf[a] # NoUser) /\ UNCHANGED agents
      BY <2>1 DEF Publish, MayPublish
    <3>2. skill' = [skill EXCEPT ![s] = [vis |-> vis, owner |-> a,
                                         name |-> nm, current |-> 1]]
      BY <2>1 DEF Publish
    <3> QED BY <3>1, <3>2, WrittenRowOwnersLive
  <2>2. ASSUME NEW a \in Agent, NEW s \in Skill, NEW nm \in Name, NEW vis \in Visibility,
               NEW F \in SUBSET File, NEW stored \in SUBSET File,
               PublishFileClash(a, s, vis, nm, F, stored)
        PROVE  OwnersLive'
    <3>1. a \in agents /\ (vis = "team" => UserOf[a] # NoUser) /\ UNCHANGED agents
      BY <2>2 DEF PublishFileClash, MayPublish
    <3>2. skill' = [skill EXCEPT ![s] = [vis |-> vis, owner |-> a,
                                         name |-> nm, current |-> 0]]
      BY <2>2 DEF PublishFileClash
    <3> QED BY <3>1, <3>2, WrittenRowOwnersLive
  <2> QED BY <1>3, <2>1, <2>2 DEF PublishStep
<1>4. CASE UpdateStep
  <2>1. ASSUME NEW a \in Agent, NEW s \in Skill, NEW n \in VersionNo, NEW nm \in Name,
               NEW u \in Upload, Update(a, s, n, nm, u)
        PROVE  OwnersLive'
    <3>1. a \in agents /\ skill[s].owner = a /\ UNCHANGED agents
      BY <2>1 DEF Update, MayUpdate
    <3>2. skill' = [skill EXCEPT ![s] = [vis |-> skill[s].vis, owner |-> a,
                                         name |-> nm, current |-> n]]
      BY <2>1 DEF Update
    <3>3. skill[s].vis = "team" => UserOf[a] # NoUser
      BY <3>1 DEF OwnersLive, AgentUser
    <3>4. skill[s].vis \in Visibility
      BY <2>1 DEF Update, MayUpdate, Exists, TypeOK, SkillRow
    <3> QED BY <3>1, <3>2, <3>3, <3>4, WrittenRowOwnersLive
  <2> QED BY <1>1, <1>4, <2>1 DEF UpdateStep, UpdateNameClash, UpdateFileClash
<1>5. CASE OperatorStep
  <2>1. ASSUME NEW s \in Skill, NEW nm \in Name, NEW F \in SUBSET File,
               NEW signed \in BOOLEAN, PublishSeed(s, nm, F, signed)
        PROVE  OwnersLive'
    <3>1. UNCHANGED agents
      BY <2>1 DEF PublishSeed
    <3>2. skill'[s].vis = "global" /\ skill'[s].owner = NoAgent
          /\ \A t \in Skill \ {s} : skill'[t] = skill[t]
      BY <2>1 DEF PublishSeed, TypeOK
    <3> QED BY <3>1, <3>2 DEF OwnersLive, AgentUser
  <2>2. ASSUME \/ \E s \in Skill : ReSign(s)
               \/ \E done \in SUBSET versions : Reindex(done)
        PROVE  OwnersLive'
    BY <1>1, <2>2 DEF ReSign, Reindex
  <2> QED BY <1>5, <2>1, <2>2 DEF OperatorStep
<1>6. ASSUME NEW a \in Agent, NEW s \in Skill, Delete(a, s) \/ DeleteFails(a, s)
      PROVE  OwnersLive'
  <2>1. {} \in SUBSET Skill /\ {s} \in SUBSET Skill /\ UNCHANGED agents
    BY <1>6 DEF Delete, DeleteFails
  <2>2. \/ skill' = [t \in Skill |-> IF t \in {} THEN NoSkill ELSE skill[t]]
        \/ skill' = [t \in Skill |-> IF t \in {s} THEN NoSkill ELSE skill[t]]
    BY <1>6 DEF Delete, DeleteFails, RemoveContent, RemoveContentStopsAt
  <2> QED BY <2>1, <2>2, RemovedRowsOwnersLive
<1>7. ASSUME NEW v \in VersionId, NEW f \in File, AddSkillFile(v, f) \/ DeleteSkillFile(v, f)
      PROVE  OwnersLive'
  BY <1>1, <1>7 DEF AddSkillFile, DeleteSkillFile
<1>8. CASE UNCHANGED vars
  BY <1>1, <1>8 DEF vars
<1> QED BY <1>2, <1>3, <1>4, <1>5, <1>6, <1>7, <1>8 DEF Next

\* Every private skill has a living owner and every team skill one with a user,
\* after any sequence of deletions, complete or not.
THEOREM OwnersStayAlive == Spec => []OwnersLive
<1> QED BY StructureHolds, OwnersLiveInit, OwnersLiveStep, TypeCorrect, PTL DEF Spec

-----------------------------------------------------------------------------

\* Whatever a scope shows, get admits, for no scope predicate is weaker than _authorize_read.
LEMMA ScopesShowOnlyReadable ==
    ASSUME NEW a, NEW scope \in Scope, a # NoAgent \/ scope = "global",
           NEW v \in SearchHits(scope, a)
    PROVE  MayRead(a, v[1])
BY DEF SearchHits, InScope, MayRead, Scope

\* Scope "all" leaves out nothing an agent can read, as every entry has its skill.
LEMMA AllScopeMissesNothing ==
    ASSUME TypeOK, Structure, NEW a \in agents, NEW v \in index, MayRead(a, v[1])
    PROVE  v \in SearchHits("all", a)
<1>1. v \in versions /\ v[1] \in Skill /\ Exists(v[1])
  BY VersionIdFacts DEF Structure, IndexWithinVersions, CurrentIsAVersion, TypeOK
<1>2. skill[v[1]].vis \in Visibility /\ a # NoAgent
  BY <1>1, ConstantsAssumption DEF Exists, TypeOK, SkillRow
<1> QED BY <1>1, <1>2 DEF SearchHits, InScope, MayRead, Visibility

\* The scope predicates of search.py (652) and _authorize_read of service.py (606)
\* decide alike, for any users, agents and skills and after any calls.
THEOREM SearchStaysReadable == Spec => []SearchAgreesWithGet
<1>1. TypeOK /\ Structure => SearchAgreesWithGet
  BY ScopesShowOnlyReadable, AllScopeMissesNothing DEF SearchAgreesWithGet
<1> QED BY <1>1, StructureHolds, TypeCorrect, PTL

-----------------------------------------------------------------------------

\* A user who has agents cannot delete the last one, in any order of deletions.
THEOREM LastAgentCannotGo == Spec => LastAgentStays
<1> DEFINE Keeps == Superuser = {} =>
                       \A u \in User : (\E a \in agents : UserOf[a] = u) =>
                                           \E a \in agents' : UserOf[a] = u
<1>1. ASSUME [Next]_vars PROVE Keeps
  <2>1. ASSUME agents \subseteq agents' PROVE Keeps
    BY <2>1
  <2>2. ASSUME NEW a \in Agent, NEW u \in User, DeleteAgent(a, u) PROVE Keeps
    <3>1. agents' = agents \ {a} /\ MayDeleteAgent(a, u)
      BY <2>2 DEF DeleteAgent
    <3> QED BY <3>1 DEF MayDeleteAgent
  <2>3. CASE AgentStep
    BY <2>1, <2>2, <2>3 DEF AgentStep, CreateAgent, SetSuperAgent, DeleteAgentFails
  <2>4. CASE PublishStep
    <3>1. ASSUME NEW a \in Agent, NEW s \in Skill, NEW nm \in Name, NEW vis \in Visibility,
                 \/ \E u \in Upload : Publish(a, s, vis, nm, u)
                 \/ \E F, stored \in SUBSET File :
                        PublishFileClash(a, s, vis, nm, F, stored)
          PROVE  UNCHANGED agents
      BY <3>1 DEF Publish, PublishFileClash
    <3> QED BY <2>1, <2>4, <3>1 DEF PublishStep
  <2>5. CASE UpdateStep
    <3>1. ASSUME NEW a \in Agent, NEW s \in Skill, NEW n \in VersionNo,
                 \/ \E nm \in Name, u \in Upload :
                        Update(a, s, n, nm, u) \/ UpdateNameClash(a, s, n, nm, u)
                 \/ \E F, stored \in SUBSET File : UpdateFileClash(a, s, n, F, stored)
          PROVE  UNCHANGED agents
      BY <3>1 DEF Update, UpdateNameClash, UpdateFileClash
    <3> QED BY <2>1, <2>5, <3>1 DEF UpdateStep
  <2>6. CASE OperatorStep
    BY <2>1, <2>6 DEF OperatorStep, PublishSeed, ReSign, Reindex
  <2>7. ASSUME NEW a \in Agent, NEW s \in Skill, Delete(a, s) \/ DeleteFails(a, s)
        PROVE  Keeps
    BY <2>1, <2>7 DEF Delete, DeleteFails
  <2>8. ASSUME NEW v \in VersionId, NEW f \in File, AddSkillFile(v, f) \/ DeleteSkillFile(v, f)
        PROVE  Keeps
    BY <2>1, <2>8 DEF AddSkillFile, DeleteSkillFile
  <2>9. CASE UNCHANGED vars
    BY <2>1, <2>9 DEF vars
  <2> HIDE DEF Keeps
  <2> QED BY <1>1, <2>3, <2>4, <2>5, <2>6, <2>7, <2>8, <2>9 DEF Next
<1>2. [Next]_vars => [Keeps]_vars
  BY <1>1
<1> QED BY <1>2, PTL DEF Spec, LastAgentStays
=============================================================================
