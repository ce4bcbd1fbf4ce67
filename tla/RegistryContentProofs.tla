----------------------- MODULE RegistryContentProofs ------------------------
(***************************************************************************)
(* Theorems about hashes, tiers and signatures, for every value of the     *)
(* constants of Registry.                                                  *)
(***************************************************************************)
EXTENDS RegistryProofs

\* The three parts hold each other up: that only released versions carry a tier
\* makes a new version start without a signature.
Content ==
    /\ HashFollowsFiles
    /\ VerifiedIsGlobal
    /\ HasCuratorKey => VerifiedIsSigned

LEMMA ContentInit == Init => Content
BY DEF Init, Content, HashFollowsFiles, VerifiedIsGlobal, VerifiedIsSigned, NoTrust

\* A hash computed from the stored names is the hash of the stored rows.
LEMMA ExactPayload ==
    ASSUME NEW p \in Payload, p.exact
    PROVE  p = PayloadOf(p.files)
BY DEF Payload, PayloadOf

\* The next version of a skill is new and carries no tier.
LEMMA NextVersionIsNew ==
    ASSUME TypeOK, Content, NEW s \in Skill, NEW n \in VersionNo, IsNextVersion(s, n)
    PROVE  <<s, n>> \notin versions /\ trust[<<s, n>>].tier = "none"
<1>1. <<s, n>> \in VersionId /\ n \in Nat
  BY ConstantsAssumption DEF VersionId, VersionNo
<1>2. <<s, n>> \notin versions
  BY <1>1 DEF IsNextVersion, VersionsOf
<1> QED BY <1>1, <1>2 DEF Content, VerifiedIsGlobal

\* A step that inserts the next version of s, and a trust row for it only if it
\* becomes the released one.
LEMMA NewVersionContent ==
    ASSUME TypeOK, TypeOK', Content, NEW s \in Skill, NEW n \in VersionNo,
           IsNextVersion(s, n), NEW F \in SUBSET File, NEW p \in Payload,
           p.exact => p = PayloadOf(F),
           InsertVersion(<<s, n>>, F, p),
           \A t \in Skill \ {s} : skill'[t] = skill[t],
           \A v \in versions : v[1] = s => skill'[s].vis = skill[s].vis,
           \A v \in versions : v[1] = s => skill'[s].current >= skill[s].current,
           \A w \in VersionId \ {<<s, n>>} : trust'[w] = trust[w],
           trust'[<<s, n>>].tier # "none" => skill'[s].current = n,
           trust'[<<s, n>>].tier = "verified" =>
               skill'[s].vis = "global" /\ trust'[<<s, n>>].sig = {p}
    PROVE  Content'
<1> DEFINE x == <<s, n>>
<1>1. x \in VersionId /\ x \notin versions /\ n \in Nat /\ x[1] = s /\ x[2] = n
  BY NextVersionIsNew, ConstantsAssumption DEF VersionId, VersionNo
<1>2. /\ versions' = versions \cup {x}
      /\ files'[x] = F /\ hash'[x] = p
      /\ \A w \in VersionId \ {x} : files'[w] = files[w] /\ hash'[w] = hash[w]
  BY <1>1 DEF InsertVersion, TypeOK
<1> HIDE DEF x
<1>3. HashFollowsFiles'
  BY <1>1, <1>2 DEF HashFollowsFiles, Content, Intact, TypeOK
<1>4. VerifiedIsGlobal'
  <2> SUFFICES ASSUME NEW w \in VersionId
               PROVE  /\ trust'[w].tier = "verified" => skill'[w[1]].vis = "global"
                      /\ trust'[w].tier # "none" => w \in versions' /\ w[2] <= skill'[w[1]].current
    BY DEF VerifiedIsGlobal
  <2>1. CASE w = x
    BY <1>1, <1>2, <2>1 DEF x
  <2>2. CASE w # x
    <3>1. trust'[w] = trust[w] /\ w[1] \in Skill /\ w[2] \in Nat
      BY <2>2, VersionIdFacts DEF x
    <3>2. CASE trust[w].tier = "none"
      BY <3>1, <3>2
    <3>3. CASE trust[w].tier # "none"
      <4>1. w \in versions /\ w[2] <= skill[w[1]].current
            /\ (trust[w].tier = "verified" => skill[w[1]].vis = "global")
        BY <3>3 DEF Content, VerifiedIsGlobal
      <4>2. CASE w[1] # s
        BY <1>2, <3>1, <4>1, <4>2
      <4>3. CASE w[1] = s
        <5>1. skill'[s].vis = skill[s].vis /\ skill'[s].current >= skill[s].current
          BY <4>1, <4>3
        <5>2. skill'[s].current \in Nat /\ skill[s].current \in Nat
          BY ConstantsAssumption DEF TypeOK, SkillRow, VersionNo
        <5> QED BY <1>2, <3>1, <4>1, <4>3, <5>1, <5>2
      <4> QED BY <4>2, <4>3
    <3> QED BY <3>2, <3>3
  <2> QED BY <2>1, <2>2
<1>5. ASSUME HasCuratorKey PROVE VerifiedIsSigned'
  <2> SUFFICES ASSUME NEW w \in versions', trust'[w].tier = "verified", Intact(w)'
               PROVE  SignatureValid(w)'
    BY DEF VerifiedIsSigned
  <2>1. CASE w = x
    BY <1>2, <2>1 DEF Intact, SignatureValid, x
  <2>2. CASE w # x
    <3>1. w \in versions /\ w \in VersionId
      BY <1>2, <2>2 DEF TypeOK
    <3>2. trust'[w] = trust[w] /\ files'[w] = files[w] /\ hash'[w] = hash[w]
      BY <1>2, <2>2, <3>1 DEF x
    <3> QED BY <1>5, <3>1, <3>2 DEF Content, VerifiedIsSigned, Intact, SignatureValid
  <2> QED BY <2>1, <2>2
<1> QED BY <1>3, <1>4, <1>5 DEF Content

LEMMA RemoveContentContent ==
    ASSUME TypeOK, Content, NEW S \in SUBSET Skill,
           RemoveContent(S) \/ \E v \in versions : RemoveContentStopsAt(S, v)
    PROVE  Content'
<1>1. /\ skill' = [s \in Skill |-> IF s \in S THEN NoSkill ELSE skill[s]]
      /\ versions' = {v \in versions : v[1] \notin S}
      /\ \A w \in VersionId : w[1] \notin S => files'[w] = files[w] /\ hash'[w] = hash[w]
      /\ \A w \in VersionId : trust'[w] = NoTrust \/ (w[1] \notin S /\ trust'[w] = trust[w])
  BY DEF RemoveContent, RemoveContentStopsAt
<1>2. HashFollowsFiles'
  BY <1>1 DEF HashFollowsFiles, Content, Intact, TypeOK
<1>3. VerifiedIsGlobal'
  <2> SUFFICES ASSUME NEW w \in VersionId, trust'[w].tier # "none"
               PROVE  /\ trust'[w].tier = "verified" => skill'[w[1]].vis = "global"
                      /\ w \in versions' /\ w[2] <= skill'[w[1]].current
    BY DEF VerifiedIsGlobal
  <2>1. w[1] \notin S /\ trust'[w] = trust[w]
    BY <1>1 DEF NoTrust
  <2>2. skill'[w[1]] = skill[w[1]]
    BY <1>1, <2>1, VersionIdFacts
  <2> QED BY <1>1, <2>1, <2>2 DEF Content, VerifiedIsGlobal
<1>4. ASSUME HasCuratorKey PROVE VerifiedIsSigned'
  <2> SUFFICES ASSUME NEW w \in versions', trust'[w].tier = "verified", Intact(w)'
               PROVE  SignatureValid(w)'
    BY DEF VerifiedIsSigned
  <2>1. w \in versions /\ w \in VersionId /\ w[1] \notin S
    BY <1>1 DEF TypeOK
  <2>2. trust'[w] = trust[w] /\ files'[w] = files[w] /\ hash'[w] = hash[w]
    BY <1>1, <2>1 DEF NoTrust
  <2> QED BY <1>4, <2>1, <2>2 DEF Content, VerifiedIsSigned, Intact, SignatureValid
<1> QED BY <1>2, <1>3, <1>4 DEF Content

LEMMA RehashContent ==
    ASSUME TypeOK, TypeOK', Content, NEW v \in versions, NEW F \in SUBSET File, Rehash(v, F),
           UNCHANGED <<skill, versions>>
    PROVE  Content'
<1>1. /\ v \in VersionId
      /\ files'[v] = F /\ hash'[v] = PayloadOf(F)
      /\ \A w \in VersionId \ {v} : /\ files'[w] = files[w] /\ hash'[w] = hash[w]
                                    /\ trust'[w] = trust[w]
      /\ trust'[v] = IF HasCuratorKey /\ trust[v].tier = "verified"
                     THEN Signed(PayloadOf(F)) ELSE trust[v]
  <2>1. v \in VersionId
    BY DEF TypeOK
  <2>2. CASE HasCuratorKey /\ trust[v].tier = "verified"
    BY <2>1, <2>2 DEF Rehash, TypeOK
  <2>3. CASE ~(HasCuratorKey /\ trust[v].tier = "verified")
    BY <2>1, <2>3 DEF Rehash, TypeOK
  <2> QED BY <2>2, <2>3
<1>2. HashFollowsFiles'
  BY <1>1 DEF HashFollowsFiles, Content, Intact, TypeOK
<1>3. VerifiedIsGlobal'
  BY <1>1 DEF VerifiedIsGlobal, Content, Signed
<1>4. ASSUME HasCuratorKey PROVE VerifiedIsSigned'
  <2> SUFFICES ASSUME NEW w \in versions, trust'[w].tier = "verified", Intact(w)'
               PROVE  SignatureValid(w)'
    BY DEF VerifiedIsSigned
  <2>1. CASE w = v
    BY <1>1, <1>4, <2>1 DEF SignatureValid, Signed
  <2>2. CASE w # v
    <3>1. w \in VersionId
      BY DEF TypeOK
    <3> QED BY <1>1, <1>4, <2>2, <3>1
            DEF Content, VerifiedIsSigned, Intact, SignatureValid
  <2> QED BY <2>1, <2>2
<1> QED BY <1>2, <1>3, <1>4 DEF Content

LEMMA ContentStep ==
    TypeOK /\ TypeOK' /\ Structure /\ Content /\ [Next]_vars => Content'
<1> SUFFICES ASSUME TypeOK, TypeOK', Structure, Content, [Next]_vars PROVE Content'
  OBVIOUS
<1>1. ASSUME UNCHANGED <<skill, versions, files, hash, trust>> PROVE Content'
  BY <1>1 DEF Content, HashFollowsFiles, VerifiedIsGlobal, VerifiedIsSigned, Intact,
              SignatureValid
<1>2. CASE AgentStep
  <2>1. ASSUME NEW a \in Agent, CreateAgent(a) \/ \E on \in BOOLEAN : SetSuperAgent(a, on)
        PROVE  Content'
    BY <1>1, <2>1 DEF CreateAgent, SetSuperAgent
  <2>2. ASSUME NEW a \in Agent, NEW u \in User, DeleteAgent(a, u) PROVE Content'
    <3>1. SkillsOf(a) \in SUBSET Skill /\ RemoveContent(SkillsOf(a))
      BY <2>2 DEF DeleteAgent, SkillsOf
    <3> QED BY <3>1, RemoveContentContent
  <2>3. ASSUME NEW a \in Agent, NEW u \in User, DeleteAgentFails(a, u) PROVE Content'
    <3>1. PICK S \in SUBSET SkillsOf(a), v \in versions : RemoveContentStopsAt(S, v)
      BY <2>3 DEF DeleteAgentFails
    <3>2. S \in SUBSET Skill
      BY DEF SkillsOf
    <3> QED BY <3>1, <3>2, RemoveContentContent
  <2> QED BY <1>2, <2>1, <2>2, <2>3 DEF AgentStep
<1>3. CASE PublishStep
  <2>1. ASSUME NEW a \in Agent, NEW s \in Skill, NEW nm \in Name, NEW vis \in Visibility,
               NEW u \in Upload, Publish(a, s, vis, nm, u)
        PROVE  Content'
    <3>1. ~Exists(s) /\ MaxVersion > 0 /\ InsertVersion(<<s, 1>>, u.files, u)
      BY <2>1 DEF Publish, MayPublish
    <3>2. u \in Payload /\ u.files \in SUBSET File /\ (u.exact => u = PayloadOf(u.files))
      BY ExactPayload DEF Upload, Payload
    <3>3. /\ <<s, 1>> \in VersionId /\ 1 \in VersionNo /\ IsNextVersion(s, 1)
          /\ \A v \in versions : v[1] # s
      BY <3>1, AbsentHasNoVersion
    <3>4. /\ \A t \in Skill \ {s} : skill'[t] = skill[t]
          /\ skill'[s].vis = vis /\ skill'[s].current = 1
      BY <2>1 DEF Publish, TypeOK
    <3>5. /\ \A w \in VersionId \ {<<s, 1>>} : trust'[w] = trust[w]
          /\ trust'[<<s, 1>>] = PublishTrust(vis, a, u)
      BY <2>1, <3>3 DEF Publish, TypeOK
    <3>6. trust'[<<s, 1>>].tier = "verified" =>
              skill'[s].vis = "global" /\ trust'[<<s, 1>>].sig = {u}
      BY <3>4, <3>5 DEF PublishTrust, Signed, Unsigned, ComputeTier
    <3> QED BY <3>1, <3>2, <3>3, <3>4, <3>5, <3>6, NewVersionContent
  <2>2. ASSUME NEW a \in Agent, NEW s \in Skill, NEW nm \in Name, NEW vis \in Visibility,
               NEW F \in SUBSET File, NEW stored \in SUBSET File,
               PublishFileClash(a, s, vis, nm, F, stored)
        PROVE  Content'
    <3> DEFINE p == [files |-> F, exact |-> FALSE]
    <3>1. ~Exists(s) /\ MaxVersion > 0 /\ InsertVersion(<<s, 1>>, stored, p)
      BY <2>2 DEF PublishFileClash, MayPublish
    <3>2. p \in Payload /\ ~p.exact
      BY DEF Payload
    <3>3. /\ <<s, 1>> \in VersionId /\ 1 \in VersionNo /\ IsNextVersion(s, 1)
          /\ \A v \in versions : v[1] # s
      BY <3>1, AbsentHasNoVersion
    <3>4. \A t \in Skill \ {s} : skill'[t] = skill[t]
      BY <2>2 DEF PublishFileClash, TypeOK
    <3>5. trust' = trust /\ trust[<<s, 1>>].tier = "none"
      BY <2>2, <3>3, NextVersionIsNew DEF PublishFileClash
    <3> HIDE DEF p
    <3> QED BY <3>1, <3>2, <3>3, <3>4, <3>5, NewVersionContent
  <2> QED BY <1>3, <2>1, <2>2 DEF PublishStep
<1>4. CASE UpdateStep
  <2>1. ASSUME NEW a \in Agent, NEW s \in Skill, NEW n \in VersionNo, NEW nm \in Name,
               NEW u \in Upload, Update(a, s, n, nm, u)
        PROVE  Content'
    <3>1. IsNextVersion(s, n) /\ InsertVersion(<<s, n>>, u.files, u)
      BY <2>1 DEF Update, MayUpdate
    <3>2. u \in Payload /\ u.files \in SUBSET File /\ (u.exact => u = PayloadOf(u.files))
      BY ExactPayload DEF Upload, Payload
    <3>3. /\ \A t \in Skill \ {s} : skill'[t] = skill[t]
          /\ skill'[s].vis = skill[s].vis /\ skill'[s].current = n
      BY <2>1 DEF Update, TypeOK
    <3>4. skill'[s].current >= skill[s].current
      <4>1. CASE skill[s].current = 0
        BY <3>3, <4>1, ConstantsAssumption DEF VersionNo
      <4>2. CASE skill[s].current # 0
        <5>1. <<s, skill[s].current>> \in VersionsOf(s)
          BY <4>2 DEF Structure, CurrentIsAVersion, VersionsOf
        <5>2. skill[s].current < n
          BY <3>1, <5>1 DEF IsNextVersion
        <5> QED BY <3>3, <5>2, ConstantsAssumption DEF VersionNo, TypeOK, SkillRow
      <4> QED BY <4>1, <4>2
    <3>5. /\ \A w \in VersionId \ {<<s, n>>} : trust'[w] = trust[w]
          /\ trust'[<<s, n>>] = PublishTrust(skill[s].vis, a, u)
      BY <2>1 DEF Update, TypeOK, VersionId
    <3>6. trust'[<<s, n>>].tier = "verified" =>
              skill'[s].vis = "global" /\ trust'[<<s, n>>].sig = {u}
      BY <3>3, <3>5 DEF PublishTrust, Signed, Unsigned, ComputeTier
    <3> QED BY <3>1, <3>2, <3>3, <3>4, <3>5, <3>6, NewVersionContent
  <2>2. ASSUME NEW s \in Skill, NEW n \in VersionNo, NEW F \in SUBSET File,
               NEW p \in Payload, p.exact => p = PayloadOf(F), IsNextVersion(s, n),
               InsertVersion(<<s, n>>, F, p), UNCHANGED <<skill, trust>>
        PROVE  Content'
    <3>1. trust'[<<s, n>>].tier = "none"
      BY <2>2, NextVersionIsNew
    <3>2. skill[s].current \in Nat
      BY ConstantsAssumption DEF TypeOK, SkillRow, VersionNo
    <3> QED BY <2>2, <3>1, <3>2, NewVersionContent
  <2>3. ASSUME NEW a \in Agent, NEW s \in Skill, NEW n \in VersionNo, NEW nm \in Name,
               NEW u \in Upload, UpdateNameClash(a, s, n, nm, u)
        PROVE  Content'
    <3>1. u \in Payload /\ u.files \in SUBSET File /\ (u.exact => u = PayloadOf(u.files))
      BY ExactPayload DEF Upload, Payload
    <3>2. /\ IsNextVersion(s, n) /\ InsertVersion(<<s, n>>, u.files, u)
          /\ UNCHANGED <<skill, trust>>
      BY <2>3 DEF UpdateNameClash, MayUpdate
    <3> QED BY <2>2, <3>1, <3>2
  <2>4. ASSUME NEW a \in Agent, NEW s \in Skill, NEW n \in VersionNo,
               NEW F \in SUBSET File, NEW stored \in SUBSET File,
               UpdateFileClash(a, s, n, F, stored)
        PROVE  Content'
    <3> DEFINE p == [files |-> F, exact |-> FALSE]
    <3>1. p \in Payload /\ ~p.exact
      BY DEF Payload
    <3>2. /\ IsNextVersion(s, n) /\ InsertVersion(<<s, n>>, stored, p)
          /\ UNCHANGED <<skill, trust>>
      BY <2>4 DEF UpdateFileClash, MayUpdate
    <3> HIDE DEF p
    <3> QED BY <2>2, <3>1, <3>2
  <2> QED BY <1>4, <2>1, <2>3, <2>4 DEF UpdateStep
<1>5. CASE OperatorStep
  <2>1. ASSUME NEW s \in Skill, NEW nm \in Name, NEW F \in SUBSET File,
               NEW signed \in BOOLEAN, PublishSeed(s, nm, F, signed)
        PROVE  Content'
    <3>1. ~Exists(s) /\ MaxVersion > 0 /\ InsertVersion(<<s, 1>>, F, PayloadOf(F))
      BY <2>1 DEF PublishSeed
    <3>2. /\ <<s, 1>> \in VersionId /\ 1 \in VersionNo /\ IsNextVersion(s, 1)
          /\ \A v \in versions : v[1] # s
      BY <3>1, AbsentHasNoVersion
    <3>3. /\ \A t \in Skill \ {s} : skill'[t] = skill[t]
          /\ skill'[s].vis = "global" /\ skill'[s].current = 1
      BY <2>1 DEF PublishSeed, TypeOK
    <3>4. /\ \A w \in VersionId \ {<<s, 1>>} : trust'[w] = trust[w]
          /\ trust'[<<s, 1>>] = IF signed THEN Signed(PayloadOf(F))
                                ELSE Unsigned("global", NoAgent)
      BY <2>1, <3>2 DEF PublishSeed, TypeOK
    <3>5. trust'[<<s, 1>>].tier = "verified" => trust'[<<s, 1>>].sig = {PayloadOf(F)}
      BY <3>4 DEF Signed, Unsigned, ComputeTier
    <3> QED BY <3>1, <3>2, <3>3, <3>4, <3>5, PayloadOfType, NewVersionContent
  <2>2. ASSUME NEW s \in Skill, ReSign(s) PROVE Content'
    <3> DEFINE x == <<s, skill[s].current>>
    <3>1. x \in VersionId /\ x \in versions /\ skill[s].vis = "global"
      BY <2>2 DEF ReSign, Structure, CurrentIsAVersion, TypeOK
    <3>2. /\ \A w \in VersionId \ {x} : trust'[w] = trust[w]
          /\ trust'[x] = Signed(PayloadOf(files[x]))
          /\ UNCHANGED <<skill, versions, files, hash>>
      BY <2>2, <3>1 DEF ReSign, TypeOK
    <3>3. x[1] = s /\ x[2] = skill[s].current /\ skill[s].current \in Nat
      BY ConstantsAssumption DEF TypeOK, SkillRow, VersionNo
    <3> HIDE DEF x
    <3>4. HashFollowsFiles'
      BY <3>2 DEF Content, HashFollowsFiles, Intact
    <3>5. VerifiedIsGlobal'
      <4> SUFFICES ASSUME NEW w \in VersionId
                   PROVE  /\ trust'[w].tier = "verified" => skill'[w[1]].vis = "global"
                          /\ trust'[w].tier # "none" =>
                                w \in versions' /\ w[2] <= skill'[w[1]].current
        BY DEF VerifiedIsGlobal
      <4>1. CASE w = x
        BY <3>1, <3>2, <3>3, <4>1
      <4>2. CASE w # x
        BY <3>2, <4>2 DEF Content, VerifiedIsGlobal
      <4> QED BY <4>1, <4>2
    <3>6. ASSUME HasCuratorKey PROVE VerifiedIsSigned'
      <4> SUFFICES ASSUME NEW w \in versions, trust'[w].tier = "verified", Intact(w)'
                   PROVE  SignatureValid(w)'
        BY <3>2 DEF VerifiedIsSigned
      <4>1. CASE w = x
        BY <3>2, <4>1 DEF SignatureValid, Signed
      <4>2. CASE w # x
        BY <3>2, <3>6, <4>2 DEF TypeOK, Content, VerifiedIsSigned, Intact, SignatureValid
      <4> QED BY <4>1, <4>2
    <3> QED BY <3>4, <3>5, <3>6 DEF Content
  <2>3. ASSUME NEW done \in SUBSET versions, Reindex(done) PROVE Content'
    BY <1>1, <2>3 DEF Reindex
  <2> QED BY <1>5, <2>1, <2>2, <2>3 DEF OperatorStep
<1>6. ASSUME NEW a \in Agent, NEW s \in Skill, Delete(a, s) PROVE Content'
  <2>1. {s} \in SUBSET Skill /\ RemoveContent({s})
    BY <1>6 DEF Delete
  <2> QED BY <2>1, RemoveContentContent
<1>7. ASSUME NEW a \in Agent, NEW s \in Skill, DeleteFails(a, s) PROVE Content'
  <2>1. {} \in SUBSET Skill /\ \E v \in versions : RemoveContentStopsAt({}, v)
    BY <1>7 DEF DeleteFails, VersionsOf
  <2> QED BY <2>1, RemoveContentContent
<1>8. ASSUME NEW v \in VersionId, NEW f \in File, AddSkillFile(v, f) \/ DeleteSkillFile(v, f)
      PROVE  Content'
  <2>1. /\ v \in versions /\ UNCHANGED <<skill, versions>>
        /\ Rehash(v, files[v] \cup {f}) \/ Rehash(v, files[v] \ {f})
    BY <1>8 DEF AddSkillFile, DeleteSkillFile
  <2>2. files[v] \cup {f} \in SUBSET File /\ files[v] \ {f} \in SUBSET File
    BY DEF TypeOK
  <2> QED BY <2>1, <2>2, RehashContent
<1>9. CASE UNCHANGED vars
  BY <1>1, <1>9 DEF vars
<1> QED BY <1>2, <1>3, <1>4, <1>5, <1>6, <1>7, <1>8, <1>9 DEF Next

LEMMA ContentHolds == Spec => []Content
BY StructureHolds, ContentInit, ContentStep, TypeCorrect, PTL DEF Spec

\* A hash computed from the stored rows keeps matching them.
THEOREM HashesFollow == Spec => []HashFollowsFiles
<1>1. Content => HashFollowsFiles
  BY DEF Content
<1> QED BY <1>1, ContentHolds, PTL

\* Only released versions of global skills are "verified".
THEOREM OnlyGlobalIsVerified == Spec => []VerifiedIsGlobal
<1>1. Content => VerifiedIsGlobal
  BY DEF Content
<1> QED BY <1>1, ContentHolds, PTL

\* In a process with the curator key, what is "verified" and served is signed.
THEOREM VerifiedStaysSigned == ASSUME HasCuratorKey PROVE Spec => []VerifiedIsSigned
<1>1. Content => VerifiedIsSigned
  BY DEF Content
<1> QED BY <1>1, ContentHolds, PTL

-----------------------------------------------------------------------------
(***************************************************************************)
(* With a store that does not fail: four kinds of steps, and what they do  *)
(* to tiers and to the vector store.                                       *)
(***************************************************************************)

\* The next version of s is released: with a tier, and in the old one's place.
Releases(s, n) ==
    /\ IsNextVersion(s, n)
    /\ \A t \in Skill \ {s} : skill'[t] = skill[t]
    /\ skill'[s].vis # "absent" /\ skill'[s].current = n
    /\ \A w \in VersionId \ {<<s, n>>} : trust'[w] = trust[w]
    /\ trust'[<<s, n>>].tier # "none"
    /\ (trust'[<<s, n>>].tier = "user") <=> (skill'[s].vis # "global")
    /\ index' \subseteq VersionId
    /\ \A w \in VersionId :
          w \in index' <=> w = <<s, n>> \/ (w \in index /\ w # <<s, skill[s].current>>)

\* A call raises before anything is released.
ReleasesNothing ==
    /\ UNCHANGED <<trust, index>>
    /\ \A s \in Skill : skill'[s] = skill[s] \/ (~Exists(s) /\ skill'[s].current = 0)

\* Tiers stay, or become "verified" for a global skill.
SignsOnly ==
    /\ UNCHANGED <<skill, versions>>
    /\ index' = index \/ MayReindex
    /\ \A w \in VersionId : \/ trust'[w].tier = trust[w].tier
                            \/ trust'[w].tier = "verified" /\ skill[w[1]].vis = "global"

ReliableStep ==
    \/ \E s \in Skill, n \in VersionNo : Releases(s, n)
    \/ ReleasesNothing
    \/ SignsOnly
    \/ \E S \in SUBSET Skill : RemoveContent(S)

\* A first release: nothing of the skill is in the store.
LEMMA FirstRelease ==
    ASSUME TypeOK, Structure, NEW s \in Skill, ~Exists(s), MaxVersion > 0,
           ~StoreMayFail, IndexVersion(<<s, 1>>),
           \A t \in Skill \ {s} : skill'[t] = skill[t],
           skill'[s].vis # "absent", skill'[s].current = 1,
           \A w \in VersionId \ {<<s, 1>>} : trust'[w] = trust[w],
           trust'[<<s, 1>>].tier # "none",
           (trust'[<<s, 1>>].tier = "user") <=> (skill'[s].vis # "global")
    PROVE  ReliableStep
<1>1. 1 \in VersionNo /\ <<s, 1>> \in VersionId /\ IsNextVersion(s, 1)
  BY AbsentHasNoVersion
<1>2. skill[s].current = 0
  BY DEF Structure, AbsentIsNoSkill, NoSkill
<1>3. \A w \in VersionId : w # <<s, 0>>
  BY VersionIdFacts
<1>4. index' = index \cup {<<s, 1>>} /\ index \subseteq VersionId
  BY DEF IndexVersion, TypeOK
<1>5. Releases(s, 1)
  BY <1>1, <1>2, <1>3, <1>4 DEF Releases
<1> QED BY <1>1, <1>5 DEF ReliableStep

LEMMA RehashSignsOnly ==
    ASSUME TypeOK, NEW v \in versions, NEW F, Rehash(v, F),
           UNCHANGED <<skill, versions, index>>
    PROVE  SignsOnly
<1>1. v \in VersionId
  BY DEF TypeOK
<1>2. CASE HasCuratorKey /\ trust[v].tier = "verified"
  BY <1>1, <1>2 DEF Rehash, SignsOnly, TypeOK, Signed
<1>3. CASE ~(HasCuratorKey /\ trust[v].tier = "verified")
  BY <1>1, <1>3 DEF Rehash, SignsOnly
<1> QED BY <1>2, <1>3

LEMMA ReliableSteps ==
    ASSUME TypeOK, Structure, ~StoreMayFail, [Next]_vars
    PROVE  ReliableStep
<1>1. ASSUME UNCHANGED <<skill, versions, trust, index>> PROVE ReliableStep
  BY <1>1 DEF ReliableStep, SignsOnly
<1>2. ASSUME NEW S, NEW v, RemoveContentStopsAt(S, v) PROVE FALSE
  BY <1>2 DEF RemoveContentStopsAt
<1>3. CASE AgentStep
  <2>1. ASSUME NEW a \in Agent, CreateAgent(a) \/ \E on \in BOOLEAN : SetSuperAgent(a, on)
        PROVE  ReliableStep
    BY <1>1, <2>1 DEF CreateAgent, SetSuperAgent
  <2>2. ASSUME NEW a \in Agent, NEW u \in User, DeleteAgent(a, u) PROVE ReliableStep
    BY <2>2 DEF DeleteAgent, ReliableStep, SkillsOf
  <2>3. ASSUME NEW a \in Agent, NEW u \in User, DeleteAgentFails(a, u) PROVE ReliableStep
    BY <1>2, <2>3 DEF DeleteAgentFails
  <2> QED BY <1>3, <2>1, <2>2, <2>3 DEF AgentStep
<1>4. CASE PublishStep
  <2>1. ASSUME NEW a \in Agent, NEW s \in Skill, NEW nm \in Name, NEW vis \in Visibility,
               NEW u \in Upload, Publish(a, s, vis, nm, u)
        PROVE  ReliableStep
    <3>1. ~Exists(s) /\ MaxVersion > 0 /\ IndexVersion(<<s, 1>>)
      BY <2>1 DEF Publish, MayPublish
    <3>2. /\ \A t \in Skill \ {s} : skill'[t] = skill[t]
          /\ skill'[s].vis = vis /\ skill'[s].current = 1
      BY <2>1 DEF Publish, TypeOK
    <3>3. <<s, 1>> \in VersionId
      BY <3>1, AbsentHasNoVersion
    <3>4. /\ \A w \in VersionId \ {<<s, 1>>} : trust'[w] = trust[w]
          /\ trust'[<<s, 1>>] = PublishTrust(vis, a, u)
      BY <2>1, <3>3 DEF Publish, TypeOK
    <3>5. /\ PublishTrust(vis, a, u).tier # "none"
          /\ (PublishTrust(vis, a, u).tier = "user") <=> (vis # "global")
      BY ConstantsAssumption DEF PublishTrust, Signed, Unsigned, ComputeTier
    <3>6. vis # "absent"
      BY DEF Visibility
    <3> QED BY <3>1, <3>2, <3>4, <3>5, <3>6, FirstRelease
  <2>2. ASSUME NEW a \in Agent, NEW s \in Skill, NEW nm \in Name, NEW vis \in Visibility,
               NEW F \in SUBSET File, NEW stored \in SUBSET File,
               PublishFileClash(a, s, vis, nm, F, stored)
        PROVE  ReliableStep
    <3>1. /\ ~Exists(s) /\ UNCHANGED <<trust, index>>
          /\ \A t \in Skill \ {s} : skill'[t] = skill[t]
          /\ skill'[s].current = 0
      BY <2>2 DEF PublishFileClash, MayPublish, TypeOK
    <3> QED BY <3>1 DEF ReliableStep, ReleasesNothing
  <2> QED BY <1>4, <2>1, <2>2 DEF PublishStep
<1>5. CASE UpdateStep
  <2>1. ASSUME NEW a \in Agent, NEW s \in Skill, NEW n \in VersionNo, NEW nm \in Name,
               NEW u \in Upload, Update(a, s, n, nm, u)
        PROVE  ReliableStep
    <3>1. IsNextVersion(s, n) /\ skill[s].vis # "absent" /\ <<s, n>> \in VersionId
      BY <2>1 DEF Update, MayUpdate, Exists, VersionId
    <3>2. /\ \A t \in Skill \ {s} : skill'[t] = skill[t]
          /\ skill'[s].vis = skill[s].vis /\ skill'[s].current = n
      BY <2>1 DEF Update, TypeOK
    <3>3. /\ \A w \in VersionId \ {<<s, n>>} : trust'[w] = trust[w]
          /\ trust'[<<s, n>>] = PublishTrust(skill[s].vis, a, u)
      BY <2>1, <3>1 DEF Update, TypeOK
    <3>4. /\ PublishTrust(skill[s].vis, a, u).tier # "none"
          /\ (PublishTrust(skill[s].vis, a, u).tier = "user") <=> (skill[s].vis # "global")
      BY ConstantsAssumption DEF PublishTrust, Signed, Unsigned, ComputeTier
    <3>5. index' = (index \ {<<s, skill[s].current>>}) \cup {<<s, n>>} /\ index \subseteq VersionId
      BY <2>1 DEF Update, ReplaceInIndex, TypeOK
    <3>6. Releases(s, n)
      BY <3>1, <3>2, <3>3, <3>4, <3>5 DEF Releases
    <3> QED BY <3>6 DEF ReliableStep
  <2>2. ASSUME NEW a \in Agent, NEW s \in Skill, NEW n \in VersionNo,
               \/ \E nm \in Name, u \in Upload : UpdateNameClash(a, s, n, nm, u)
               \/ \E F, stored \in SUBSET File : UpdateFileClash(a, s, n, F, stored)
        PROVE  ReliableStep
    <3>1. UNCHANGED <<skill, trust, index>>
      BY <2>2 DEF UpdateNameClash, UpdateFileClash
    <3> QED BY <3>1 DEF ReliableStep, ReleasesNothing
  <2> QED BY <1>5, <2>1, <2>2 DEF UpdateStep
<1>6. CASE OperatorStep
  <2>1. ASSUME NEW s \in Skill, NEW nm \in Name, NEW F \in SUBSET File,
               NEW signed \in BOOLEAN, PublishSeed(s, nm, F, signed)
        PROVE  ReliableStep
    <3>1. ~Exists(s) /\ MaxVersion > 0 /\ IndexVersion(<<s, 1>>)
      BY <2>1 DEF PublishSeed
    <3>2. /\ \A t \in Skill \ {s} : skill'[t] = skill[t]
          /\ skill'[s].vis = "global" /\ skill'[s].current = 1
      BY <2>1 DEF PublishSeed, TypeOK
    <3>3. <<s, 1>> \in VersionId
      BY <3>1, AbsentHasNoVersion
    <3>4. /\ \A w \in VersionId \ {<<s, 1>>} : trust'[w] = trust[w]
          /\ trust'[<<s, 1>>] = IF signed THEN Signed(PayloadOf(F))
                                ELSE Unsigned("global", NoAgent)
      BY <2>1, <3>3 DEF PublishSeed, TypeOK
    <3>5. trust'[<<s, 1>>].tier \in {"verified", "public"}
      BY <3>4 DEF Signed, Unsigned, ComputeTier
    <3> QED BY <3>1, <3>2, <3>4, <3>5, FirstRelease
  <2>2. ASSUME NEW s \in Skill, ReSign(s) PROVE ReliableStep
    <3> DEFINE v == <<s, skill[s].current>>
    <3>1. v \in VersionId
      BY <2>2 DEF ReSign, VersionId, TypeOK, SkillRow
    <3>2. \A w \in VersionId : trust'[w] = IF w = v THEN Signed(PayloadOf(files[v]))
                                           ELSE trust[w]
      BY <2>2, <3>1 DEF ReSign, TypeOK
    <3>3. v[1] = s /\ skill[s].vis = "global" /\ UNCHANGED <<skill, versions, index>>
      BY <2>2 DEF ReSign
    <3> HIDE DEF v
    <3>4. SignsOnly
      BY <3>2, <3>3 DEF SignsOnly, Signed
    <3> QED BY <3>4 DEF ReliableStep
  <2>3. ASSUME NEW done \in SUBSET versions, Reindex(done) PROVE ReliableStep
    BY <2>3 DEF Reindex, ReliableStep, SignsOnly
  <2> QED BY <1>6, <2>1, <2>2, <2>3 DEF OperatorStep
<1>7. ASSUME NEW a \in Agent, NEW s \in Skill, Delete(a, s) \/ DeleteFails(a, s)
      PROVE  ReliableStep
  BY <1>2, <1>7 DEF Delete, DeleteFails, ReliableStep
<1>8. ASSUME NEW v \in VersionId, NEW f \in File, AddSkillFile(v, f) \/ DeleteSkillFile(v, f)
      PROVE  ReliableStep
  BY <1>8, RehashSignsOnly DEF AddSkillFile, DeleteSkillFile, ReliableStep
<1>9. CASE UNCHANGED vars
  BY <1>1, <1>9 DEF vars
<1> QED BY <1>3, <1>4, <1>5, <1>6, <1>7, <1>8, <1>9 DEF Next

-----------------------------------------------------------------------------

\* The vector store holds the released version of every skill, and nothing else.
THEOREM IndexStaysCurrent ==
    ASSUME ~StoreMayFail, ~MayReindex PROVE Spec => []IndexIsCurrent
<1>1. Init => IndexIsCurrent
  BY VersionIdFacts DEF Init, IndexIsCurrent, Exists, NoSkill
<1>2. ASSUME TypeOK, TypeOK', Structure, IndexIsCurrent, [Next]_vars PROVE IndexIsCurrent'
  <2>1. index' \subseteq VersionId
    BY <1>2 DEF TypeOK
  <2> SUFFICES ASSUME NEW w \in VersionId
               PROVE  w \in index' <=> skill'[w[1]].vis # "absent" /\ w[2] = skill'[w[1]].current
    BY <2>1 DEF IndexIsCurrent, Exists
  <2>2. w \in index <=> skill[w[1]].vis # "absent" /\ w[2] = skill[w[1]].current
    BY <1>2 DEF IndexIsCurrent, Exists
  <2>3. w[1] \in Skill /\ w[2] \in Nat \ {0} /\ w = <<w[1], w[2]>>
    BY VersionIdFacts
  <2>4. ASSUME NEW s \in Skill, NEW n \in VersionNo, Releases(s, n)
        PROVE  w \in index' <=> skill'[w[1]].vis # "absent" /\ w[2] = skill'[w[1]].current
    <3>1. w \in index' <=> w = <<s, n>> \/ (w \in index /\ w # <<s, skill[s].current>>)
      BY <2>4 DEF Releases
    <3>2. CASE w[1] = s
      BY <2>2, <2>3, <2>4, <3>1, <3>2 DEF Releases
    <3>3. CASE w[1] # s
      <4>1. skill'[w[1]] = skill[w[1]]
        BY <2>3, <2>4, <3>3 DEF Releases
      <4>2. w # <<s, n>> /\ w # <<s, skill[s].current>>
        BY <2>3, <3>3
      <4> QED BY <2>2, <3>1, <4>1, <4>2
    <3> QED BY <3>2, <3>3
  <2>5. CASE ReleasesNothing
    BY <2>2, <2>3, <2>5 DEF ReleasesNothing, Exists
  <2>6. CASE SignsOnly
    BY <2>2, <2>6 DEF SignsOnly
  <2>7. ASSUME NEW S \in SUBSET Skill, RemoveContent(S)
        PROVE  w \in index' <=> skill'[w[1]].vis # "absent" /\ w[2] = skill'[w[1]].current
    <3>1. w \in index' <=> w \in index /\ w[1] \notin S
      BY <2>7 DEF RemoveContent
    <3>2. skill'[w[1]] = IF w[1] \in S THEN NoSkill ELSE skill[w[1]]
      BY <2>3, <2>7 DEF RemoveContent
    <3> QED BY <2>2, <3>1, <3>2 DEF NoSkill
  <2> QED BY <1>2, <2>4, <2>5, <2>6, <2>7, ReliableSteps DEF ReliableStep
<1> QED BY <1>1, <1>2, TypeCorrect, StructureHolds, PTL DEF Spec

\* Every released version has a trust row, whose tier fits the audience of its skill.
THEOREM ReleasedHaveTiers == ASSUME ~StoreMayFail PROVE Spec => []CurrentHasTier
<1> DEFINE Fits(s) == skill[s].current # 0 =>
               /\ trust[<<s, skill[s].current>>].tier # "none"
               /\ (trust[<<s, skill[s].current>>].tier = "user") <=> (skill[s].vis # "global")
<1>1. CurrentHasTier <=> \A s \in Skill : Fits(s)
  BY DEF CurrentHasTier, ResolveTier
<1>2. Init => CurrentHasTier
  BY DEF Init, CurrentHasTier, NoSkill
<1>3. ASSUME TypeOK, TypeOK', Structure, CurrentHasTier, [Next]_vars,
             NEW s \in Skill, skill'[s].current # 0
      PROVE  /\ trust'[<<s, skill'[s].current>>].tier # "none"
             /\ (trust'[<<s, skill'[s].current>>].tier = "user") <=> (skill'[s].vis # "global")
  <2> DEFINE new == trust'[<<s, skill'[s].current>>].tier
             old == trust[<<s, skill[s].current>>].tier
  <2>1. skill[s].current # 0 => old # "none" /\ ((old = "user") <=> (skill[s].vis # "global"))
    BY <1>1, <1>3
  <2>2. <<s, skill'[s].current>> \in VersionId
    BY <1>3 DEF TypeOK, SkillRow, VersionId
  <2>3. ASSUME NEW t \in Skill, NEW n \in VersionNo, Releases(t, n)
        PROVE  new # "none" /\ ((new = "user") <=> (skill'[s].vis # "global"))
    <3>1. CASE t = s
      BY <2>3, <3>1 DEF Releases
    <3>2. CASE t # s
      <4>1. skill'[s] = skill[s] /\ <<s, skill'[s].current>> # <<t, n>>
        BY <2>3, <3>2 DEF Releases
      <4>2. trust'[<<s, skill'[s].current>>] = trust[<<s, skill'[s].current>>]
        BY <2>2, <2>3, <4>1 DEF Releases
      <4> QED BY <1>3, <2>1, <4>1, <4>2
    <3> QED BY <3>1, <3>2
  <2>4. CASE ReleasesNothing
    BY <1>3, <2>1, <2>4 DEF ReleasesNothing
  <2>5. CASE SignsOnly
    <3>1. skill'[s] = skill[s]
      BY <2>5 DEF SignsOnly
    <3>2. new = old \/ (new = "verified" /\ skill[s].vis = "global")
      BY <2>2, <2>5, <3>1 DEF SignsOnly
    <3> HIDE DEF new, old
    <3>3. new # "none" /\ ((new = "user") <=> (skill'[s].vis # "global"))
      BY <1>3, <2>1, <3>1, <3>2
    <3> QED BY <3>3 DEF new
  <2>6. ASSUME NEW S \in SUBSET Skill, RemoveContent(S)
        PROVE  new # "none" /\ ((new = "user") <=> (skill'[s].vis # "global"))
    <3>1. s \notin S /\ skill'[s] = skill[s]
      BY <1>3, <2>6 DEF RemoveContent, NoSkill
    <3>2. trust'[<<s, skill'[s].current>>] = trust[<<s, skill'[s].current>>]
      BY <2>2, <2>6, <3>1 DEF RemoveContent
    <3> QED BY <1>3, <2>1, <3>1, <3>2
  <2> QED BY <1>3, <2>3, <2>4, <2>5, <2>6, ReliableSteps DEF ReliableStep
<1>4. ASSUME TypeOK, TypeOK', Structure, CurrentHasTier, [Next]_vars PROVE CurrentHasTier'
  BY <1>3, <1>4 DEF CurrentHasTier, ResolveTier
<1> QED BY <1>2, <1>4, TypeCorrect, StructureHolds, PTL DEF Spec

\* No call takes the tier "verified" from a version that stays.
THEOREM VerifiedIsKept == ASSUME ~StoreMayFail PROVE Spec => VerifiedStays
<1> DEFINE Keeps == \A v \in versions \cap versions' :
                       trust[v].tier = "verified" => trust'[v].tier = "verified"
<1>1. ASSUME TypeOK, Structure, [Next]_vars PROVE Keeps
  <2> SUFFICES ASSUME NEW v \in versions, v \in versions', trust[v].tier = "verified"
               PROVE  trust'[v].tier = "verified"
    OBVIOUS
  <2>1. v \in VersionId
    BY <1>1 DEF TypeOK
  <2>2. ASSUME NEW s \in Skill, NEW n \in VersionNo, Releases(s, n)
        PROVE  trust'[v].tier = "verified"
    <3>1. v # <<s, n>>
      <4>1. n \in Nat
        BY ConstantsAssumption DEF VersionNo
      <4>2. v = <<s, n>> => v[1] = s /\ v[2] = n
        OBVIOUS
      <4> QED BY <2>2, <4>1, <4>2 DEF Releases, IsNextVersion, VersionsOf
    <3> QED BY <2>1, <2>2, <3>1 DEF Releases
  <2>3. ASSUME NEW S \in SUBSET Skill, RemoveContent(S)
        PROVE  trust'[v].tier = "verified"
    BY <2>1, <2>3 DEF RemoveContent
  <2>4. ReleasesNothing \/ SignsOnly => trust'[v].tier = "verified"
    BY <2>1 DEF ReleasesNothing, SignsOnly
  <2> QED BY <1>1, <2>2, <2>3, <2>4, ReliableSteps DEF ReliableStep
<1>2. TypeOK /\ Structure /\ [Next]_vars => [Keeps]_vars
  BY <1>1
<1> QED BY <1>2, TypeCorrect, StructureHolds, PTL DEF Spec, VerifiedStays
=============================================================================
