--------------------------- MODULE AccountsProofs ---------------------------
(***************************************************************************)
(* Proofs about module Accounts, for every set of processes, agents, keys, *)
(* tokens and users: types, what requests with ended credentials get, and  *)
(* what rotation leaves an agent with.                                     *)
(***************************************************************************)
EXTENDS Accounts, TLAPS

USE AccountsAssumption

-----------------------------------------------------------------------------

\* The connections, which every action leaves by way of few operators
ConnectionsOK ==
    /\ lock \in Proc \cup {NoProc}
    /\ conn \in [Proc -> {"idle", "open", "pinned", "stale"}]
    /\ view \in [Proc -> Credentials]

LEMMA ViewTypes == Newest \in Credentials /\ NoView \in Credentials
BY DEF Newest, NoView, Credentials

LEMMA ReadTypes ==
    ASSUME ConnectionsOK, NEW p \in Proc, Read(p)
    PROVE  ConnectionsOK'
BY ViewTypes DEF ConnectionsOK, Read

LEMMA CommitTypes ==
    ASSUME ConnectionsOK, NEW p \in Proc, Commit(p)
    PROVE  ConnectionsOK'
BY ViewTypes DEF ConnectionsOK, Commit

LEMMA LeaveOpenTypes ==
    ASSUME ConnectionsOK, NEW p \in Proc, LeaveOpen(p)
    PROVE  ConnectionsOK'
BY ViewTypes DEF ConnectionsOK, LeaveOpen

-----------------------------------------------------------------------------

Onboarding(p) == At(p, "naming") \/ At(p, "keyless")

Holding(p) == At(p, "rotating") \/ At(p, "revoking")

\* What the call of a process carries, by the statement it is at
LEMMA CallFields ==
    ASSUME call \in [Proc -> Call], NEW p \in Proc
    PROVE  /\ Onboarding(p) \/ Holding(p) => call[p].agent \in Agent
           /\ Holding(p) => call[p].key \in Key
           /\ At(p, "resolving") => call[p].key \in Key /\ call[p].over \in BOOLEAN
           /\ At(p, "naming") => call[p].onboard \in BOOLEAN
BY DEF Call, Idle, Onboarding, Holding, At

LEMMA GotoFacts ==
    ASSUME call \in [Proc -> Call], NEW p \in Proc, NEW c, Goto(p, c)
    PROVE  /\ call'[p] = c
           /\ \A q \in Proc \ {p} : call'[q] = call[q]
           /\ c \in Call => call' \in [Proc -> Call]
           /\ \A q \in Proc \ {p} : \A step : At(q, step)' <=> At(q, step)
           /\ \A step : At(p, step)' <=> c.at = step
BY DEF Goto, At

LEMMA IdleFacts == Idle \in Call /\ Idle.at = "idle"
BY DEF Idle, Call

\* A key that is not merely new has an agent, which is there while the key is live
\* or revoked.
KeysOK ==
    /\ agents \subseteq drawn /\ drawn \subseteq Agent
    /\ keys \in [Key -> KeyRow]
    /\ barred \subseteq Agent /\ repeated \subseteq Agent
    /\ \A k \in Key : keys[k].state \in {"live", "revoked"} => keys[k].agent \in agents

AccountsOK ==
    /\ superusers \subseteq users /\ users \subseteq User
    /\ sessions \in [Token -> Session]
    /\ serving \subseteq Proc
    /\ serving # {} => Admin \in superusers

LEMMA TypeParts ==
    AcctTypeOK <=> ConnectionsOK /\ KeysOK /\ AccountsOK /\ call \in [Proc -> Call]
BY DEF AcctTypeOK, ConnectionsOK, KeysOK, AccountsOK

NamingIsDrawn == \A p \in Proc : At(p, "naming") => call[p].agent \in drawn

\* What calls a step may begin or go on to
LEMMA CallsOf ==
    /\ [at |-> "session"] \in Call
    /\ \A a \in Agent, b \in BOOLEAN : [at |-> "naming", agent |-> a, onboard |-> b] \in Call
    /\ \A a \in Agent : [at |-> "keyless", agent |-> a] \in Call
    /\ \A a \in Agent, k \in Key :
          /\ [at |-> "rotating", agent |-> a, key |-> k] \in Call
          /\ [at |-> "revoking", agent |-> a, key |-> k] \in Call
    /\ \A k \in Key, b \in BOOLEAN :
          /\ [at |-> "resolving", key |-> k, over |-> b] \in Call
          /\ [at |-> "served", key |-> k, over |-> b] \in Call
    /\ \A t \in Token, b \in BOOLEAN : [at |-> "page", token |-> t, over |-> b] \in Call
    /\ \A b \in BOOLEAN : [at |-> "upsert", found |-> b] \in Call
BY DEF Call

-----------------------------------------------------------------------------
(***************************************************************************)
(* Types.                                                                  *)
(***************************************************************************)

\* What a step does to the connections
LEMMA ConnectionEffects ==
    ASSUME AcctNext
    PROVE  \/ \E p \in Proc : Read(p) \/ Commit(p) \/ LeaveOpen(p) \/ Refused(p) \/ Die(p)
           \/ UNCHANGED <<lock, conn, view>>
           \/ \E t \in Token : Expires(t)
<1>1. ASSUME NEW p \in Proc, AgentStep(p)
      PROVE  Read(p) \/ Commit(p) \/ LeaveOpen(p)
  BY <1>1 DEF AgentStep, DeletesAgent, ChecksName, InsertsAgent, AgentIsGone, IssuesKey
<1>2. ASSUME NEW p \in Proc, KeyStep(p)
      PROVE  Read(p) \/ Commit(p) \/ UNCHANGED <<lock, conn, view>>
  BY <1>2 DEF KeyStep, RequiresOwnedKey, Revokes, Rotates, ReadsKey, NotesUse, Returns
<1>3. ASSUME NEW p \in Proc, AccountStep(p)
      PROVE  Read(p) \/ Commit(p) \/ LeaveOpen(p) \/ UNCHANGED <<lock, conn, view>>
  BY <1>3 DEF AccountStep, StartsWeb, UpsertsAdmin, SignUpClash, Browses, SignsUp, LogsIn,
                CreatesSession, LogsOut, Visits
<1> QED BY <1>1, <1>2, <1>3 DEF AcctNext

LEMMA ConnectionTypes ==
    ASSUME ConnectionsOK, AcctNext
    PROVE  ConnectionsOK'
<1>1. ASSUME NEW p \in Proc, Refused(p) PROVE ConnectionsOK'
  BY <1>1, ViewTypes DEF Refused, ConnectionsOK
<1>2. ASSUME NEW p \in Proc, Die(p) PROVE ConnectionsOK'
  BY <1>2, ViewTypes DEF Die, ConnectionsOK
<1>3. ASSUME NEW t \in Token, Expires(t) PROVE ConnectionsOK'
  <2>1. \A c \in Credentials : [c EXCEPT !.tokens = @ \ {t}] \in Credentials
    BY DEF Credentials
  <2> QED BY <1>3, <2>1 DEF Expires, ConnectionsOK
<1>4. CASE UNCHANGED <<lock, conn, view>>
  BY <1>4 DEF ConnectionsOK
<1> QED BY <1>1, <1>2, <1>3, <1>4, ConnectionEffects, ReadTypes, CommitTypes, LeaveOpenTypes

\* What a step does to agents and keys
LEMMA KeyEffects ==
    ASSUME AcctNext
    PROVE  \/ \E p \in Proc :
                 \/ InsertsAgent(p) \/ Revokes(p)
                 \/ \E a \in Agent : DeletesAgent(p, a) \/ \E on \in BOOLEAN : ChecksName(p, a, on)
                 \/ \E k \in Key : IssuesKey(p, k) \/ Rotates(p, k)
           \/ UNCHANGED <<agents, drawn, keys, history>>
<1>1. ASSUME NEW p \in Proc, KeyStep(p)
      PROVE  \/ Revokes(p)
             \/ \E k \in Key : Rotates(p, k)
             \/ UNCHANGED <<agents, drawn, keys, history>>
  BY <1>1 DEF KeyStep, RequiresOwnedKey, ReadsKey, NotesUse, Returns, rows
<1>2. ASSUME NEW p \in Proc, AccountStep(p)
      PROVE  UNCHANGED <<agents, drawn, keys, history>>
  BY <1>2 DEF AccountStep, StartsWeb, UpsertsAdmin, SignUpClash, Browses, SignsUp, LogsIn,
                CreatesSession, LogsOut, Visits, rows
<1>3. ASSUME NEW p \in Proc, AgentIsGone(p) \/ Refused(p) \/ Die(p)
      PROVE  UNCHANGED <<agents, drawn, keys, history>>
  BY <1>3 DEF AgentIsGone, Refused, Die, rows
<1>4. ASSUME NEW t \in Token, Expires(t)
      PROVE  UNCHANGED <<agents, drawn, keys, history>>
  BY <1>4 DEF Expires
<1> QED BY <1>1, <1>2, <1>3, <1>4 DEF AcctNext, AgentStep

LEMMA KeyTypes ==
    ASSUME AcctTypeOK, NamingIsDrawn, AcctNext
    PROVE  KeysOK'
<1> USE DEF KeysOK
<1>0. KeysOK /\ call \in [Proc -> Call]
  BY TypeParts
<1>1. ASSUME NEW p \in Proc, InsertsAgent(p) PROVE KeysOK'
  BY <1>0, <1>1 DEF InsertsAgent, NamingIsDrawn, history
<1>2. ASSUME NEW p \in Proc, Revokes(p) PROVE KeysOK'
  <2>1. Holding(p) /\ call[p].agent \in Agent /\ call[p].key \in Key
    BY <1>0, <1>2, CallFields DEF Revokes, Holding
  <2> QED BY <1>0, <1>2, <2>1 DEF Revokes, Revoke, KeyRow
<1>3. ASSUME NEW p \in Proc, NEW a \in Agent, DeletesAgent(p, a) PROVE KeysOK'
  BY <1>0, <1>3 DEF DeletesAgent, KeyRow
<1>4. ASSUME NEW p \in Proc, NEW a \in Agent, NEW on \in BOOLEAN, ChecksName(p, a, on)
      PROVE  KeysOK'
  BY <1>0, <1>4 DEF ChecksName, history
<1>5. ASSUME NEW p \in Proc, NEW k \in Key, IssuesKey(p, k) PROVE KeysOK'
  <2>1. call[p].agent \in Agent
    BY <1>0, <1>5, CallFields DEF IssuesKey, Onboarding
  <2> QED BY <1>0, <1>5, <2>1 DEF IssuesKey, Issue, KeyRow, history
<1>6. ASSUME NEW p \in Proc, NEW k \in Key, Rotates(p, k) PROVE KeysOK'
  <2>1. call[p].agent \in Agent /\ call[p].key \in Key
    BY <1>0, <1>6, CallFields DEF Rotates, Holding
  <2> DEFINE K == Revoke(call[p].key, keys)
  <2>2. /\ K \in [Key -> KeyRow]
        /\ \A j \in Key : K[j].state \in {"live", "revoked"} => K[j].agent \in agents
    BY <1>0, <2>1 DEF Revoke, KeyRow
  <2>3. keys' = Issue(k, call[p].agent, K) /\ agents' = agents /\ call[p].agent \in agents
    BY <1>6 DEF Rotates
  <2>4. repeated' \subseteq Agent /\ UNCHANGED <<drawn, barred>>
    BY <1>0, <1>6, <2>1 DEF Rotates
  <2> HIDE DEF K
  <2>5. keys' \in [Key -> KeyRow]
    BY <2>1, <2>2, <2>3 DEF Issue, KeyRow
  <2>6. \A j \in Key : keys'[j].state \in {"live", "revoked"} => keys'[j].agent \in agents
    BY <2>1, <2>2, <2>3 DEF Issue, KeyRow
  <2> QED BY <1>0, <2>3, <2>4, <2>5, <2>6
<1>7. CASE UNCHANGED <<agents, drawn, keys, history>>
  BY <1>0, <1>7 DEF history
<1> QED BY <1>1, <1>2, <1>3, <1>4, <1>5, <1>6, <1>7, KeyEffects

\* What a step does to the calls: a call goes on, or none does.
LEMMA CallEffects ==
    ASSUME AcctTypeOK, AcctNext
    PROVE  \/ \E p \in Proc, c \in Call :
                 /\ Goto(p, c)
                 /\ c.at = "naming" => c.agent \in drawn' \ drawn /\ ChecksName(p, c.agent, c.onboard)
           \/ call' = call
<1>0. call \in [Proc -> Call]
  BY TypeParts
<1> DEFINE Plain(p) == \E c \in Call : Goto(p, c) /\ c.at # "naming"
<1>1. ASSUME NEW p \in Proc, AgentStep(p)
      PROVE  \/ Plain(p) \/ call' = call
             \/ \E a \in Agent, on \in BOOLEAN : ChecksName(p, a, on)
  <2>1. InsertsAgent(p) => Plain(p)
    <3> SUFFICES ASSUME InsertsAgent(p) PROVE Plain(p)
      OBVIOUS
    <3>1. call[p].agent \in Agent
      BY <1>0, CallFields DEF InsertsAgent, Onboarding
    <3> QED BY <1>0, <3>1, IdleFacts, CallsOf DEF InsertsAgent
  <2>2. AgentIsGone(p) \/ (\E k \in Key : IssuesKey(p, k)) => Plain(p)
    BY IdleFacts DEF AgentIsGone, LeaveOpen, IssuesKey
  <2>3. (\E a \in Agent : DeletesAgent(p, a)) => call' = call
    BY DEF DeletesAgent
  <2> QED BY <1>1, <2>1, <2>2, <2>3 DEF AgentStep
<1>2. ASSUME NEW p \in Proc, KeyStep(p) PROVE Plain(p)
  <2>1. ASSUME NEW a \in Agent, NEW k \in Key, NEW step \in {"rotating", "revoking"},
               RequiresOwnedKey(p, step, a, k)
        PROVE  Plain(p)
    BY <2>1, CallsOf DEF RequiresOwnedKey
  <2>2. (Revokes(p) \/ Returns(p) \/ \E k \in Key : Rotates(p, k)) => Plain(p)
    BY IdleFacts DEF Revokes, Returns, Rotates
  <2>3. ASSUME NEW k \in Key, ReadsKey(p, k) PROVE Plain(p)
    <3>1. Ended(k) \in BOOLEAN
      BY DEF Ended
    <3> QED BY <2>3, <3>1, CallsOf DEF ReadsKey
  <2>4. ASSUME NotesUse(p) PROVE Plain(p)
    BY <1>0, <2>4, CallFields, CallsOf DEF NotesUse
  <2> QED BY <1>2, <2>1, <2>2, <2>3, <2>4 DEF KeyStep
<1>3. ASSUME NEW p \in Proc, AccountStep(p) PROVE Plain(p) \/ call' = call
  <2>1. ASSUME StartsWeb(p) PROVE Plain(p)
    <3>1. (Admin \in users) \in BOOLEAN
      OBVIOUS
    <3> QED BY <2>1, <3>1, CallsOf DEF StartsWeb
  <2>2. ASSUME NEW t \in Token, Visits(p, t) PROVE Plain(p)
    <3>1. (sessions[t] # "open") \in BOOLEAN
      OBVIOUS
    <3> QED BY <2>2, <3>1, CallsOf DEF Visits
  <2>3. ASSUME \/ UpsertsAdmin(p) \/ SignUpClash(p)
               \/ \E u \in User : SignsUp(p, u) \/ LogsIn(p, u)
               \/ \E t \in Token : CreatesSession(p, t)
        PROVE  Plain(p)
    BY <2>3, IdleFacts, CallsOf
       DEF UpsertsAdmin, SignUpClash, LeaveOpen, SignsUp, LogsIn, CreatesSession
  <2>4. ASSUME Browses(p) \/ \E t \in Token : LogsOut(p, t) PROVE call' = call
    BY <2>4 DEF Browses, LogsOut
  <2> QED BY <1>3, <2>1, <2>2, <2>3, <2>4 DEF AccountStep
<1>4. ASSUME NEW p \in Proc, Refused(p) \/ Die(p) PROVE Plain(p)
  BY <1>4, IdleFacts DEF Refused, Die
<1>5. ASSUME NEW t \in Token, Expires(t) PROVE call' = call
  BY <1>5 DEF Expires
<1> HIDE DEF Plain
<1>6. \/ \E p \in Proc : Plain(p)
      \/ call' = call
      \/ \E p \in Proc, a \in Agent, on \in BOOLEAN : ChecksName(p, a, on)
  BY <1>1, <1>2, <1>3, <1>4, <1>5 DEF AcctNext
<1>7. ASSUME NEW p \in Proc, NEW a \in Agent, NEW on \in BOOLEAN, ChecksName(p, a, on)
      PROVE  LET c == [at |-> "naming", agent |-> a, onboard |-> on]
             IN  c \in Call /\ Goto(p, c) /\ a \in drawn' \ drawn
  BY <1>7, CallsOf DEF ChecksName
<1> QED BY <1>6, <1>7 DEF Plain

LEMMA DrawnGrows ==
    ASSUME AcctNext
    PROVE  drawn \subseteq drawn'
BY KeyEffects DEF InsertsAgent, Revokes, DeletesAgent, ChecksName, IssuesKey, Rotates

LEMMA CallTypes ==
    ASSUME AcctTypeOK, NamingIsDrawn, AcctNext
    PROVE  call' \in [Proc -> Call] /\ NamingIsDrawn'
<1>0. call \in [Proc -> Call]
  BY TypeParts
<1>1. CASE call' = call
  BY <1>0, <1>1, DrawnGrows DEF NamingIsDrawn, At
<1>2. ASSUME NEW p \in Proc, NEW c \in Call, Goto(p, c), c.at = "naming" => c.agent \in drawn'
      PROVE  call' \in [Proc -> Call] /\ NamingIsDrawn'
  BY <1>0, <1>2, GotoFacts, DrawnGrows DEF NamingIsDrawn, At
<1> QED BY <1>1, <1>2, CallEffects

LEMMA AccountTypes ==
    ASSUME AccountsOK, AcctNext
    PROVE  AccountsOK'
<1> USE DEF AccountsOK
<1>1. ASSUME NEW p \in Proc, AgentStep(p) \/ KeyStep(p) PROVE AccountsOK'
  BY <1>1 DEF AgentStep, KeyStep, DeletesAgent, ChecksName, InsertsAgent, AgentIsGone, IssuesKey,
              RequiresOwnedKey, Revokes, Rotates, ReadsKey, NotesUse, Returns, rows
<1>2. ASSUME NEW p \in Proc, AccountStep(p) PROVE AccountsOK'
  <2>1. ASSUME UpsertsAdmin(p) PROVE AccountsOK'
    BY <2>1 DEF UpsertsAdmin
  <2>2. ASSUME NEW u \in User, SignsUp(p, u) PROVE AccountsOK'
    BY <2>2 DEF SignsUp
  <2>3. ASSUME NEW t \in Token, CreatesSession(p, t) \/ LogsOut(p, t) PROVE AccountsOK'
    BY <2>3 DEF CreatesSession, LogsOut, Session
  <2>4. ASSUME \/ StartsWeb(p) \/ SignUpClash(p) \/ Browses(p)
               \/ \E u \in User : LogsIn(p, u)
               \/ \E t \in Token : Visits(p, t)
        PROVE  AccountsOK'
    BY <2>4 DEF StartsWeb, SignUpClash, Browses, LogsIn, Visits, rows
  <2> QED BY <1>2, <2>1, <2>2, <2>3, <2>4 DEF AccountStep
<1>3. ASSUME NEW p \in Proc, Refused(p) \/ Die(p) PROVE AccountsOK'
  BY <1>3 DEF Refused, Die, rows
<1>4. ASSUME NEW t \in Token, Expires(t) PROVE AccountsOK'
  BY <1>4 DEF Expires, Session
<1> QED BY <1>1, <1>2, <1>3, <1>4 DEF AcctNext

\* The rows, the connections and the calls keep their types; a live key has an agent
\* that is there (schema.sql), and a dashboard an admin who is a superuser (app.py:71).
THEOREM TypesHold == AcctSpec => []AcctTypeOK
<1> DEFINE TypeInv == AcctTypeOK /\ NamingIsDrawn
<1>1. AcctInit => TypeInv
  BY DEF AcctInit, AcctTypeOK, NamingIsDrawn, At, Idle, Call, NoView, Credentials, KeyRow, Session
<1>2. ASSUME TypeInv, [AcctNext]_acctVars
      PROVE  TypeInv'
  <2>1. CASE UNCHANGED acctVars
    BY <1>2, <2>1 DEF AcctTypeOK, NamingIsDrawn, At, acctVars, rows, history
  <2>2. CASE AcctNext
    <3>1. ConnectionsOK /\ KeysOK /\ AccountsOK /\ call \in [Proc -> Call]
      BY <1>2, TypeParts
    <3>2. ConnectionsOK' /\ KeysOK' /\ AccountsOK' /\ call' \in [Proc -> Call] /\ NamingIsDrawn'
      BY <1>2, <2>2, <3>1, ConnectionTypes, KeyTypes, AccountTypes, CallTypes
    <3>3. AcctTypeOK'
      BY <3>2 DEF AcctTypeOK, ConnectionsOK, KeysOK, AccountsOK
    <3> QED BY <3>2, <3>3
  <2> QED BY <1>2, <2>1, <2>2
<1>3. TypeInv => AcctTypeOK
  OBVIOUS
<1> QED BY <1>1, <1>2, <1>3, PTL DEF AcctSpec

-----------------------------------------------------------------------------
(***************************************************************************)
(* Ended credentials.  A connection reads old rows only once it is stale,  *)
(* and then it can no longer write what resolve must write.                *)
(***************************************************************************)

PinnedIsNewest == \A p \in Proc : conn[p] = "pinned" => view[p] = Newest

OverIsStale ==
    \A p \in Proc :
        (At(p, "resolving") \/ At(p, "page")) /\ call[p].over => conn[p] = "stale"

ViewInv == PinnedIsNewest /\ OverIsStale /\ EndedIsRefused

\* The call of p goes on after it committed, or after it merely read.
CommitGoes(p) ==
    \/ call' = call /\ At(p, "idle")
    \/ \E c : /\ Goto(p, c)
              /\ c.at \notin {"resolving", "page"}
              /\ c.at = "served" => At(p, "resolving") /\ c.over = call[p].over

ReadGoes(p) ==
    \/ call' = call /\ At(p, "idle")
    \/ \E c : /\ Goto(p, c)
              /\ c.at # "served"
              /\ c.at \in {"resolving", "page"} /\ c.over => conn[p] = "stale"

LEMMA SeenIsNewest ==
    ASSUME ConnectionsOK, PinnedIsNewest, NEW p \in Proc
    PROVE  conn[p] # "stale" => Seen(p) = Newest
BY DEF ConnectionsOK, PinnedIsNewest, Seen

LEMMA ViewEffects ==
    ASSUME ConnectionsOK, PinnedIsNewest, AcctNext
    PROVE  \/ \E p \in Proc :
                 \/ Commit(p) /\ CommitGoes(p)
                 \/ /\ Read(p) \/ LeaveOpen(p) \/ UNCHANGED <<lock, conn, view>>
                    /\ UNCHANGED <<keys, sessions>> /\ ReadGoes(p)
                 \/ Refused(p) \/ Die(p)
           \/ \E t \in Token : Expires(t)
<1> DEFINE Reads(p) == /\ Read(p) \/ LeaveOpen(p) \/ UNCHANGED <<lock, conn, view>>
                       /\ UNCHANGED <<keys, sessions>> /\ ReadGoes(p)
<1> DEFINE Commits(p) == Commit(p) /\ CommitGoes(p)
<1>1. ASSUME NEW p \in Proc, AgentStep(p) PROVE Reads(p) \/ Commits(p)
  <2>1. ASSUME NEW a \in Agent, NEW on \in BOOLEAN, ChecksName(p, a, on) PROVE Reads(p)
    BY <2>1 DEF ChecksName, ReadGoes
  <2>2. ASSUME AgentIsGone(p) PROVE Reads(p)
    BY <2>2, IdleFacts DEF AgentIsGone, LeaveOpen, rows, ReadGoes
  <2>3. ASSUME InsertsAgent(p) PROVE Commits(p)
    BY <2>3, IdleFacts DEF InsertsAgent, CommitGoes
  <2>4. ASSUME \/ \E a \in Agent : DeletesAgent(p, a)
               \/ \E k \in Key : IssuesKey(p, k)
        PROVE  Commits(p)
    BY <2>4, IdleFacts DEF DeletesAgent, IssuesKey, CommitGoes
  <2> QED BY <1>1, <2>1, <2>2, <2>3, <2>4 DEF AgentStep
<1>2. ASSUME NEW p \in Proc, KeyStep(p) PROVE Reads(p) \/ Commits(p)
  <2>1. ASSUME NEW a \in Agent, NEW k \in Key, NEW step \in {"rotating", "revoking"},
               RequiresOwnedKey(p, step, a, k)
        PROVE  Reads(p)
    BY <2>1 DEF RequiresOwnedKey, rows, ReadGoes
  <2>2. ASSUME Revokes(p) \/ \E k \in Key : Rotates(p, k) PROVE Commits(p)
    BY <2>2, IdleFacts DEF Revokes, Rotates, CommitGoes
  <2>3. ASSUME NotesUse(p) PROVE Commits(p)
    BY <2>3 DEF NotesUse, CommitGoes
  <2>4. ASSUME Returns(p) PROVE Reads(p)
    BY <2>4, IdleFacts DEF Returns, rows, ReadGoes
  <2>5. ASSUME NEW k \in Key, ReadsKey(p, k) PROVE Reads(p)
    <3>1. Ended(k) => conn[p] = "stale"
      BY <2>5, SeenIsNewest DEF ReadsKey, Ended, Newest
    <3>2. Goto(p, [at |-> "resolving", key |-> k, over |-> Ended(k)])
      BY <2>5 DEF ReadsKey
    <3>3. ReadGoes(p)
      BY <3>1, <3>2 DEF ReadGoes
    <3> QED BY <2>5, <3>3 DEF ReadsKey, rows
  <2> QED BY <1>2, <2>1, <2>2, <2>3, <2>4, <2>5 DEF KeyStep
<1>3. ASSUME NEW p \in Proc, AccountStep(p) PROVE Reads(p) \/ Commits(p)
  <2>1. ASSUME StartsWeb(p) PROVE Reads(p)
    BY <2>1 DEF StartsWeb, rows, ReadGoes
  <2>2. ASSUME SignUpClash(p) PROVE Reads(p)
    BY <2>2, IdleFacts DEF SignUpClash, LeaveOpen, rows, ReadGoes
  <2>3. ASSUME Browses(p) \/ \E u \in User : LogsIn(p, u) PROVE Reads(p)
    BY <2>3 DEF Browses, LogsIn, rows, ReadGoes
  <2>4. ASSUME \/ UpsertsAdmin(p)
               \/ \E u \in User : SignsUp(p, u)
               \/ \E t \in Token : CreatesSession(p, t) \/ LogsOut(p, t)
        PROVE  Commits(p)
    BY <2>4, IdleFacts DEF UpsertsAdmin, SignsUp, CreatesSession, LogsOut, CommitGoes
  <2>5. ASSUME NEW t \in Token, Visits(p, t) PROVE Reads(p)
    <3>1. sessions[t] # "open" => conn[p] = "stale"
      BY <2>5, SeenIsNewest DEF Visits, Newest
    <3> DEFINE c == [at |-> "page", token |-> t, over |-> sessions[t] # "open"]
    <3>2. Goto(p, c)
      BY <2>5 DEF Visits
    <3>3. c.at = "page" /\ c.over = (sessions[t] # "open")
      OBVIOUS
    <3> HIDE DEF c
    <3>4. ReadGoes(p)
      BY <3>1, <3>2, <3>3 DEF ReadGoes
    <3> QED BY <2>5, <3>4 DEF Visits, rows
  <2> QED BY <1>3, <2>1, <2>2, <2>3, <2>4, <2>5 DEF AccountStep
<1> HIDE DEF Reads, Commits
<1>4. \/ \E p \in Proc : Reads(p) \/ Commits(p) \/ Refused(p) \/ Die(p)
      \/ \E t \in Token : Expires(t)
  BY <1>1, <1>2, <1>3 DEF AcctNext
<1> QED BY <1>4 DEF Reads, Commits

LEMMA ViewStep ==
    ASSUME AcctTypeOK, ViewInv, AcctNext
    PROVE  ViewInv'
<1> USE DEF ViewInv
<1>0. ConnectionsOK /\ call \in [Proc -> Call] /\ sessions \in [Token -> Session]
  BY TypeParts DEF AccountsOK
<1>1. ASSUME NEW p \in Proc, Commit(p), CommitGoes(p) PROVE ViewInv'
  <2>1. conn' = [c \in Proc |-> IF c = p THEN "idle"
                                ELSE IF conn[c] = "pinned" THEN "stale" ELSE conn[c]]
    BY <1>1 DEF Commit
  <2>2. PinnedIsNewest'
    BY <2>1 DEF PinnedIsNewest
  <2>3. conn[p] # "stale"
    BY <1>1 DEF Commit, MayWrite
  <2>4. CASE call' = call /\ At(p, "idle")
    BY <2>1, <2>2, <2>4 DEF OverIsStale, EndedIsRefused, At
  <2>5. ASSUME NEW c, Goto(p, c), c.at \notin {"resolving", "page"},
               c.at = "served" => At(p, "resolving") /\ c.over = call[p].over
        PROVE  OverIsStale' /\ EndedIsRefused'
    <3>1. call'[p] = c /\ \A q \in Proc \ {p} : call'[q] = call[q]
      BY <1>0, <2>5, GotoFacts
    <3>2. OverIsStale'
      BY <2>1, <2>5, <3>1 DEF OverIsStale, At
    <3>3. c.at = "served" => ~c.over
      BY <2>3, <2>5 DEF OverIsStale
    <3> QED BY <2>1, <2>5, <3>1, <3>2, <3>3 DEF EndedIsRefused, At
  <2> QED BY <1>1, <2>2, <2>4, <2>5 DEF CommitGoes
<1>2. ASSUME NEW p \in Proc, ReadGoes(p), UNCHANGED <<keys, sessions>>,
             Read(p) \/ LeaveOpen(p) \/ UNCHANGED <<lock, conn, view>>
      PROVE  ViewInv'
  <2>1. Newest' = Newest
    BY <1>2 DEF Newest
  <2>2. /\ \A q \in Proc \ {p} : conn'[q] = conn[q] /\ view'[q] = view[q]
        /\ conn[p] = "stale" => conn'[p] = "stale"
        /\ conn'[p] = "pinned" => view'[p] = Newest
    BY <1>0, <1>2 DEF ConnectionsOK, Read, LeaveOpen, MayWrite, PinnedIsNewest
  <2>3. PinnedIsNewest'
    BY <2>1, <2>2 DEF PinnedIsNewest
  <2>4. CASE call' = call /\ At(p, "idle")
    BY <2>2, <2>3, <2>4 DEF OverIsStale, EndedIsRefused, At
  <2>5. ASSUME NEW c, Goto(p, c), c.at # "served",
               c.at \in {"resolving", "page"} /\ c.over => conn[p] = "stale"
        PROVE  OverIsStale' /\ EndedIsRefused'
    <3>1. call'[p] = c /\ \A q \in Proc \ {p} : call'[q] = call[q]
      BY <1>0, <2>5, GotoFacts
    <3> QED BY <2>2, <2>5, <3>1 DEF OverIsStale, EndedIsRefused, At
  <2> QED BY <1>2, <2>3, <2>4, <2>5 DEF ReadGoes
<1>3. ASSUME NEW p \in Proc, Refused(p) \/ Die(p) PROVE ViewInv'
  <2>1. Newest' = Newest /\ Goto(p, Idle)
    BY <1>3 DEF Refused, Die, Newest, rows
  <2>2. /\ \A q \in Proc \ {p} : conn'[q] = conn[q] /\ view'[q] = view[q]
        /\ conn'[p] = "pinned" => view'[p] = Newest
    BY <1>0, <1>3 DEF ConnectionsOK, Refused, Die, PinnedIsNewest
  <2>3. call'[p] = Idle /\ \A q \in Proc \ {p} : call'[q] = call[q]
    BY <1>0, <2>1, GotoFacts
  <2> QED BY <2>1, <2>2, <2>3, IdleFacts DEF PinnedIsNewest, OverIsStale, EndedIsRefused, At
<1>4. ASSUME NEW t \in Token, Expires(t) PROVE ViewInv'
  <2>1. Newest' = [Newest EXCEPT !.tokens = @ \ {t}]
    <3>1. \A u \in Token : sessions'[u] = "open" <=> sessions[u] = "open" /\ u # t
      BY <1>0, <1>4 DEF Expires
    <3>2. keys' = keys
      BY <1>4 DEF Expires
    <3>3. {u \in Token : sessions'[u] = "open"} = {u \in Token : sessions[u] = "open"} \ {t}
      BY <3>1
    <3>4. /\ Newest = [keys |-> Newest.keys, tokens |-> Newest.tokens]
          /\ Newest' = [keys |-> Newest'.keys, tokens |-> Newest'.tokens]
          /\ Newest'.keys = Newest.keys /\ Newest'.tokens = Newest.tokens \ {t}
      BY <3>2, <3>3 DEF Newest
    <3> QED BY <3>4
  <2>2. \A p \in Proc : view'[p] = [view[p] EXCEPT !.tokens = @ \ {t}]
    BY <1>4 DEF Expires
  <2>3. PinnedIsNewest'
    BY <1>4, <2>1, <2>2 DEF PinnedIsNewest, Expires
  <2> QED BY <1>4, <2>3 DEF Expires, OverIsStale, EndedIsRefused, At
<1> QED BY <1>0, <1>1, <1>2, <1>3, <1>4, ViewEffects

\* A key that had ended when the request came in is never served (auth.py:269), and
\* an ended session only by a process whose connection is stale (auth.py:352).
THEOREM EndedStaysOut == AcctSpec => []EndedIsRefused
<1>1. AcctInit => ViewInv
  BY DEF AcctInit, ViewInv, PinnedIsNewest, OverIsStale, EndedIsRefused, At, Idle
<1>2. ASSUME AcctTypeOK, ViewInv, [AcctNext]_acctVars
      PROVE  ViewInv'
  <2>1. CASE UNCHANGED acctVars
    BY <1>2, <2>1 DEF acctVars, rows, ViewInv, PinnedIsNewest, OverIsStale, EndedIsRefused, At,
                      Newest
  <2> QED BY <1>2, <2>1, ViewStep
<1>3. ViewInv => EndedIsRefused
  BY DEF ViewInv
<1> QED BY <1>1, <1>2, <1>3, TypesHold, PTL DEF AcctSpec

-----------------------------------------------------------------------------
(***************************************************************************)
(* Keys of an agent.  An id drawn for an agent being onboarded is nobody   *)
(* else's, so that its first key is its only one; and a rotation replaces  *)
(* a key of the agent it is for.                                           *)
(***************************************************************************)

KeysAreDrawn ==
    \A k \in Key : /\ keys[k].agent \in drawn \cup {NoAgent}
                   /\ keys[k].state = "new" => keys[k].agent = NoAgent

OnboardingIsFresh ==
    \A p \in Proc : Onboarding(p) =>
        /\ call[p].agent \in drawn
        /\ \A k \in Key : keys[k].agent # call[p].agent
        /\ \A q \in Proc \ {p} : Onboarding(q) => call[q].agent # call[p].agent

HoldsKey ==
    \A p \in Proc : Holding(p) =>
        keys[call[p].key].agent = call[p].agent /\ keys[call[p].key].state # "new"

AccessInv ==
    /\ KeysAreDrawn /\ OnboardingIsFresh /\ HoldsKey
    /\ RotationKeepsAccess /\ OneLiveKey

\* A call that goes on without touching agents and keys
PlainCall(p) ==
    \/ call' = call
    \/ \E c : /\ Goto(p, c)
              /\ c.at \notin {"naming", "keyless"}
              /\ c.at \in {"rotating", "revoking"} => c.key \in Key /\ Owned(c.agent, c.key)

LEMMA AccessEffects ==
    ASSUME AcctNext
    PROVE  \/ \E p \in Proc :
                 \/ InsertsAgent(p) \/ Revokes(p)
                 \/ \E a \in Agent : DeletesAgent(p, a) \/ \E on \in BOOLEAN : ChecksName(p, a, on)
                 \/ \E k \in Key : IssuesKey(p, k) \/ Rotates(p, k)
                 \/ PlainCall(p) /\ UNCHANGED <<agents, drawn, keys, history>>
           \/ UNCHANGED <<call, agents, drawn, keys, history>>
<1> DEFINE Plain(p) == PlainCall(p) /\ UNCHANGED <<agents, drawn, keys, history>>
<1>1. ASSUME NEW p \in Proc, KeyStep(p)
      PROVE  Revokes(p) \/ (\E k \in Key : Rotates(p, k)) \/ Plain(p)
  <2>1. ASSUME NEW a \in Agent, NEW k \in Key, NEW step \in {"rotating", "revoking"},
               RequiresOwnedKey(p, step, a, k)
        PROVE  Plain(p)
    BY <2>1 DEF RequiresOwnedKey, rows, PlainCall
  <2>2. ASSUME NEW k \in Key, ReadsKey(p, k) PROVE Plain(p)
    BY <2>2 DEF ReadsKey, rows, PlainCall
  <2>3. ASSUME NotesUse(p) \/ Returns(p) PROVE Plain(p)
    BY <2>3, IdleFacts DEF NotesUse, Returns, rows, PlainCall
  <2> QED BY <1>1, <2>1, <2>2, <2>3 DEF KeyStep
<1>2. ASSUME NEW p \in Proc, AccountStep(p) PROVE Plain(p)
  <2>1. ASSUME \/ StartsWeb(p) \/ UpsertsAdmin(p) \/ SignUpClash(p) \/ Browses(p)
               \/ \E u \in User : SignsUp(p, u) \/ LogsIn(p, u)
        PROVE  Plain(p)
    BY <2>1, IdleFacts DEF StartsWeb, UpsertsAdmin, SignUpClash, LeaveOpen, Browses, SignsUp,
                           LogsIn, rows, PlainCall
  <2>2. ASSUME NEW t \in Token, CreatesSession(p, t) \/ LogsOut(p, t) \/ Visits(p, t)
        PROVE  Plain(p)
    BY <2>2, IdleFacts DEF CreatesSession, LogsOut, Visits, rows, PlainCall
  <2> QED BY <1>2, <2>1, <2>2 DEF AccountStep
<1>3. ASSUME NEW p \in Proc, AgentIsGone(p) \/ Refused(p) \/ Die(p) PROVE Plain(p)
  BY <1>3, IdleFacts DEF AgentIsGone, LeaveOpen, Refused, Die, rows, PlainCall
<1>4. ASSUME NEW t \in Token, Expires(t)
      PROVE  UNCHANGED <<call, agents, drawn, keys, history>>
  BY <1>4 DEF Expires
<1> HIDE DEF Plain
<1>5. \/ \E p \in Proc :
            \/ InsertsAgent(p) \/ Revokes(p)
            \/ \E a \in Agent : DeletesAgent(p, a) \/ \E on \in BOOLEAN : ChecksName(p, a, on)
            \/ \E k \in Key : IssuesKey(p, k) \/ Rotates(p, k)
            \/ Plain(p)
      \/ UNCHANGED <<call, agents, drawn, keys, history>>
  BY <1>1, <1>2, <1>3, <1>4 DEF AcctNext, AgentStep
<1> QED BY <1>5 DEF Plain

\* The calls of a step in which p goes on to c
LEMMA CallAfter ==
    ASSUME call \in [Proc -> Call], NEW p \in Proc, NEW c, Goto(p, c)
    PROVE  /\ call'[p] = c
           /\ \A q \in Proc \ {p} : /\ call'[q] = call[q]
                                    /\ Onboarding(q)' <=> Onboarding(q)
                                    /\ Holding(q)' <=> Holding(q)
           /\ Onboarding(p)' <=> c.at \in {"naming", "keyless"}
           /\ Holding(p)' <=> c.at \in {"rotating", "revoking"}
BY GotoFacts DEF Onboarding, Holding, At

LEMMA PlainStep ==
    ASSUME AcctTypeOK, AccessInv, NEW p \in Proc, PlainCall(p),
           UNCHANGED <<agents, drawn, keys, history>>
    PROVE  AccessInv'
<1>0. call \in [Proc -> Call]
  BY TypeParts
<1>1. KeysAreDrawn' /\ RotationKeepsAccess' /\ OneLiveKey'
  BY DEF AccessInv, KeysAreDrawn, RotationKeepsAccess, OneLiveKey, LiveKeys, history
<1>2. CASE call' = call
  BY <1>2, <1>1 DEF AccessInv, OnboardingIsFresh, HoldsKey, Onboarding, Holding, At
<1>3. ASSUME NEW c, Goto(p, c), c.at \notin {"naming", "keyless"},
             c.at \in {"rotating", "revoking"} => c.key \in Key /\ Owned(c.agent, c.key)
      PROVE  OnboardingIsFresh' /\ HoldsKey'
  <2>1. /\ call'[p] = c
        /\ \A q \in Proc \ {p} : /\ call'[q] = call[q]
                                 /\ Onboarding(q)' <=> Onboarding(q)
                                 /\ Holding(q)' <=> Holding(q)
        /\ ~Onboarding(p)'
        /\ Holding(p)' <=> c.at \in {"rotating", "revoking"}
    BY <1>0, <1>3, CallAfter
  <2>2. OnboardingIsFresh'
    BY <2>1 DEF AccessInv, OnboardingIsFresh
  <2>3. HoldsKey'
    BY <1>3, <2>1 DEF AccessInv, HoldsKey, Owned
  <2> QED BY <2>2, <2>3
<1> QED BY <1>1, <1>2, <1>3 DEF AccessInv, PlainCall

LEMMA OnboardStep ==
    ASSUME AcctTypeOK, AccessInv, NEW p \in Proc, NEW a \in Agent, NEW on \in BOOLEAN,
           ChecksName(p, a, on)
    PROVE  AccessInv'
<1>0. call \in [Proc -> Call]
  BY TypeParts
<1> DEFINE c == [at |-> "naming", agent |-> a, onboard |-> on]
<1>1. /\ a \notin drawn /\ drawn' = drawn \cup {a} /\ Goto(p, c)
      /\ UNCHANGED <<agents, keys, history>>
  BY DEF ChecksName
<1>2. c.at = "naming" /\ c.agent = a
  OBVIOUS
<1> HIDE DEF c
<1>3. /\ call'[p] = c
      /\ \A q \in Proc \ {p} : /\ call'[q] = call[q]
                               /\ Onboarding(q)' <=> Onboarding(q)
                               /\ Holding(q)' <=> Holding(q)
      /\ Onboarding(p)' /\ ~Holding(p)'
  BY <1>0, <1>1, <1>2, CallAfter
<1>4. KeysAreDrawn' /\ RotationKeepsAccess' /\ OneLiveKey' /\ HoldsKey'
  BY <1>1, <1>3 DEF AccessInv, KeysAreDrawn, RotationKeepsAccess, OneLiveKey, LiveKeys, history,
                    HoldsKey
<1>5. \A k \in Key : keys[k].agent # a
  BY <1>1, AccountsAssumption DEF AccessInv, KeysAreDrawn
<1>6. OnboardingIsFresh'
  BY <1>1, <1>2, <1>3, <1>5 DEF AccessInv, OnboardingIsFresh
<1> QED BY <1>4, <1>6 DEF AccessInv

LEMMA InsertStep ==
    ASSUME AcctTypeOK, AccessInv, NEW p \in Proc, InsertsAgent(p)
    PROVE  AccessInv'
<1>0. call \in [Proc -> Call] /\ KeysOK
  BY TypeParts
<1> DEFINE a == call[p].agent
<1>1. PICK c : Goto(p, c) /\ \/ c = [at |-> "keyless", agent |-> a]
                             \/ c = Idle
  BY DEF InsertsAgent
<1>2. /\ c.at = "keyless" \/ c.at = "idle"
      /\ c.at = "keyless" => c.agent = a
  BY <1>1, IdleFacts
<1>3. /\ call'[p] = c
      /\ \A q \in Proc \ {p} : /\ call'[q] = call[q]
                               /\ Onboarding(q)' <=> Onboarding(q)
                               /\ Holding(q)' <=> Holding(q)
      /\ Onboarding(p)' => c.agent = a
      /\ ~Holding(p)'
  BY <1>0, <1>1, <1>2, CallAfter
<1>4. Onboarding(p) /\ agents' = agents \cup {a} /\ UNCHANGED <<drawn, keys, barred, repeated>>
  BY DEF InsertsAgent, Onboarding, history
<1>5. OnboardingIsFresh'
  BY <1>3, <1>4 DEF AccessInv, OnboardingIsFresh
<1>6. \A k \in Key : keys[k].agent # a
  BY <1>4 DEF AccessInv, OnboardingIsFresh
<1>7. RotationKeepsAccess' /\ OneLiveKey'
  BY <1>4, <1>6 DEF AccessInv, RotationKeepsAccess, OneLiveKey, LiveKeys
<1>8. KeysAreDrawn' /\ HoldsKey'
  BY <1>3, <1>4 DEF AccessInv, KeysAreDrawn, HoldsKey
<1> QED BY <1>5, <1>7, <1>8 DEF AccessInv

LEMMA IssueStep ==
    ASSUME AcctTypeOK, AccessInv, NEW p \in Proc, NEW new \in Key, IssuesKey(p, new)
    PROVE  AccessInv'
<1>0. call \in [Proc -> Call] /\ KeysOK
  BY TypeParts
<1> DEFINE a == call[p].agent
<1>1. /\ Onboarding(p) /\ a \in agents /\ keys[new].state = "new" /\ Goto(p, Idle)
      /\ UNCHANGED <<agents, drawn, history>>
  BY DEF IssuesKey, Onboarding
<1>2. /\ keys'[new].agent = a /\ keys'[new].state = "live"
      /\ \A k \in Key \ {new} : keys'[k] = keys[k]
  BY <1>0 DEF IssuesKey, Issue, KeysOK
<1>3. /\ a \in drawn
      /\ \A k \in Key : keys[k].agent # a
      /\ \A q \in Proc \ {p} : Onboarding(q) => call[q].agent # a
  BY <1>1 DEF AccessInv, OnboardingIsFresh
<1> HIDE DEF a
<1>4. /\ \A q \in Proc \ {p} : /\ call'[q] = call[q]
                               /\ Onboarding(q)' <=> Onboarding(q)
                               /\ Holding(q)' <=> Holding(q)
      /\ ~Onboarding(p)' /\ ~Holding(p)'
  BY <1>0, <1>1, CallAfter, IdleFacts
<1>5. KeysAreDrawn'
  BY <1>1, <1>2, <1>3 DEF AccessInv, KeysAreDrawn
<1>6. OnboardingIsFresh'
  <2> SUFFICES ASSUME NEW q \in Proc, Onboarding(q)'
               PROVE  /\ call'[q].agent \in drawn'
                      /\ \A k \in Key : keys'[k].agent # call'[q].agent
                      /\ \A r \in Proc \ {q} : Onboarding(r)' => call'[r].agent # call'[q].agent
    BY DEF OnboardingIsFresh
  <2>1. q # p /\ Onboarding(q) /\ call'[q] = call[q] /\ call[q].agent # a
    BY <1>3, <1>4
  <2>2. \A k \in Key : keys'[k].agent # call'[q].agent
    BY <1>2, <2>1 DEF AccessInv, OnboardingIsFresh
  <2>3. call'[q].agent \in drawn'
    BY <1>1, <2>1 DEF AccessInv, OnboardingIsFresh
  <2> QED BY <1>4, <2>1, <2>2, <2>3 DEF AccessInv, OnboardingIsFresh
<1>7. HoldsKey'
  <2> SUFFICES ASSUME NEW q \in Proc, Holding(q)'
               PROVE  /\ keys'[call'[q].key].agent = call'[q].agent
                      /\ keys'[call'[q].key].state # "new"
    BY DEF HoldsKey
  <2>1. Holding(q) /\ call'[q] = call[q] /\ call[q].key \in Key
    BY <1>0, <1>4, CallFields
  <2>2. keys[call[q].key].agent = call[q].agent /\ keys[call[q].key].state # "new"
    BY <2>1 DEF AccessInv, HoldsKey
  <2> QED BY <1>1, <1>2, <2>1, <2>2
<1>8. RotationKeepsAccess'
  BY <1>1, <1>2, <1>3 DEF AccessInv, RotationKeepsAccess, LiveKeys, history
<1>9. OneLiveKey'
  BY <1>1, <1>2, <1>3 DEF AccessInv, OneLiveKey, LiveKeys, history
<1> QED BY <1>5, <1>6, <1>7, <1>8, <1>9 DEF AccessInv

LEMMA DeleteStep ==
    ASSUME AcctTypeOK, AccessInv, NEW p \in Proc, NEW a \in Agent, DeletesAgent(p, a)
    PROVE  AccessInv'
<1>0. call \in [Proc -> Call] /\ KeysOK
  BY TypeParts
<1>1. /\ agents' = agents \ {a} /\ barred' = barred \ {a} /\ repeated' = repeated \ {a}
      /\ UNCHANGED <<call, drawn>>
  BY DEF DeletesAgent
<1>2. \A k \in Key : /\ keys'[k].agent = keys[k].agent
                     /\ keys[k].agent # a => keys'[k] = keys[k]
                     /\ keys[k].agent = a => keys'[k].state = "gone"
  BY <1>0 DEF DeletesAgent, KeysOK, KeyRow
<1>3. \A q \in Proc : (Onboarding(q)' <=> Onboarding(q)) /\ (Holding(q)' <=> Holding(q))
  BY <1>1 DEF Onboarding, Holding, At
<1>4. KeysAreDrawn' /\ OnboardingIsFresh'
  BY <1>1, <1>2, <1>3, AccountsAssumption DEF AccessInv, KeysAreDrawn, OnboardingIsFresh
<1>5. HoldsKey'
  BY <1>0, <1>1, <1>2, <1>3, CallFields DEF AccessInv, HoldsKey
<1>6. \A b \in agents', k \in Key : b # a /\ (keys[k].agent = b => keys'[k] = keys[k])
  BY <1>1, <1>2
<1>7. RotationKeepsAccess' /\ OneLiveKey'
  BY <1>1, <1>2, <1>6 DEF AccessInv, RotationKeepsAccess, OneLiveKey, LiveKeys
<1> QED BY <1>4, <1>5, <1>7 DEF AccessInv

LEMMA RevokeStep ==
    ASSUME AcctTypeOK, AccessInv, NEW p \in Proc, Revokes(p)
    PROVE  AccessInv'
<1>0. call \in [Proc -> Call] /\ KeysOK
  BY TypeParts
<1> DEFINE a == call[p].agent
<1> DEFINE old == call[p].key
<1>1. /\ Holding(p) /\ Goto(p, Idle) /\ barred' = barred \cup {a}
      /\ UNCHANGED <<agents, drawn, repeated>>
  BY DEF Revokes, Holding
<1>2. old \in Key /\ keys[old].agent = a /\ keys[old].state # "new"
  BY <1>0, <1>1, CallFields DEF AccessInv, HoldsKey
<1>3. /\ \A k \in Key \ {old} : keys'[k] = keys[k]
      /\ keys'[old].agent = a
      /\ keys'[old].state \in {"revoked", "gone"}
  BY <1>0, <1>2 DEF Revokes, Revoke, KeysOK, KeyRow
<1> HIDE DEF a, old
<1>4. /\ \A q \in Proc \ {p} : /\ call'[q] = call[q]
                               /\ Onboarding(q)' <=> Onboarding(q)
                               /\ Holding(q)' <=> Holding(q)
      /\ ~Onboarding(p)' /\ ~Holding(p)'
  BY <1>0, <1>1, CallAfter, IdleFacts
<1>5. \A k \in Key : keys'[k].agent = keys[k].agent
  BY <1>2, <1>3
<1>6. KeysAreDrawn' /\ OnboardingIsFresh'
  BY <1>1, <1>3, <1>4, <1>5 DEF AccessInv, KeysAreDrawn, OnboardingIsFresh
<1>7. HoldsKey'
  BY <1>0, <1>3, <1>4, <1>5, CallFields DEF AccessInv, HoldsKey
<1>8. RotationKeepsAccess' /\ OneLiveKey'
  BY <1>1, <1>2, <1>3 DEF AccessInv, RotationKeepsAccess, OneLiveKey, LiveKeys
<1> QED BY <1>6, <1>7, <1>8 DEF AccessInv

LEMMA RotateStep ==
    ASSUME AcctTypeOK, AccessInv, NEW p \in Proc, NEW new \in Key, Rotates(p, new)
    PROVE  AccessInv'
<1>0. call \in [Proc -> Call] /\ KeysOK
  BY TypeParts
<1> DEFINE a == call[p].agent
<1> DEFINE old == call[p].key
<1>1. /\ Holding(p) /\ Goto(p, Idle) /\ a \in agents /\ keys[new].state = "new"
      /\ repeated' = IF keys[old].state = "live" THEN repeated ELSE repeated \cup {a}
      /\ UNCHANGED <<agents, drawn, barred>>
  BY DEF Rotates, Holding
<1>2. /\ a \in Agent /\ old \in Key
      /\ keys[old].agent = a /\ keys[old].state # "new" /\ new # old
  BY <1>0, <1>1, CallFields DEF AccessInv, HoldsKey
<1>3. /\ \A k \in Key \ {old, new} : keys'[k] = keys[k]
      /\ keys'[old].agent = a /\ keys'[old].state \in {"revoked", "gone"}
      /\ keys'[new].agent = a /\ keys'[new].state = "live"
  BY <1>0, <1>2 DEF Rotates, Issue, Revoke, KeysOK, KeyRow
<1>4. a \in drawn
  BY <1>0, <1>1 DEF KeysOK
<1> HIDE DEF a, old
<1>5. /\ \A q \in Proc \ {p} : /\ call'[q] = call[q]
                               /\ Onboarding(q)' <=> Onboarding(q)
                               /\ Holding(q)' <=> Holding(q)
      /\ ~Onboarding(p)' /\ ~Holding(p)'
  BY <1>0, <1>1, CallAfter, IdleFacts
<1>6. KeysAreDrawn'
  BY <1>1, <1>2, <1>3, <1>4 DEF AccessInv, KeysAreDrawn
<1>7. OnboardingIsFresh'
  <2> SUFFICES ASSUME NEW q \in Proc, Onboarding(q)'
               PROVE  /\ call'[q].agent \in drawn'
                      /\ \A k \in Key : keys'[k].agent # call'[q].agent
                      /\ \A r \in Proc \ {q} : Onboarding(r)' => call'[r].agent # call'[q].agent
    BY DEF OnboardingIsFresh
  <2>1. q # p /\ Onboarding(q) /\ call'[q] = call[q] /\ call[q].agent # a
    BY <1>2, <1>5 DEF AccessInv, OnboardingIsFresh
  <2>2. \A k \in Key : keys'[k].agent # call'[q].agent
    BY <1>3, <2>1 DEF AccessInv, OnboardingIsFresh
  <2> QED BY <1>1, <1>5, <2>1, <2>2 DEF AccessInv, OnboardingIsFresh
<1>8. HoldsKey'
  <2> SUFFICES ASSUME NEW q \in Proc, Holding(q)'
               PROVE  /\ keys'[call'[q].key].agent = call'[q].agent
                      /\ keys'[call'[q].key].state # "new"
    BY DEF HoldsKey
  <2>1. Holding(q) /\ call'[q] = call[q] /\ call[q].key \in Key
    BY <1>0, <1>5, CallFields
  <2>2. keys[call[q].key].agent = call[q].agent /\ keys[call[q].key].state # "new"
    BY <2>1 DEF AccessInv, HoldsKey
  <2> QED BY <1>1, <1>2, <1>3, <2>1, <2>2
<1>9. RotationKeepsAccess'
  <2> SUFFICES ASSUME NEW b \in agents \ barred,
                      \E k \in Key : keys'[k].agent = b /\ keys'[k].state # "gone"
               PROVE  \E k \in Key : keys'[k].state = "live" /\ keys'[k].agent = b
    BY <1>1 DEF RotationKeepsAccess, LiveKeys
  <2>1. CASE b = a
    BY <1>3, <2>1
  <2>2. CASE b # a
    <3>1. PICK k \in Key : keys'[k].agent = b /\ keys'[k].state # "gone"
      OBVIOUS
    <3>2. keys[k] = keys'[k]
      BY <1>3, <2>2, <3>1
    <3>3. LiveKeys(b) # {}
      BY <3>1, <3>2 DEF AccessInv, RotationKeepsAccess
    <3>4. PICK j \in Key : keys[j].state = "live" /\ keys[j].agent = b
      BY <3>3 DEF LiveKeys
    <3>5. keys'[j] = keys[j]
      BY <1>1, <1>2, <1>3, <2>2, <3>4
    <3> QED BY <3>4, <3>5
  <2> QED BY <2>1, <2>2
<1>10. OneLiveKey'
  BY <1>1, <1>2, <1>3 DEF AccessInv, OneLiveKey, LiveKeys
<1> QED BY <1>6, <1>7, <1>8, <1>9, <1>10 DEF AccessInv

LEMMA AccessIsInductive == AcctSpec => []AccessInv
<1>1. AcctInit => AccessInv
  BY AccountsAssumption
     DEF AcctInit, AccessInv, KeysAreDrawn, OnboardingIsFresh, HoldsKey, RotationKeepsAccess,
         OneLiveKey, LiveKeys, Onboarding, Holding, At, Idle
<1>2. ASSUME AcctTypeOK, AccessInv, [AcctNext]_acctVars
      PROVE  AccessInv'
  <2>1. CASE UNCHANGED <<call, agents, drawn, keys, history>>
    BY <1>2, <2>1 DEF AccessInv, KeysAreDrawn, OnboardingIsFresh, HoldsKey, RotationKeepsAccess,
                      OneLiveKey, LiveKeys, Onboarding, Holding, At, history
  <2>2. CASE AcctNext
    BY <1>2, <2>1, <2>2, AccessEffects, InsertStep, RevokeStep, DeleteStep, OnboardStep,
       IssueStep, RotateStep, PlainStep
  <2>3. CASE UNCHANGED acctVars
    BY <2>1, <2>3 DEF acctVars, rows
  <2> QED BY <1>2, <2>2, <2>3
<1> QED BY <1>1, <1>2, TypesHold, PTL DEF AcctSpec

\* No overlap of rotations, refusal or crash leaves an agent without a live key that
\* had one and never had one revoked by hand (auth.py:229).
THEOREM RotationLocksNobodyOut == AcctSpec => []RotationKeepsAccess
BY AccessIsInductive, PTL DEF AccessInv

\* An agent has one live key at most unless a rotation was asked for a key that had
\* been revoked already (auth.py:229, auth.py:408).
THEOREM RotationReplaces == AcctSpec => []OneLiveKey
BY AccessIsInductive, PTL DEF AccessInv
=============================================================================
