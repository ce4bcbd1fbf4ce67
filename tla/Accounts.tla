------------------------------ MODULE Accounts ------------------------------
(***************************************************************************)
(* Agents, their API keys, dashboard accounts and sessions: AuthService    *)
(* (skill_vault/auth.py) as several processes call it over one database    *)
(* file, statement by statement where another process can come between.    *)
(* A process is the dashboard, the MCP server or a command line, and makes *)
(* one call at a time.                                                     *)
(*                                                                         *)
(* Connections are as in module Connections: a call that raises after      *)
(* BEGIN leaves its transaction open, with the write lock if it had it;    *)
(* and a connection on which a write was refused keeps the snapshot of its *)
(* next read, and can write no more once another process has committed.    *)
(*                                                                         *)
(* Ids and session tokens are drawn at random, and none is drawn twice.     *)
(* What the deletion of an agent does to its skills is in Registry.         *)
(***************************************************************************)
EXTENDS Naturals

CONSTANTS
    Proc,       \* the processes
    NoProc,     \* nobody has the write lock
    Agent,      \* agent ids
    Key,        \* ids of rows of api_keys
    Token,      \* session tokens
    User,       \* dashboard accounts, each with its e-mail address
    NoUser,     \* the NULL of agents.owner_user_id
    Admin,      \* the account of settings.admin_username
    NoAgent,    \* the agent of a key that was never issued
    NameOf,     \* the name an agent is created with
    OwnerOf     \* the owner_user_id an agent is created with

ASSUME AccountsAssumption ==
    /\ NoProc \notin Proc
    /\ NoUser \notin User
    /\ NoAgent \notin Agent
    /\ Admin \in User
    /\ OwnerOf \in [Agent -> User \cup {NoUser}]

VARIABLES
    agents,      \* rows of agents
    drawn,       \* agent ids drawn so far
    keys,        \* rows of api_keys
    users,       \* rows of users
    superusers,  \* users with superuser = 1
    sessions,    \* rows of sessions
    lock,        \* the process whose open transaction has the write lock
    conn,        \* the connection of each process, as in Connections
    view,        \* the credentials a pinned or stale connection reads
    serving,     \* the processes that run the dashboard
    call,        \* what each process is doing, and has read
    barred,      \* agents with a key that revoke_key revoked, and ...
    repeated     \* agents of which a revoked key was rotated (no state of the code)

rows == <<agents, drawn, keys, users, superusers, sessions>>
history == <<barred, repeated>>
acctVars == <<rows, lock, conn, view, serving, call, history>>

-----------------------------------------------------------------------------

KeyRow == [agent : Agent \cup {NoAgent}, state : {"new", "live", "revoked", "gone"}]

Session == {"new", "open", "expired", "ended"}

\* What reads of a connection can tell about credentials
Credentials == [keys : SUBSET Key, tokens : SUBSET Token]

Newest == [keys   |-> {k \in Key : keys[k].state = "live"},
           tokens |-> {t \in Token : sessions[t] = "open"}]

NoView == [keys |-> {}, tokens |-> {}]

Idle == [at |-> "idle"]

\* A call between two of its statements.  "over" notes whether the key was revoked,
\* or the session had ended, before the call began.
Call ==
    {Idle, [at |-> "session"]}
    \cup [at : {"upsert"}, found : BOOLEAN]
    \cup [at : {"naming"}, agent : Agent, onboard : BOOLEAN]
    \cup [at : {"keyless"}, agent : Agent]
    \cup [at : {"rotating", "revoking"}, agent : Agent, key : Key]
    \cup [at : {"resolving", "served"}, key : Key, over : BOOLEAN]
    \cup [at : {"page"}, token : Token, over : BOOLEAN]

At(p, step) == call[p].at = step

Goto(p, c) == call' = [call EXCEPT ![p] = c]

-----------------------------------------------------------------------------
(***************************************************************************)
(* Connections.                                                            *)
(***************************************************************************)

MayWrite(p) == lock \in {NoProc, p} /\ conn[p] # "stale"

\* What process p reads
Seen(p) == IF conn[p] \in {"pinned", "stale"} THEN view[p] ELSE Newest

\* A read outside a transaction, which pins the snapshot of an open one
Read(p) ==
    /\ conn' = [conn EXCEPT ![p] = IF @ = "open" THEN "pinned" ELSE @]
    /\ view' = [view EXCEPT ![p] = IF conn[p] = "open" THEN Newest ELSE @]
    /\ UNCHANGED lock

Commit(p) ==
    /\ MayWrite(p)
    /\ lock' = NoProc
    /\ conn' = [c \in Proc |-> IF c = p THEN "idle"
                               ELSE IF conn[c] = "pinned" THEN "stale" ELSE conn[c]]
    /\ view' = [view EXCEPT ![p] = NoView]

\* The call raises after BEGIN, and its transaction stays open with the lock.
LeaveOpen(p) ==
    /\ MayWrite(p)
    /\ lock' = p
    /\ conn' = [conn EXCEPT ![p] = "idle"]
    /\ view' = [view EXCEPT ![p] = NoView]
    /\ Goto(p, Idle)

\* The first write of a call raises: the database is locked, or the snapshot is old.
Refused(p) ==
    /\ ~MayWrite(p)
    /\ call[p].at \in {"idle", "session", "naming", "keyless", "rotating", "revoking",
                       "resolving"}
    /\ conn' = [conn EXCEPT ![p] = CASE @ = "idle" -> "open"
                                     [] @ = "open" -> "pinned"
                                     [] OTHER -> @]
    /\ view' = [view EXCEPT ![p] = IF conn[p] = "open" THEN Newest ELSE @]
    /\ Goto(p, Idle)
    /\ UNCHANGED <<rows, lock, serving, history>>

\* The process dies, between calls or inside one, and is started again later.
Die(p) ==
    /\ lock' = IF lock = p THEN NoProc ELSE lock
    /\ conn' = [conn EXCEPT ![p] = "idle"]
    /\ view' = [view EXCEPT ![p] = NoView]
    /\ serving' = serving \ {p}
    /\ Goto(p, Idle)
    /\ UNCHANGED <<rows, history>>

-----------------------------------------------------------------------------
(***************************************************************************)
(* Onboarding: two commits.  Nothing ever issues a first key to an agent   *)
(* that a crash, or "agent create", has left without one.                  *)
(***************************************************************************)

NameTaken(a) == \E b \in agents : NameOf[b] = NameOf[a] /\ OwnerOf[b] = OwnerOf[a]

\* create_agent's SELECT; the command "agent create" issues no key afterwards.
ChecksName(p, a, onboard) ==
    /\ At(p, "idle")
    /\ a \notin drawn /\ OwnerOf[a] \in users \cup {NoUser}
    /\ ~NameTaken(a)
    /\ drawn' = drawn \cup {a}
    /\ Goto(p, [at |-> "naming", agent |-> a, onboard |-> onboard])
    /\ Read(p)
    /\ UNCHANGED <<agents, keys, users, superusers, sessions, serving, history>>

\* Another process may have inserted the same name since.
InsertsAgent(p) ==
    /\ At(p, "naming")
    /\ agents' = agents \cup {call[p].agent}
    /\ Commit(p)
    /\ Goto(p, IF call[p].onboard THEN [at |-> "keyless", agent |-> call[p].agent] ELSE Idle)
    /\ UNCHANGED <<drawn, keys, users, superusers, sessions, serving, history>>

Issue(k, a, K) == [K EXCEPT ![k] = [agent |-> a, state |-> "live"]]

IssuesKey(p, k) ==
    /\ At(p, "keyless")
    /\ call[p].agent \in agents
    /\ keys[k].state = "new"
    /\ keys' = Issue(k, call[p].agent, keys)
    /\ Commit(p)
    /\ Goto(p, Idle)
    /\ UNCHANGED <<agents, drawn, users, superusers, sessions, serving, history>>

\* FOREIGN KEY: the agent was deleted after the statement before.
AgentIsGone(p) ==
    /\ At(p, "keyless") \/ At(p, "rotating")
    /\ call[p].agent \notin agents
    /\ LeaveOpen(p)
    /\ UNCHANGED <<rows, serving, history>>

-----------------------------------------------------------------------------
(***************************************************************************)
(* Rotation and revocation: a check, then one transaction.                 *)
(***************************************************************************)

Owned(a, k) == keys[k].agent = a /\ keys[k].state \in {"live", "revoked"}

\* _require_owned_key, which lets a revoked key pass
RequiresOwnedKey(p, step, a, k) ==
    /\ At(p, "idle")
    /\ Owned(a, k)
    /\ Goto(p, [at |-> step, agent |-> a, key |-> k])
    /\ Read(p)
    /\ UNCHANGED <<rows, serving, history>>

Revoke(k, K) == IF K[k].state = "live" THEN [K EXCEPT ![k].state = "revoked"] ELSE K

\* Mutants of Rotates: the old key stays; the revocation is a commit of its own.
RotatesWithoutRevoking(p, new) ==
    /\ At(p, "rotating")
    /\ call[p].agent \in agents
    /\ keys[new].state = "new"
    /\ keys' = Issue(new, call[p].agent, keys)
    /\ repeated' = IF keys[call[p].key].state = "live" THEN repeated
                   ELSE repeated \cup {call[p].agent}
    /\ Commit(p)
    /\ Goto(p, Idle)
    /\ UNCHANGED <<agents, drawn, users, superusers, sessions, serving, barred>>

RotatesInTwoCommits(p, new) ==
    /\ At(p, "rotating")
    /\ call[p].agent \in agents
    /\ keys[new].state = "new"
    /\ keys' = Revoke(call[p].key, keys)
    /\ repeated' = IF keys[call[p].key].state = "live" THEN repeated
                   ELSE repeated \cup {call[p].agent}
    /\ Commit(p)
    /\ Goto(p, [at |-> "keyless", agent |-> call[p].agent])
    /\ UNCHANGED <<agents, drawn, users, superusers, sessions, serving, barred>>

Rotates(p, new) ==
    /\ At(p, "rotating")
    /\ call[p].agent \in agents
    /\ keys[new].state = "new"
    /\ keys' = Issue(new, call[p].agent, Revoke(call[p].key, keys))
    /\ repeated' = IF keys[call[p].key].state = "live" THEN repeated
                   ELSE repeated \cup {call[p].agent}
    /\ Commit(p)
    /\ Goto(p, Idle)
    /\ UNCHANGED <<agents, drawn, users, superusers, sessions, serving, barred>>

Revokes(p) ==
    /\ At(p, "revoking")
    /\ keys' = Revoke(call[p].key, keys)
    /\ barred' = barred \cup {call[p].agent}
    /\ Commit(p)
    /\ Goto(p, Idle)
    /\ UNCHANGED <<agents, drawn, users, superusers, sessions, serving, repeated>>

\* A superuser, or the owner of another agent too, deletes an agent; its keys go
\* by cascade.
DeletesAgent(p, a) ==
    /\ At(p, "idle") /\ p \in serving
    /\ a \in agents
    /\ \/ superusers # {}
       \/ OwnerOf[a] \in users /\ \E b \in agents \ {a} : OwnerOf[b] = OwnerOf[a]
    /\ agents' = agents \ {a}
    /\ keys' = [k \in Key |-> IF keys[k].agent = a THEN [keys[k] EXCEPT !.state = "gone"]
                              ELSE keys[k]]
    /\ barred' = barred \ {a}
    /\ repeated' = repeated \ {a}
    /\ Commit(p)
    /\ UNCHANGED <<drawn, users, superusers, sessions, serving, call>>

-----------------------------------------------------------------------------
(***************************************************************************)
(* resolve: the row of the key, the limiter, and then last_used_at.        *)
(***************************************************************************)

Ended(k) == keys[k].state \in {"revoked", "gone"}

ReadsKey(p, k) ==
    /\ At(p, "idle")
    /\ k \in Seen(p).keys                   \* else 401, or SV_REVOKED_KEY
    /\ Goto(p, [at |-> "resolving", key |-> k, over |-> Ended(k)])
    /\ Read(p)
    /\ UNCHANGED <<rows, serving, history>>

\* Mutant: last_used_at is not written each time.
NotesNoUse(p) ==
    /\ At(p, "resolving")
    /\ Read(p)
    /\ Goto(p, [at |-> "served", key |-> call[p].key, over |-> call[p].over])
    /\ UNCHANGED <<rows, serving, history>>

NotesUse(p) ==
    /\ At(p, "resolving")
    /\ Commit(p)
    /\ Goto(p, [at |-> "served", key |-> call[p].key, over |-> call[p].over])
    /\ UNCHANGED <<rows, serving, history>>

\* The limiter refuses, or what was asked for is done.
Returns(p) ==
    /\ call[p].at \in {"resolving", "served", "page"}
    /\ Goto(p, Idle)
    /\ UNCHANGED <<rows, lock, conn, view, serving, history>>

-----------------------------------------------------------------------------
(***************************************************************************)
(* Accounts and sessions.                                                  *)
(***************************************************************************)

\* create_app: upsert_superuser, whose UPDATE or INSERT follows an older read
StartsWeb(p) ==
    /\ At(p, "idle") /\ p \notin serving
    /\ conn[p] = "idle"
    /\ Goto(p, [at |-> "upsert", found |-> Admin \in users])
    /\ UNCHANGED <<rows, lock, conn, view, serving, history>>

\* Mutant: an account that is there already keeps its flag.
UpsertsPasswordOnly(p) ==
    /\ At(p, "upsert")
    /\ call[p].found \/ Admin \notin users
    /\ users' = users \cup {Admin}
    /\ superusers' = IF call[p].found THEN superusers ELSE superusers \cup {Admin}
    /\ serving' = serving \cup {p}
    /\ Commit(p)
    /\ Goto(p, Idle)
    /\ UNCHANGED <<agents, drawn, keys, sessions, history>>

UpsertsAdmin(p) ==
    /\ At(p, "upsert")
    /\ call[p].found \/ Admin \notin users      \* else UNIQUE raises, and p dies
    /\ users' = users \cup {Admin}
    /\ superusers' = superusers \cup {Admin}
    /\ serving' = serving \cup {p}
    /\ Commit(p)
    /\ Goto(p, Idle)
    /\ UNCHANGED <<agents, drawn, keys, sessions, history>>

\* create_user, and create_session after its commit
SignsUp(p, u) ==
    /\ At(p, "idle") /\ p \in serving
    /\ u \notin users
    /\ users' = users \cup {u}
    /\ Commit(p)
    /\ Goto(p, [at |-> "session"])
    /\ UNCHANGED <<agents, drawn, keys, superusers, sessions, serving, history>>

\* "email already exists": the page is polite, the transaction stays open.
SignUpClash(p) ==
    /\ At(p, "idle") /\ p \in serving
    /\ users # {}
    /\ LeaveOpen(p)
    /\ UNCHANGED <<rows, serving, history>>

LogsIn(p, u) ==
    /\ At(p, "idle") /\ p \in serving
    /\ u \in users
    /\ Goto(p, [at |-> "session"])
    /\ Read(p)
    /\ UNCHANGED <<rows, serving, history>>

CreatesSession(p, t) ==
    /\ At(p, "session")
    /\ sessions[t] = "new"
    /\ sessions' = [sessions EXCEPT ![t] = "open"]
    /\ Commit(p)
    /\ Goto(p, Idle)
    /\ UNCHANGED <<agents, drawn, keys, users, superusers, serving, history>>

LogsOut(p, t) ==
    /\ At(p, "idle") /\ p \in serving
    /\ sessions[t] # "new"
    /\ sessions' = [sessions EXCEPT ![t] = "ended"]
    /\ Commit(p)
    /\ UNCHANGED <<agents, drawn, keys, users, superusers, serving, call, history>>

\* SESSION_TTL_DAYS go by; the row stays.
Expires(t) ==
    /\ sessions[t] = "open"
    /\ sessions' = [sessions EXCEPT ![t] = "expired"]
    /\ view' = [p \in Proc |-> [view[p] EXCEPT !.tokens = @ \ {t}]]
    /\ UNCHANGED <<agents, drawn, keys, users, superusers, lock, conn, serving, call, history>>

\* get_user_by_session, before each page
Visits(p, t) ==
    /\ At(p, "idle") /\ p \in serving
    /\ t \in Seen(p).tokens                 \* else it is a guest's request
    /\ Goto(p, [at |-> "page", token |-> t, over |-> sessions[t] # "open"])
    /\ Read(p)
    /\ UNCHANGED <<rows, serving, history>>

\* Any read of a process that makes no other call
Browses(p) ==
    /\ At(p, "idle") /\ conn[p] = "open"
    /\ Read(p)
    /\ UNCHANGED <<rows, serving, call, history>>

-----------------------------------------------------------------------------

AcctInit ==
    /\ agents = {}
    /\ drawn = {}
    /\ keys = [k \in Key |-> [agent |-> NoAgent, state |-> "new"]]
    /\ users \in SUBSET User       \* the operator may name any account as admin
    /\ superusers = {}
    /\ sessions = [t \in Token |-> "new"]
    /\ lock = NoProc
    /\ conn = [p \in Proc |-> "idle"]
    /\ view = [p \in Proc |-> NoView]
    /\ serving = {}
    /\ call = [p \in Proc |-> Idle]
    /\ barred = {}
    /\ repeated = {}

AgentStep(p) ==
    \/ \E a \in Agent : DeletesAgent(p, a) \/ \E on \in BOOLEAN : ChecksName(p, a, on)
    \/ InsertsAgent(p) \/ AgentIsGone(p)
    \/ \E k \in Key : IssuesKey(p, k)

KeyStep(p) ==
    \/ \E a \in Agent, k \in Key, step \in {"rotating", "revoking"} :
          RequiresOwnedKey(p, step, a, k)
    \/ Revokes(p)
    \/ \E k \in Key : Rotates(p, k) \/ ReadsKey(p, k)
    \/ NotesUse(p) \/ Returns(p)

AccountStep(p) ==
    \/ StartsWeb(p) \/ UpsertsAdmin(p) \/ SignUpClash(p) \/ Browses(p)
    \/ \E u \in User : SignsUp(p, u) \/ LogsIn(p, u)
    \/ \E t \in Token : CreatesSession(p, t) \/ LogsOut(p, t) \/ Visits(p, t)

AcctNext ==
    \/ \E p \in Proc : AgentStep(p) \/ KeyStep(p) \/ AccountStep(p) \/ Refused(p) \/ Die(p)
    \/ \E t \in Token : Expires(t)

AcctSpec == AcctInit /\ [][AcctNext]_acctVars

-----------------------------------------------------------------------------
(***************************************************************************)
(* Properties.                                                             *)
(***************************************************************************)

\* Rows, connections and calls have their types; an issued key has had an agent,
\* a live one has it still; a dashboard runs only where the admin is a superuser,
\* whoever signed up under that address before or while it started.
AcctTypeOK ==
    /\ agents \subseteq drawn /\ drawn \subseteq Agent
    /\ keys \in [Key -> KeyRow]
    /\ superusers \subseteq users /\ users \subseteq User
    /\ sessions \in [Token -> Session]
    /\ lock \in Proc \cup {NoProc}
    /\ conn \in [Proc -> {"idle", "open", "pinned", "stale"}]
    /\ view \in [Proc -> Credentials]
    /\ serving \subseteq Proc
    /\ call \in [Proc -> Call]
    /\ barred \subseteq Agent /\ repeated \subseteq Agent
    /\ \A k \in Key : keys[k].state \in {"live", "revoked"} => keys[k].agent \in agents
    /\ serving # {} => Admin \in superusers

\* What had ended before a request began opens nothing: a key never, since resolve
\* must write before it answers; a session only on a connection that is stale.
EndedIsRefused ==
    \A p \in Proc :
        /\ At(p, "served") => ~call[p].over
        /\ At(p, "page") /\ call[p].over => conn[p] = "stale"

LiveKeys(a) == {k \in Key : keys[k].state = "live" /\ keys[k].agent = a}

\* An agent that has ever been given a key, none of which was revoked by hand, has
\* a live one: no overlap of rotations, no refusal and no crash locks it out.
RotationKeepsAccess ==
    \A a \in agents \ barred :
        (\E k \in Key : keys[k].agent = a /\ keys[k].state # "gone") => LiveKeys(a) # {}

\* Rotation replaces: an agent has one live key at most, as long as no rotation was
\* asked for a key that was revoked already (a retry, or two at the same time).
OneLiveKey ==
    \A a \in agents \ repeated : \A j, k \in LiveKeys(a) : j = k
=============================================================================
