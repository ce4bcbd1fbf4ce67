# Skill Vault in TLA+

Models, model checks and proofs of Skill Vault (`skill_vault/`), a registry of
agent skills: agents publish versioned skills, search them by meaning, and fetch
them with an integrity check and a trust tier.

## 1. Inventory

| part | source | state it keeps | operations that change it |
|---|---|---|---|
| Skill registry | `service.py`, `tools.py`, `models.py` | `skills`, `skill_versions`, `skill_version_files` | publish, update, delete, delete_agent, add/delete file, admin_publish_seed |
| Trust and integrity | `trust.py` | `trust` rows, `content_hash` | record, re-sign; verify and resolve_tier only read |
| Vector index, search | `search.py` | the store (sqlite-vec tables, pgvector or Qdrant) | upsert, delete, reindex_all; search reads |
| Connections | `db.py`, `bootstrap.py` | one SQLite connection per thread, the store's own connection, `db_lock`, open transactions | every statement, commit |
| Agents, keys, accounts | `auth.py` | `agents`, `api_keys`, `users`, `sessions`, the limiter's windows | onboard, issue, rotate, revoke, resolve, create_user, upsert_superuser, sessions |
| Dashboard | `web/*.py` | session cookie | calls of the registry and of `auth.py`; pages of results |
| Seeding | `seed.py` | none of its own | seed_skills, recheck_signatures |
| Command line | `cli.py` | files, for backup and restore | init, migrate, reindex, seed, curator, agents, backup, restore, serve, web |
| Migrations | `db.py`, `migrations/*.sql` | `schema_migrations` and the tables | run_migrations |
| MCP server, configuration, errors | `server.py`, `config.py`, `errors.py` | none | wiring |

How they interact. A tool of the MCP server or a handler of the dashboard takes
`db_lock`, resolves the caller (which commits `last_used_at`), and runs one
method of `RegistryService` on the connection of its thread. The method writes
rows, has `TrustService.record` write the trust row and *commit*, and then has
`SearchService` embed the version and write it to the vector store over a
connection of the store's own. `db_lock` is a lock of the process: the MCP
server, the dashboard and a command line are three processes on one database
file (`docker-compose.yml`), and only SQLite's write lock and `busy_timeout` are
between them. Each of the three runs the migrations when it starts.

What is hard here:

- nobody rolls back: an exception leaves what was written in the open transaction
  of the thread, and its next commit, of an unrelated call, saves it;
- two stores are written by one call, one commit apart, and each may fail;
- two connections of one call compete for one write lock;
- calls of several processes interleave between statements, with values read
  before the transaction begins;
- the process may die between any two statements, of a migration script too;
- hash, signature, tier and files of a version must move together through
  publish, update, uploads, deletions and re-signing;
- search and get decide by two different pieces of code who may see a skill;
- a search cuts before it filters, three times over, while others write.

What makes each part correct:

- *registry*: version numbers have no gap, the released version is the newest
  one and never steps back, a private skill has a living owner, an "ok" is kept;
- *trust*: a hash fits the files, "verified" has a signature of the stored
  payload and is never lost or gained on the way;
- *index*: it holds the released versions and no others, and nothing the
  registry has lost; what search shows, get admits, and conversely; nothing
  better than the answer is missed;
- *connections*: a crash or an exception tears no call apart in what is committed;
  a restart finds sound tables; no call waits for itself;
- *limiter*: bursts around window edges stay within twice the limit, and nobody
  is refused who has not used the limit up;
- *keys*: what was revoked or has ended opens nothing, a rotation never locks an
  agent out and leaves one live key;
- *migrations, commands*: the ledger never claims what the schema lacks, services
  that start together come up, a seed that is published is found.

## 2. Modules

| module | models | state, and what it is in the code |
|---|---|---|
| `Vault` | what the registry promises, abstractly | `skill`: which skills are offered, to whom, by whom, under which name and version |
| `Registry` | `service.py`, `trust.py`, the index and the agents, one action per call; implements `Vault` | `agents`, `supers`, `skill`, `versions`, `files`, `hash`, `trust`: the tables, as the calling connection sees them; `index`: the version ids in the vector store |
| `Connections` | the same calls run by threads of one process over SQLite; composes `Registry` twice | `saved`: the committed rows (an instance of `Registry` reads them); `holder`: the thread whose transaction has the write lock; `conn`: the transaction state of every other connection, the store's included; `promised`: a history of acknowledged versions |
| `Processes` | one skill, several processes, statement by statement | the rows of the skill, `index`, `lock` (SQLite's write lock), `call[p]` (the statement process p is at, with what it has read), `dropped`, `late`: histories of what deletes took out of the store, and of what got in when no delete could take it out any more |
| `Accounts` | `auth.py`: agents, keys, users and sessions, several processes, statement by statement | the tables of the same names; `lock`, `conn`, `view`: the connections as in `Connections`, and what a pinned one still reads; `serving`: where the dashboard runs; `call[p]`; `barred`, `repeated`: histories |
| `Migrations` | `run_migrations` | `done`: the statements whose effect is in the schema; `ledger`: `schema_migrations`; `job[p]`: what a process is at |
| `Operations` | the commands of `cli.py`; extends `Migrations` | the seeded `rows`, their `index`, the `snapshot` directory; `broken`, `lost`: histories of what a crash, a snapshot or a raise left |
| `Ranking` | one search: stores, scope filter, `min_trust`, pages | `near` (the scores), `catalog`, `trusted`, `index`; `ask`: the question and where its handler is; `last`: the page read before; `met`, `seen`, `steady`, `quiet`: histories of the search |
| `RateLimiter` | `FixedWindowLimiter` for one key | `now`: the clock; `windowStart`, `count`: the pair in `_windows`; `verdict`: the last answer; `admitted`: a history of the admitted calls |
| `*Proofs` | theorems on the module of that name; `RegistryContentProofs` on `Registry` too | |
| `MC*` | definitions for TLC: who belongs to whom, scripts, scores, symmetry | |

The views divide the work. `Registry` has the whole logic of a call and
every way a call can raise half way, with atomic calls. `Connections` takes
these calls unchanged and adds what the connection makes of them: commit or leave
open, wait for the lock, be refused by the store, die. `Processes`, `Accounts`,
`Operations` and `Ranking` give up atomicity: each action is one SELECT, one
transaction's commit or one write of the store, for one skill, for credentials,
for the operator's commands and for one search.

Abstractions, in all modules:

- A payload is the *set of attached files* of a version (name, body, tags of a
  version never change). The hash is the payload it was computed from, a
  signature the payload it verifies. A hash collision is out of scope.
- An uploaded file name may carry blanks. `_build_payload` hashes the raw names
  and `_insert_version` stores the stripped ones, so a payload has a flag
  `exact`: was it serialised under the stored names?
- A version id is `<<skill, number>>`. Deleted skill ids are reused by later
  publishes, which only makes more behaviours.
- Skills, names, files, agents, keys, tokens and threads are model values. A key
  or a password is its id: hashing is taken to be free of collisions.
- The calls' checks of form (sizes, empty names, frontmatter) only reject before
  any write and are left out, as are listings, which only read.

An operator under the comment "Mutant" is not part of a model. It is a wrong form
of the definition that follows, used to see that a property notices the mistake.

### Registry, action by action, and Vault

`Publish`, `PublishSeed`, `Update`, `Delete`, `DeleteAgent`, `AddSkillFile`,
`DeleteSkillFile`, `ReSign`, `Reindex`, `CreateAgent`, `SetSuperAgent` are the calls
that return; each includes the hashing, trust row and index writes the code makes.
Calls that raise with rows written have actions of their own:
`PublishFileClash` and `UpdateFileClash` (two files of one stored name, UNIQUE
raises in `_insert_version`), `UpdateNameClash` (UNIQUE(name, owner) raises at the
UPDATE of `skills`, after the version was inserted), `DeleteFails` and
`DeleteAgentFails` (the store raises at some version: the trust rows and entries
of the earlier ones are gone). With `StoreMayFail`, `IndexVersion` and
`ReplaceInIndex` may do a part of their work only.

`Vault` has three actions: a skill is offered, revised under a version that is
higher, or withdrawn with others of its owner. Whom it is for and whose it is
never change, an owner has no two skills of one name, and what nobody owns (the
seeds) is never withdrawn. Under the mapping `Audience <- Visibility`,
`NoOwner <- NoAgent`, `skill <- skill`, each call of `Registry` is one of the three
or a stutter: uploads, re-signing, and every call that raises, except that a
publish that raises over its files is an offer whose version is still 0.

### Connections

`MayWrite` is SQLite's lock, and its demand that the snapshot of a writer be the
newest. Every connection is "idle", or it is the holder's, or a write of it was
refused, and that leaves a mark, since Python's `sqlite3` sends BEGIN before the
statement that fails and nobody rolls back: the connection is "open", a later
read pins its snapshot ("pinned"), and once another connection commits it is
"stale": it reads old rows and every write of it fails. Only a commit of its own
ends this, and a stale connection has none left, so the thread stays this way
until the process restarts. This was established by running the statements on
several connections to a WAL database. `AfterRefusal`, `AfterRead` and
`AfterCommit` are these rules; each action applies them to the connections it
uses: `LockedOut` (the first write of a call is refused), `ReadCall`, `Search`
(which reads over the store's connection too), `WriteCallUnindexed` (the rows
commit, the store refuses), `RemovingCallRefused` (the store refuses in the middle
of a removal), `RemovingCallLockedOut` (the first DELETE of a trust row is
refused, possibly because the store's own commit has overtaken the snapshot).
`Resolve` stands for every call that only commits. `CrashInWrite` and
`CrashInRemoval` are deaths inside a call; a death elsewhere is `Crash`.

### Processes

A call of process p is a record `call[p]` with the statement it is at and the
values it has read: `UpdateReadsSkill` (the old `current_version_id`),
`UpdateReadsMax`, `UpdateCommits` or `UpdateRaises`, `LoadForIndex`, `Upsert`,
`RetireOld`; `DeleteReads`, `RemoveNext` per version, `DeleteCommits`;
`GetReadsSkill`, `GetReadsVersion`, `GetReadsFiles`, `GetChecks`. `ChangeFiles` is
one transaction. The store has a database of its own here and does not fail. A
write that raises on UNIQUE or a foreign key keeps the lock until another call of
the process commits (`CommitElsewhere`).

### Accounts

Onboarding is `ChecksName` (the SELECT of `create_agent`), `InsertsAgent` and
`IssuesKey`, each a statement with its commit; `AgentIsGone` is the foreign key
that raises when the agent was deleted in between. `RequiresOwnedKey` is the check
of `rotate_key` and `revoke_key`, which a revoked key passes; `Rotates` and
`Revokes` are their transactions. `ReadsKey` and `NotesUse` are `resolve`: it reads
the key's row, and must then write `last_used_at` before it answers.
`StartsWeb` and `UpsertsAdmin` are `upsert_superuser` in `create_app`; `SignsUp`,
`SignUpClash` (the INSERT raises on a known address, and the handler answers
politely with the transaction open), `LogsIn`, `CreatesSession`, `LogsOut`,
`Expires` and `Visits` are the dashboard's accounts. `Refused` is a first write on a
connection that may not write, `LeaveOpen` an exception after BEGIN, `Die` a death
anywhere, with the rules for connections that `Connections` has.

### Migrations and Operations

A script is a list of statements that can be repeated ("again": `IF NOT EXISTS`, a
table rebuilt in a transaction), that cannot ("once": `ADD COLUMN`), or that
insert the row of the ledger ("mark"). `executescript` commits each statement;
`ReadsLedger`, `Executes`, `Marks` are the runner's steps, `ColumnExists` the
statement that raises the second time. A command is `Begins`, then its
migrations, then its own loop: `LooksUp`, `Publishes`, `Indexes` for each seed;
`BeginsReindex`, `Reindexes`; `CopiesOut`, `WritesManifest` for
`backup`; `CopiesIn`, then migrations, for `restore`. `serve` and `web` run the
migrations twice, in `_apply_migrations` and in `build_services`. `CopiesIn` waits
until no other process runs, as docs/DEPLOYMENT.md:203 tells the operator to see to.
What raises ends the command: `PublishRaises` before a seed's commit (two files of one
name, or "database is locked"), `IndexRaises` after it, when the model cannot be
loaded or the store is refused, and in the middle of a reindex as well. A migration
that waits for the write lock in vain has no action of its own: it ends the process as
`Dies` does, and no process of the model holds the lock between two statements.

### Ranking

`Asks` fixes a question, of a tool or of a page of `/browse`. `QueriesMeta` and
`QueriesBody` are the two channels of sqlite-vec and Qdrant, `QueriesBoth` the one
statement of pgvector; `Nearest` is any nearest set of the pool's size, `Ranks`
combines the channels, sorts and cuts to `TopK`. `GoodEnough`, the threshold of a page
of `/browse`, is a prefix, for cards come best first; the list without a question is in
the order of the names (`PlaceOf`), with ties in any order. `Checks` takes one candidate after
the other through `_scope_predicate` until the limit is reached; `MakesCard` reads the
row and the tier of one match, and applies `min_trust`. `ShowsPage` and `ListsPage`
slice a page and decide on the link to the next. In between, other processes
publish, update, delete, sign, or take an entry out of the store. Each channel's
query is one step, its rowid lookups included.

### RateLimiter

`Admit` and `Refuse` are the two results of `allow`, `Tick` is the passing of time.
The dictionary's default `(0, 0)` is `LimiterInit`, and the clock starts anywhere,
for `time.monotonic` has no defined zero. A dictionary is of one process: with
the MCP server and other processes running, a key has as many limiters.

## 3. Runs

| run | question | instance |
|---|---|---|
| `lifecycle` | do the tables and the store fit together, whatever raises half way? does the registry implement `Vault`? | 1 agent, 2 skills, 2 names, 3 versions, failing store, reindex |
| `sharing` | do search, get and ownership agree while agents come and go? | 4 agents (2 of one user, 1 of another, 1 of nobody), 2 skills, 2 versions |
| `content` | do files, hash, signature, tier and index stay consistent? | 1 agent, 1 skill, 2 files, 3 versions, reliable store |
| `shared_file` | the same process over one SQLite file: open transactions, locks, crashes | 2 threads, 2 skills, 2 names, 2 versions, no files |
| `own_store` | what a crash between a separate store and the rows leaves, with files | 2 threads, 1 skill, 1 file, 2 versions |
| `processes` | do overlapping calls of processes lose or hide a version, leave an orphan, or report tampering where there is none? | 2 processes, 1 file, 4 versions |
| `keys` | what opens with a credential that has ended? whom does a rotation lock out? | 2 processes, 2 agents of one name and user, 3 keys, 1 token, 2 accounts |
| `operations` | do starts, seeds, backups and restores survive each other and a crash? | 2 services, 1 command line, 3 scripts, 4 seeds (the third clashes), 1 crash |
| `ranking` | what does an answer list, and what may it lack? do pages fit together? | 3 skills, 4 versions, 3 stores, every order of scores, 1 write of others per behaviour |
| `limiter` | how many calls pass, and whom does it refuse? | 2 calls per window of 3 ticks, 9 ticks |
| `blank_names`, `delete_refused` | findings, section 6 | the smallest instance that shows each |

What they show. `lifecycle`: the released version is always a row, numbers have
no gap, the store has no entry without a row, and each call, failed ones
included, is a step of `Vault`. `sharing`: what search returns get admits, scope
"all" misses nothing readable, no private skill is orphaned by any order of agent
deletions, and a user never loses the last agent to non-superusers. `content`:
no order of publishes, updates, uploads, deletions and re-signs separates a hash
from its files or a "verified" tier from a signature of the stored payload; the
index holds exactly the released versions if the store does not fail and nobody
reindexes. `shared_file`: whatever raised or died, a restart finds
sound tables, and an acknowledged version survives. `own_store`: the store never runs
ahead of the committed rows (in one file neither, by the theorem). `processes`: UNIQUE(skill_id, version) suffices for
updates to be ordered, the released version never leaves the store by an update
that overlaps another, and each release reaches the store, is replaced, or has a
delete take it out (which may then be refused); a delete leaves in the store only what
was written after it had read the versions, and get cries "tamper" only over a race. `keys`: a key that ended before a
request began never answers it, because `resolve` must write on the newest
snapshot; a session that ended opens pages only over a stale connection, which
only reads; no overlap, refusal or death of rotations leaves an agent without a live key
or, unless a revoked key was rotated, with two. `operations`: the
ledger is never ahead of the schema; a half-applied migration that blocks every
start comes from a crash or a snapshot between a script and its row, and from
nothing else; a seed is unindexed only after a raise, a crash or a snapshot between its
commit and its upsert; no seed is there without those before it, or behind the bad
one; services that start together do come up. `ranking`:
whatever others write meanwhile, an answer lists different versions, best first,
each stored, indexed and in scope; when the store's entries fit in the candidate
pool, no version that was findable throughout is missed for a worse one; pages
neither repeat a skill nor link to nothing. `limiter`: no window's length of
time admits more than twice the limit, and refused calls do not prolong the
refusal.

Bounds. Two skills are needed for name clashes, for a cascade that stops between
skills and for search to tell skills apart; a third would only repeat the second.
Three versions are what a version that is neither the first nor the released one
needs; `processes` has four so that each process can have an update under way
with a finished one between them. Two files allow clashes and partial
sets. Two agents of one user, one of another and one of nobody cover the four
relations between a caller and an owner. Two threads or processes suffice for one to hold
what the other waits for. In `keys`, three keys let two rotations of one key
overlap, and the agents have one name and owner so that creating them clashes;
one token suffices, as sessions do not interact. In `operations`, the scripts are
001, 002 and 004: one that marks itself, one with a single-shot statement in the
middle, one that is nothing else; 003 and 005 can be repeated throughout. Of the
seeds, two can be published before the bad one and one could after it; with one command
line, seed runs follow each other, and that they may overlap is left to the theorems. One crash
(`MaxCrashes`) is what breaks, and a second would break the same things; the
command line begins anew as often as it likes. In `ranking` the constants of the code are
scaled down in their order: weights 3 and 2, `MinScore` 2, a candidate list of
max(2 * limit, 3), a pool of max(candidates, 2), pages of one card, limits up to
2, two pages (`MaxLimit`, `MaxPage`), so that three entries can outgrow the candidates; scores
are in every order, ties included; one write of another process (`MaxChanges`)
falls into any gap. Nine ticks are three windows, which a burst over two
edges needs. `MaxTime` bounds the clock; `MaxVersion` is a guard on the model's update,
no limit of the code. No bound but these constants' values limits the theorems,
which hold for all of them.

Fairness. `Processes` has weak fairness of each process's next
statement. A process runs on once it has begun a call, since operating systems
schedule threads, and every statement that waits for the write lock ends, with the
lock or with "database is locked", when `busy_timeout` (`db.py`) is over; the
model has both outcomes (`UpdateCommits` and `UpdateRaises`, the two of
`RemoveNext`). That a call begins is
not assumed. `Processes` has no crash; a crash after the commit and before the
upsert really leaves a release unindexed until `reindex`, and `Connections` has
that outcome (`CrashInWrite`), so `ReleaseBecomesFindable` is a statement about
processes that do not die. `Operations` has weak fairness of `Begins` for the
services, since `deploy/skillvault-*.service` say `Restart=on-failure` and
`RestartSec=5`, and of `Migrates` for every process, which goes on once started. The
operator's commands need not begin or end. `StartsSucceed` is under these: a
service that raises "duplicate column name" because another is ahead is started
again, and finds one more migration in the ledger.

Deadlock is checked in every run.

## 4. Theorems

Each holds for every value of the constants that satisfies the module's
assumptions.

| theorem | property | rests on |
|---|---|---|
| `RegistryProofs!TypeCorrect` | `TypeOK` | each action keeps the row types |
| `RegistryProofs!CurrentStaysAVersion`, `NumbersHaveNoGap`, `IndexStaysWithinVersions` | `CurrentIsAVersion`, `VersionsHaveNoGap`, `IndexWithinVersions` | `Structure` |
| `RegistryProofs!RegistryImplementsVault` | `ImplementsVault` | `Structure`, and that names differ |
| `RegistryProofs!NamesStayDifferent` | `NamesDiffer` of `Vault` | the same |
| `RegistryProofs!OwnersStayAlive` | `OwnersLive` | inductive with types |
| `RegistryProofs!SearchStaysReadable` | `SearchAgreesWithGet` | `Structure`, a case split on scope and visibility |
| `RegistryProofs!LastAgentCannotGo` | `LastAgentStays` | the guard of `delete_agent` |
| `RegistryContentProofs!HashesFollow`, `OnlyGlobalIsVerified`, `VerifiedStaysSigned` (with a curator key) | `HashFollowsFiles`, `VerifiedIsGlobal`, `VerifiedIsSigned` | `Content` |
| `RegistryContentProofs!IndexStaysCurrent` (store does not fail, no reindex) | `IndexIsCurrent` | `Structure`, `ReliableSteps` |
| `RegistryContentProofs!ReleasedHaveTiers`, `VerifiedIsKept` (store does not fail) | `CurrentHasTier`, `VerifiedStays` | the same |
| `ConnectionsProofs!ConnTypesHold`, `StoreStaysBehind`, `PromisesAreKept`, `RestartsAreSound` | `ConnTypeOK`, `IndexWithinSaved`, `PromisesKept`, `RestartIsSound` | `ConnInv` |
| `ProcessesProofs!ProcTypeCorrect` | `ProcTypeOK` | one lemma on what a step leaves of the calls' types and the lock |
| `ProcessesProofs!NewestCorrect`, `FindableCorrect`, `OrphansAreLate` | `NewestIsReleased`, `ReleasedStaysFindable`, `RowlessIsLate` | `Inv` |
| `ProcessesProofs!NoFalseAlarm` | `AlarmsAreRaced` | `HashIsOfFiles`: a hash and its files change in one step |
| `AccountsProofs!TypesHold` | `AcctTypeOK` | the types, and that an onboarding's agent id is drawn |
| `AccountsProofs!EndedStaysOut` | `EndedIsRefused` | `ViewInv` |
| `AccountsProofs!RotationLocksNobodyOut`, `RotationReplaces` | `RotationKeepsAccess`, `OneLiveKey` | `AccessInv` |
| `OperationsProofs!TypesHold` | `OpsTypeOK` | `TypeInv` |
| `OperationsProofs!LedgerIsAlwaysTrue` | `LedgerIsTrue` | `LedgerInv` |
| `OperationsProofs!HalfAppliedHolds` | `HalfAppliedIsExplained` | `WindowInv` |
| `OperationsProofs!SeedsStayFindable` | `SeedsAreFindable` | `TypeInv` |
| `OperationsProofs!SeedsStayInOrder` | `SeedsComeInOrder` | `OrderInv` |
| `RateLimiterProofs!LimiterTypes`, `TwiceTheLimit`, `NoEarlyRefusal` | `LimiterTypeOK` (in no run), `AtMostTwiceTheLimit`, `RefusedOnlyWhenUsedUp` | `LimiterInv` |
| `RankingProofs!RankTypesHold`, `AnswersAreReadable`, `NothingBetterMissed`, `PagesFit` | `RankTypeOK`, `AnswerIsReadable`, `NothingBetterIsMissed`, `PagesAgree` | `RankInv` |

The invariants, and why the properties need them.

- *`Structure`*: `CurrentIsAVersion`, `VersionsHaveNoGap` and `IndexWithinVersions`
  together with `AbsentIsNoSkill`. Without it a publish could take an id whose
  old versions are still there. That an update advances (`Vault`'s `n > current`)
  follows because MAX + 1 exceeds the released version only if that version is a
  row. For the refinement the proof sorts the steps by what they do to `skill`
  (`RowOffered`, `RowRevised`, `RowsWithdrawn`, nothing: lemma `RowSteps`), and shows once
  for each that names stay different and that it is a step of `Vault`.
- *`Content`*: the three properties of hash and tier together. `VerifiedIsSigned`
  needs `HashFollowsFiles`, since it speaks of intact versions only: a hash of
  other than the stored names fits no stored payload. The theorems for a store that does
  not fail rest on `ReliableSteps`, which sorts all actions into a release, one
  that releases nothing, a signature, and a removal.
- *`ConnInv`*: the rows that a connection sees satisfy `Structure` and `OwnersLive`,
  the committed ones do as well (through the second instance of `Registry`), and the
  former are a later state of the latter, in this sense: both have the promised
  versions, and the store is within both. `LocksOK` ties the lock to the states of
  the connections: the two are equal while nobody holds the lock, and the
  holder's own connection is idle. A call that takes the lock thus starts from
  the committed rows, which is what a crash returns to.
- *`Inv` of `ProcessesProofs`*. Neither property is inductive: an update
  that holds an arbitrary number could leave a gap, one that holds an arbitrary old
  version could retire the released one. `ReadsAreOld` says what stale reads can be:
  an old version is at most the released one, a number at most one past it, and
  once a call has committed, its old version is strictly older. Then UNIQUE leaves
  `current + 1` as the only number that can be inserted, and `RetireOld` removes only
  older versions. `NothingBefore` (no call runs before the skill is published) makes
  `ReadsAreOld` hold when the skill appears. For `ReleasedStaysFindable`,
  only `RetireOld` and `RemoveNext` take from the index: the first takes a version
  that is older than the released one, the second notes it in `dropped`.
  For `RowlessIsLate`, `DeletesKnow` says what each delete under way has still to do:
  whatever is in the store and not late is in its list. An `Upsert` keeps this because a
  version that does not escape is in every such list; a delete that commits has an empty one.
- *`ViewInv`*: a pinned connection reads the newest rows (`PinnedIsNewest`; it is stale
  when it does not), and a request whose credential has ended meanwhile sits on a stale one
  (`OverIsStale`). `resolve` has to write, so such a request of a key does not open.
- *`AccessInv`*: an onboarding has an agent that nothing else knows
  (`OnboardingIsFresh`), a rotation under way has a key of the agent it names (`HoldsKey`),
  and only drawn agents have keys. A rotation revokes and issues in one
  transaction, so each moves the one live key.
- *`LedgerInv`*: the ledger, the snapshot's included, lists only scripts whose
  statements are all in the schema, and every runner has executed what lies behind its
  position. *`WindowInv`*: once the first statement of a script that cannot be repeated is in,
  at most one process is between it and the row (`OneWindow`), because a
  second runner raises at that statement; so a half-applied script without such a process was
  left by a crash or copied by a backup. *`OrderInv`*: a seed run that looks at a file has all
  files before it in the registry, whoever put them there, and so has each snapshot.
- *`LimiterInv`*. The two bounds speak of positions in the
  history, the code only has a window and a count. `Windows` connects them: the
  last `count` calls are those of the present window, all others came before it
  began, and whichever has a full window's calls between itself and the present
  window came more than a window before it. A call that is admitted into the
  present window with 2 * Limit others behind it therefore has the first of them
  more than a window away.
- *`RankInv`*. It says of every statement of a search what is not lost by then.
  `Sure` are the versions that were in the store, readable and trusted enough all the time;
  each is still a candidate, a match or a card, or gave way to a full number of matches that
  are no worse (`Kept`, `MatchesOK`). `Drawn` and `Matched` say where candidates and
  matches come from: each was in the store, and readable when it was checked. The matches lead
  the queue in order (`QueueOK`), and the cards are of the first matches that still have a
  row (`CardsOK`). Writes of other processes only take from what is sure (`Moved`).
  `NothingBetterIsMissed` follows for the finished answer. `PagesAgree` compares with the
  page read before, so the invariant remembers of it that it is of an undisturbed answer
  (`Best`) or of the list (`PageOK`). The proof is then that the larger question of a
  later page adds its cards behind those of the smaller one (`MoreOfTheSame`), since
  the first of any order of a set are the first of it in any number (`FirstOnes`).
  Counting along a sequence needs an induction; since the library's induction theorems
  take an operator, `LeastOf` gives it as the least-number principle, from
  WellFoundedInduction, for a set.

Assumptions. The proofs use `ConstantsAssumption`, `ConnectionsAssumption`,
`ProcessesAssumption`, `AccountsAssumption`, `MigrationsAssumption`, `OperationsAssumption`,
`RankingAssumption` and `LimiterAssumption`, which the runs evaluate, and what the table has in
brackets. The theorems of `ConnectionsProofs` are about a store that may raise
(`StoreMayFail`), in the same file or not. The invariants were first
checked with TLC on the instances of the runs.

Only model-checked: the two liveness properties `ReleaseBecomesFindable` and
`StartsSucceed`, for the prover has no rules for fairness.

## 5. Hazards

`PROJECT.json` lists each hazard at its line with the properties that guard it.
Four have none. Three of them go wrong in the code as it is (section 6), and in
`Accounts`: two agents of one name (`auth.py:190`), an agent without a key
(`auth.py:172`), a sign-up that keeps the write lock (`auth.py:320`). `db.py:55` is
about threads that end, and those of `Connections` do not. Where the code is known to go wrong in two more places, the
properties bound the damage: `RowlessIsLate` says which entries a delete can leave
behind, and `AlarmsAreRaced` when a get can report tampering.

## 6. Where the code and its documents disagree

Shown by a run:

- `blank_names`: an attached file whose name has surrounding blanks is hashed under
  the raw name (`service.py:763`) and stored under the stripped one
  (`service.py:695`). `get` then raises SV_INTEGRITY for an untouched skill.
- `delete_refused`: in the default configuration a skill that was updated, even once,
  cannot be deleted. For its retired first version the store has nothing to do
  (`search.py:240`), but the DELETE of that version's trust row takes the write lock, and
  for the second version, which is indexed, the store waits in vain for that lock.

Read off the code, without a run; the models have the behaviour:

- An update whose new name is taken raises after the version was inserted
  (`service.py:294`); nobody rolls back, and the thread's next commit saves a
  version that was never released (`UpdateNameClash`).
- A thread whose write was refused once, and that has read since, serves
  guests the rows of that moment, deleted skills included, and refuses every
  call with a key (`auth.py:296`), although nobody holds the lock any more.
- The store's connection goes stale in the same way: after a refused delete and a
  search, publishes succeed and are not indexed until a restart (`WriteCallUnindexed`).
- A get that overlaps an upload of another process (`service.py:146`) compares files
  from before with a hash from after, and reports what README.md:277 calls "tamper"; so does
  one that overlaps a delete (`trust.py:257`).
- A delete in one process while another embeds a version of the skill
  (`search.py:567`) leaves an entry without a row, which nothing clears, while a
  skill's "search index entries are removed together with the skill"
  (`service.py:347`). In `Processes`: `Upsert` after `DeleteCommits`.
- The name of an agent is looked up before it is inserted (`auth.py:187`), and for an
  agent of nobody no UNIQUE stands behind the look-up: two processes create two
  agents of one name.
- A death between the two commits of `onboard` (`auth.py:172`) leaves an agent
  without a key, and no command issues one.
- A sign-up under a known address is answered politely, and leaves its
  transaction open with the write lock (`auth.py:320`).
- A crash between a migration script and its ledger row (`db.py:140`) blocks every
  later start if the script adds a column.
- `min_trust` drops matches after the limit has cut them (`service.py:121`), so a page
  may show fewer cards than there are and no next link (`dashboard.py:668`).
- `SKILL_VAULT_TRUST_ALLOW` is said to control what a host serves (README.md:255);
  `policy_allows` (`trust.py:238`) is not called on the read paths.
- Earlier versions are said to be hash-pinned (README.md:90, 291), but `upload_skill_file`
  rewrites the hash of any version (`service.py:573`).
- `delete_skill` "keeps version history for audit" (README.md:294); the rows go by
  cascade (`service.py:410`).
- `SV_CONFLICT` (README.md:279) is never raised: a name clash is a bare
  IntegrityError, with the transaction left open.
- Without a curator key an upload to a verified skill keeps the tier and the old
  signature (`service.py:583`).
- `seed` commits a skill before the model that indexes it is loaded (`search.py:51`). If
  that raises, the skill stays out of search: a later `seed` skips its name
  (`seed.py:89`), and only `reindex` finds it (`IndexRaises`).
- `reindex` upserts superseded versions too (`search.py:576`); only `update` retires
  them (tests/test_service.py:296).
- Each process has a limiter of its own, so a key has as many limits as there
  are processes.

## 7. What is left

Worth adding: `CanonicalPayload`, what the serialisation in `trust.py` tells apart
(`exact` of `Registry` is the one case in which it matters today); a `Connections`
whose threads end and are replaced (`db.py:55`).

Not modelled, and why: configuration is read once at start, and what matters of it
is a constant; the MCP server and the errors are wiring without state; bundled
skills, templates and pages are content; Markdown and frontmatter parsing only
rejects before anything is written; the Basic authentication of `web/admin.py`
compares a header with the configuration and keeps no state; embeddings are an arbitrary order of
scores, and the protocols of pgvector and Qdrant are what `search.py` asks of
them.
