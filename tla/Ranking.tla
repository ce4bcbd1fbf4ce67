------------------------------ MODULE Ranking -------------------------------
(***************************************************************************)
(* One search, from the caller's question to the cards of the answer:      *)
(* the vector stores and SearchService.search (skill_vault/search.py),     *)
(* RegistryService.search and list_global (service.py) and the pages of    *)
(* the dashboard (web/dashboard.py).                                       *)
(*                                                                         *)
(* A search is many statements, and the other processes write between any  *)
(* two of them.  The caller is one agent of some user, or a guest, who     *)
(* asks for scope "global" only (_require_auth); for the caller a skill is *)
(*    "global"   public                                                    *)
(*    "own"      of the caller's private vault                             *)
(*    "mates"    a team skill of the caller's user                         *)
(*    "foreign"  none of these                                             *)
(* A version is <<skill, number>>; an update makes a new one.  Distances   *)
(* are what the embedder makes of the query, so they are arbitrary, and    *)
(* fixed for the query of a behaviour.                                     *)
(***************************************************************************)
EXTENDS Naturals, SequencesExt

CONSTANTS
    Version,                   \* the versions there may be, <<skill, number>>
    Published, Verified,       \* those there are at first, and the trusted ones of them
    StandingOf,                \* of the skills, for the caller
    PlaceOf,                   \* of the skills, in the order of their names
    Backend,                   \* a subset of {"sqlite_vec", "pgvector", "qdrant"}
    Near,                      \* what 1 - distance may be, by channel and version
    MetaWeight, BodyWeight,    \* META_WEIGHT and BODY_WEIGHT
    MinScore,                  \* _SEARCH_MIN_SCORE
    StoreFactor, StoreMin,     \* top_k of the store: max(4 * limit, 40)
    PoolFactor, PoolMin,       \* rows read per channel: max(4 * top_k, 10)
    PageSize,                  \* _PAGE_SIZE
    MaxLimit, MaxPage,         \* bound the questions
    MaxChanges                 \* bounds the writes of other processes

ASSUME RankingAssumption ==
    /\ Version \subseteq (DOMAIN StandingOf) \X (Nat \ {0})
    /\ \A s \in DOMAIN StandingOf : StandingOf[s] \in {"global", "own", "mates", "foreign"}
    /\ PlaceOf \in [DOMAIN StandingOf -> Nat]
    /\ Published \subseteq Version /\ IsFiniteSet(Published)
    /\ Verified \subseteq {v \in Published : StandingOf[v[1]] = "global"}
    /\ \A n \in Near : n \in [meta : [Version -> Nat], body : [Version -> Nat]]
    /\ {MetaWeight, BodyWeight, MinScore, MaxLimit, MaxPage, MaxChanges} \subseteq Nat
    /\ {StoreFactor, StoreMin, PoolFactor, PoolMin, PageSize} \subseteq Nat \ {0}

VARIABLES
    near, backend,    \* the query's similarities, and the store of this installation
    catalog,          \* rows of skill_versions
    trusted,          \* versions whose tier satisfies a min_trust
    index,            \* entries of the vector store
    ask,              \* the question that is answered, and where its handler is
    last,             \* the page read before, unless something has changed since it was asked
    changes,          \* writes of the other processes so far
    met, seen,        \* what was in the index, what was in the catalog at any moment of
    steady, quiet     \* this search; what could be found throughout; whether nothing has
                      \* changed since it was asked (no state of the code)

ghosts == <<met, seen, steady, quiet>>
world == <<near, backend, catalog, trusted, index, changes>>
rankVars == <<world, ask, last, ghosts>>

Larger(m, n) == IF m > n THEN m ELSE n

Standing(v) == StandingOf[v[1]]

\* _scope_predicate
Admitted == [global |-> {"global"}, personal |-> {"own"}, team |-> {"global", "mates"},
             all |-> {"global", "own", "mates"}]

Admits(scope, v) == Standing(v) \in Admitted[scope]

Current(v) == v \in catalog /\ \A w \in catalog : w[1] = v[1] => w[2] <= v[2]

NoPage == [page |-> 0]

-----------------------------------------------------------------------------
(***************************************************************************)
(* The question.  A page of results asks for one card more than it shows.  *)
(***************************************************************************)

\* Mutant of Needed: no card is asked for to know of the next page by.
NeededExactly(page) == page * PageSize

Needed(page) == page * PageSize + 1

PageQuestion(n, min) == [page |-> n, scope |-> "global", limit |-> Needed(n), min |-> min]

Question ==
    [page : {0}, scope : DOMAIN Admitted, limit : 0..MaxLimit, min : BOOLEAN]
    \cup {PageQuestion(n, min) : n \in 1..MaxPage, min \in BOOLEAN}

Findable(q) == {v \in catalog \cap index : Admits(q.scope, v) /\ (q.min => v \in trusted)}

Answer(q, matches, cards) == [at |-> "answered", q |-> q, matches |-> matches, cards |-> cards]

\* Without a limit there is no answer to wait for (top_k <= 0).
Asks(q) ==
    /\ ask.at = "idle"
    /\ ask' = IF q.limit = 0 THEN Answer(q, <<>>, <<>>) ELSE [at |-> "meta", q |-> q]
    /\ met' = index /\ seen' = catalog /\ quiet' = TRUE
    /\ steady' = Findable(q)
    /\ last' = IF last.page # 0 /\ q.page = last.page + 1 THEN last ELSE NoPage
    /\ UNCHANGED world

-----------------------------------------------------------------------------
(***************************************************************************)
(* The vector stores.                                                      *)
(***************************************************************************)

\* Mutant of TopK: the store is asked for no more than the caller wants.
TopKOfLimit(q) == q.limit

TopK(q) == Larger(q.limit * StoreFactor, StoreMin)

Pool(q) == Larger(TopK(q) * PoolFactor, PoolMin)

\* Only Qdrant filters by itself, and only scopes of one payload value (_scope_filter).
Filtered(q, S) ==
    IF backend = "qdrant" /\ q.scope \in {"global", "personal"}
    THEN {v \in S : Admits(q.scope, v)} ELSE S

\* ORDER BY distance LIMIT n; ties are in any order
Nearest(channel, S, n) ==
    {H \in SUBSET S :
        /\ Cardinality(H) = Min({n, Cardinality(S)})
        /\ \A h \in H, v \in S \ H : near[channel][h] >= near[channel][v]}

\* _combine: a channel without the entry counts as 0.
Score(hits, v) ==
    (IF v \in hits.meta THEN MetaWeight * near.meta[v] ELSE 0)
    + (IF v \in hits.body THEN BodyWeight * near.body[v] ELSE 0)

Candidate(hits, v) == [v |-> v, score |-> Score(hits, v)]

BestFirst(s) == \A i, j \in DOMAIN s : i < j => s[i].score >= s[j].score

Making(q, matches, next, cards) ==
    [at |-> "cards", q |-> q, matches |-> matches, next |-> next, cards |-> cards]

\* Enough matches end the loop over the candidates.
Checking(q, queue, matches) ==
    IF queue = <<>> \/ Len(matches) >= q.limit
    THEN Making(q, matches, 1, <<>>)
    ELSE [at |-> "checking", q |-> q, queue |-> queue, matches |-> matches]

Ranks(q, hits) ==
    \E all \in SetToSeqs({Candidate(hits, v) : v \in hits.meta \cup hits.body}) :
        /\ BestFirst(all)
        /\ ask' = Checking(q, SubSeq(all, 1, Min({TopK(q), Len(all)})), <<>>)

QueriesMeta ==
    /\ ask.at = "meta" /\ backend # "pgvector"
    /\ \E H \in Nearest("meta", Filtered(ask.q, index), Pool(ask.q)) :
          ask' = [at |-> "body", q |-> ask.q, meta |-> H]
    /\ UNCHANGED <<world, last, ghosts>>

QueriesBody ==
    /\ ask.at = "body"
    /\ \E H \in Nearest("body", Filtered(ask.q, index), Pool(ask.q)) :
          Ranks(ask.q, [meta |-> ask.meta, body |-> H])
    /\ UNCHANGED <<world, last, ghosts>>

\* PostgreSQL ranks the whole table in one statement.
QueriesBoth ==
    /\ ask.at = "meta" /\ backend = "pgvector"
    /\ Ranks(ask.q, [meta |-> index, body |-> index])
    /\ UNCHANGED <<world, last, ghosts>>

-----------------------------------------------------------------------------
(***************************************************************************)
(* From candidates to cards.                                               *)
(***************************************************************************)

\* Mutant of Allowed: the store's filter is relied upon.
AllowedByStore(q, v) == v \in catalog \/ Admits(q.scope, v)

Allowed(q, v) == v \in catalog /\ Admits(q.scope, v)

\* The next candidate is a match, unless its row is gone or out of scope.
Checks ==
    /\ ask.at = "checking"
    /\ LET c == Head(ask.queue) IN
       ask' = Checking(ask.q, Tail(ask.queue),
                       IF Allowed(ask.q, c.v) THEN Append(ask.matches, c) ELSE ask.matches)
    /\ UNCHANGED <<world, last, ghosts>>

\* min_trust drops matches after the limit has cut them.
MakesCard ==
    /\ ask.at = "cards"
    /\ LET c == ask.matches[ask.next]
           kept == c.v \in catalog /\ (ask.q.min => c.v \in trusted)
       IN  ask' = IF ask.next > Len(ask.matches)
                  THEN Answer(ask.q, ask.matches, ask.cards)
                  ELSE Making(ask.q, ask.matches, ask.next + 1,
                              IF kept THEN Append(ask.cards, c) ELSE ask.cards)
    /\ UNCHANGED <<world, last, ghosts>>

Answers ==
    /\ ask.at = "answered"
    /\ ask' = [at |-> "idle"]
    /\ met' = {} /\ seen' = {} /\ steady' = {} /\ quiet' = TRUE
    /\ UNCHANGED world

-----------------------------------------------------------------------------
(***************************************************************************)
(* Pages of the dashboard, with a query or without one.                    *)
(***************************************************************************)

Slice(s, n) == SubSeq(s, (n - 1) * PageSize + 1, Min({n * PageSize, Len(s)}))

Page(kind, n, min, all) ==
    [page |-> n, kind |-> kind, min |-> min, more |-> n * PageSize < Len(all),
     cards |-> Slice(all, n)]

\* Cards come best first, so the ones that are good enough are the first ones.
GoodEnough(cards) ==
    SubSeq(cards, 1, Cardinality({i \in DOMAIN cards : cards[i].score >= MinScore}))

FoundPage == Page("query", ask.q.page, ask.q.min, GoodEnough(ask.cards))

ShowsPage ==
    /\ Answers
    /\ ask.q.page # 0
    /\ last' = IF quiet THEN FoundPage ELSE NoPage

ReturnsCards ==
    /\ Answers
    /\ ask.q.page = 0
    /\ UNCHANGED last

\* list_global, of the current versions; one read, here by name
Listed(min) ==
    {all \in SetToSeqs({v \in catalog : Current(v) /\ Standing(v) = "global"
                                         /\ (min => v \in trusted)}) :
        \A i, j \in DOMAIN all : i < j => PlaceOf[all[i][1]] <= PlaceOf[all[j][1]]}

ListsPage(n, min) ==
    /\ ask.at = "idle"
    /\ \E all \in Listed(min) : last' = Page("list", n, min, all)
    /\ UNCHANGED <<world, ask, ghosts>>

-----------------------------------------------------------------------------
(***************************************************************************)
(* What other processes do meanwhile.                                      *)
(***************************************************************************)

Changes ==
    /\ changes < MaxChanges
    /\ changes' = changes + 1
    /\ last' = NoPage /\ quiet' = FALSE
    /\ met' = met \cup index' /\ seen' = seen \cup catalog'
    /\ steady' = steady \cap catalog' \cap index'
    /\ UNCHANGED <<near, backend, ask>>

\* publish, or an update, whose store write may fail before or after the old
\* version has gone from the index
Publishes(v) ==
    /\ v \notin catalog
    /\ \A n \in 1..(v[2] - 1) : <<v[1], n>> \in catalog
    /\ catalog' = catalog \cup {v}
    /\ LET old == {w \in index : w[1] = v[1]} IN
       index' \in {index, index \cup {v}, (index \ old) \cup {v}}
    /\ UNCHANGED trusted
    /\ Changes

\* The store's part of a delete comes first, and may be the only one that succeeds.
Unindexes(v) ==
    /\ v \in index
    /\ index' = index \ {v}
    /\ UNCHANGED <<catalog, trusted>>
    /\ Changes

\* Mutant of Deletes: the trust rows stay.
DeletesNoTrust(v) ==
    LET gone == {w \in catalog : w[1] = v[1]} IN
    /\ v \in catalog
    /\ catalog' = catalog \ gone
    /\ index' \in {index, index \ gone}
    /\ UNCHANGED trusted
    /\ Changes

\* An entry that another process was about to write may stay (index_version).
Deletes(v) ==
    LET gone == {w \in catalog : w[1] = v[1]} IN
    /\ v \in catalog
    /\ catalog' = catalog \ gone
    /\ trusted' = trusted \ gone
    /\ index' \in {index, index \ gone}
    /\ Changes

\* resign
Verifies(v) ==
    /\ v \in catalog \ trusted /\ Standing(v) = "global"
    /\ trusted' = trusted \cup {v}
    /\ UNCHANGED <<catalog, index>>
    /\ Changes

-----------------------------------------------------------------------------

RankInit ==
    /\ near \in Near
    /\ backend \in Backend
    /\ catalog = Published
    /\ trusted = Verified
    /\ index = Published
    /\ ask = [at |-> "idle"]
    /\ last = NoPage
    /\ changes = 0
    /\ met = {} /\ seen = {} /\ steady = {} /\ quiet = TRUE

RankNext ==
    \/ \E q \in Question : Asks(q)
    \/ QueriesMeta \/ QueriesBody \/ QueriesBoth
    \/ Checks \/ MakesCard
    \/ ReturnsCards \/ ShowsPage
    \/ \E n \in 1..MaxPage, min \in BOOLEAN : ListsPage(n, min)
    \/ \E v \in Version : Publishes(v) \/ Unindexes(v) \/ Deletes(v) \/ Verifies(v)

RankSpec == RankInit /\ [][RankNext]_rankVars

-----------------------------------------------------------------------------
(***************************************************************************)
(* Properties.                                                             *)
(***************************************************************************)

Cards == [v : Version, score : Nat]

\* Rows, entries and cards are of their types; what is trusted has a row.
RankTypeOK ==
    /\ catalog \subseteq Version /\ index \subseteq Version
    /\ trusted \subseteq catalog
    /\ changes \in 0..MaxChanges
    /\ ask.at \in {"idle", "meta", "body", "checking", "cards", "answered"}
    /\ ask.at \in {"cards", "answered"} =>
          /\ ask.matches \in Seq(Cards) /\ ask.cards \in Seq(Cards)
          /\ Len(ask.matches) <= ask.q.limit
    /\ last.page \in 0..MaxPage
    /\ last.page # 0 => Len(last.cards) <= PageSize

\* Whatever other processes publish, delete or sign between the statements of a
\* search, and whatever the store still holds: the answer lists different versions,
\* best first, and each was in the store, had a row and was in scope during the search.
AnswerIsReadable ==
    ask.at = "answered" =>
        /\ BestFirst(ask.cards)
        /\ \A i, j \in DOMAIN ask.cards : i # j => ask.cards[i].v # ask.cards[j].v
        /\ \A c \in ToSet(ask.cards) : c.v \in met \cap seen /\ Admits(ask.q.scope, c.v)

\* The store's candidates hold all it has searched.
Fits(q) == Cardinality(Filtered(q, met)) <= Larger(q.limit * StoreFactor, StoreMin)

FullScore(v) == MetaWeight * near.meta[v] + BodyWeight * near.body[v]

\* As long as the store holds no more entries than candidates are drawn, a version
\* that could be found at every moment of the search is in the answer, or there were
\* as many matches as asked for and none of them is worse (of these, min_trust may
\* have dropped some: it is applied after the limit).
NothingBetterIsMissed ==
    ask.at = "answered" /\ Fits(ask.q) =>
        \A v \in steady :
            \/ \E c \in ToSet(ask.cards) : c.v = v
            \/ /\ Len(ask.matches) = ask.q.limit
               /\ \A c \in ToSet(ask.matches) : c.score >= FullScore(v)

\* second is the page after first.
Continues(first, second) ==
    /\ ToSet(first.cards) \cap ToSet(second.cards) = {}
    /\ first.more => second.cards # <<>>
    /\ second.cards # <<>> => first.more \/ (first.kind = "query" /\ first.min)

\* Two pages of the dashboard, read one after the other while nothing changes, the
\* candidates of the first are all there are, and no two scores, or names, are the
\* same: they share no card, and the first links to the second exactly if that has
\* cards.  (With a query and a min_trust, the link may be missing.)
PagesAgree ==
    LET Follows(page) == /\ last.page # 0 /\ last.kind = page.kind /\ last.min = page.min
                         /\ page.page = last.page + 1
        NoTies == \A v, w \in index : v # w => FullScore(v) # FullScore(w)
        NamesDiffer == \A s, t \in DOMAIN PlaceOf : s # t => PlaceOf[s] # PlaceOf[t]
    IN  /\ /\ ask.at = "answered" /\ ask.q.page # 0
           /\ Follows(FoundPage) /\ Fits(PageQuestion(last.page, last.min)) /\ NoTies
           => Continues(last, FoundPage)
        /\ NamesDiffer =>
              \A n \in 1..MaxPage, min \in BOOLEAN : \A all \in Listed(min) :
                  LET page == Page("list", n, min, all) IN
                  Follows(page) => Continues(last, page)
=============================================================================
