---------------------------- MODULE TopicMatcher ----------------------------
(***************************************************************************)
(* ThreeRevertWatch.TopicMatcher on one page: the worker of                *)
(* Workers/TopicMatcherWorker.cs run by the consumer loop on the partition *)
(* of wiki.raw-edits that carries the page, the rules of                   *)
(* Matching/RuleBasedTopicMatcher.cs, the category cache of                *)
(* Metadata/WikipediaPageMetadataClient.cs and the table topic_articles.   *)
(*                                                                         *)
(* A rule is what it says of a title or of the categories of the page:     *)
(*   Rules[t].seedPage             the page is a seed page of topic t      *)
(*   Rules[t].seedTitles           titles that are seed titles             *)
(*   Rules[t].excludeTitles        titles with an excluded keyword         *)
(*   Rules[t].titleHits[title]     number of include keywords in a title   *)
(*   Rules[t].categoryRules        some category rule is configured        *)
(*   Rules[t].exact[c]             categories c hold an included one       *)
(*   Rules[t].keywordHits[c]       number of category keywords hit in c    *)
(*   Rules[t].excluded[c]          categories c hold an excluded one       *)
(* Scores are in thousandths.                                              *)
(***************************************************************************)
EXTENDS Integers, Sequences, SequencesExt, FiniteSetsExt

CONSTANTS
    Processes, Nobody,      \* matcher processes of the consumer group
    NumTopics,              \* active topics of the wiki, in configuration order
    Titles,                 \* titles the page may have
    CategorySets,           \* categories the page may have
    NoCategories,           \* the empty list of categories
    Rules,
    MaxEdits,               \* bound: edits of the page
    MaxMoves,               \* bound: changes of its categories
    MaxReviews,             \* bound: manual decisions
    MaxFaults               \* bound: failures, crashes, rebalances

Topics == 1 .. NumTopics

ASSUME RulesAssumption ==
    \A t \in Topics :
        /\ ~Rules[t].exact[NoCategories] /\ ~Rules[t].excluded[NoCategories]
        /\ Rules[t].keywordHits[NoCategories] = 0
        /\ \A title \in Titles : Rules[t].titleHits[title] \in Nat
        /\ \A c \in CategorySets : Rules[t].keywordHits[c] \in Nat
ASSUME BoundsAssumption == NumTopics \in Nat /\ MaxEdits \in Nat /\ MaxFaults \in Nat
ASSUME NobodyAssumption == Nobody \notin Processes

CandidateThreshold == 250
ConfirmedThreshold == 700
DetectorPublishThreshold == 500

VARIABLES
    log,            \* the partition: the title of the page at each edit
    committed, owner, pc, position, handled, failed, faults,    \* ConsumerLoop
    categories,     \* the wiki: categories of the page
    moves,
    known,          \* process: the cached categories, or NotCached
    stage,          \* process: where the handler stands
    visited,        \* process: topics MatchAsync has gone through
    fetched,        \* process: the result of metadataTask, or NotCached
    matches,        \* process: matches not yet stored and produced
    row,            \* Postgres topic_articles: the row of the page, by topic
    reviews,        \* number of manual decisions
    decided,        \* history: topics whose row somebody has decided by hand
    published       \* wiki.topic-matched-edits, as a set

NotCached == "not cached"
NoRow == [status |-> "none", relevance |-> 0]

loopVars == <<committed, owner, pc, position, handled, failed, faults>>
wikiVars == <<categories, moves>>
handlerVars == <<stage, visited, fetched, matches>>
tableVars == <<row, reviews, decided>>
vars == <<log, loopVars, wikiVars, known, handlerVars, tableVars, published>>

Loop == INSTANCE ConsumerLoop WITH
            Consumers <- Processes, MaxRecords <- MaxEdits,
            logEnd <- Len(log), malformed <- {}

Init ==
    /\ log = <<>>
    /\ Loop!Init
    /\ categories \in CategorySets /\ moves = 0
    /\ known = [p \in Processes |-> NotCached]
    /\ stage = [p \in Processes |-> "idle"]
    /\ visited = [p \in Processes |-> 0]
    /\ fetched = [p \in Processes |-> NotCached]
    /\ matches = [p \in Processes |-> <<>>]
    /\ row = [t \in Topics |-> NoRow] /\ reviews = 0 /\ decided = {}
    /\ published = {}

---------------------------------------------------------------------------
(* The wiki, the collector and the people who review memberships.          *)

\* The page is edited, possibly moved, and the edit is on wiki.raw-edits.
EditPage(title) ==
    /\ Len(log) < MaxEdits
    /\ log' = Append(log, title)
    /\ Loop!Append
    /\ UNCHANGED <<wikiVars, known, handlerVars, tableVars, published>>

Recategorize ==
    /\ moves < MaxMoves
    /\ moves' = moves + 1
    /\ categories' \in CategorySets \ {categories}
    /\ UNCHANGED <<log, loopVars, known, handlerVars, tableVars, published>>

\* A stored membership is decided by hand: the status column is updated.
Review(t, status) ==
    /\ reviews < MaxReviews
    /\ row[t] # NoRow /\ row[t].status # status
    /\ row' = [row EXCEPT ![t].status = status]
    /\ reviews' = reviews + 1
    /\ decided' = decided \cup {t}
    /\ UNCHANGED <<log, loopVars, wikiVars, known, handlerVars, published>>

---------------------------------------------------------------------------
(* MatchAsync.                                                             *)

\* Mutant: the stored membership is not looked at.
TitleScoreOfRules(t, title) ==
    LET hits == Rules[t].titleHits[title]
        keywords == IF 300 + 150 * hits < 700 THEN 300 + 150 * hits ELSE 700
    IN  Max({0} \cup (IF Rules[t].seedPage THEN {1000} ELSE {})
                \cup (IF title \in Rules[t].seedTitles THEN {950} ELSE {})
                \cup (IF hits > 0 THEN {keywords} ELSE {}))

\* Seeds, a Confirmed membership and title keywords.
TitleScore(t, title) ==
    LET hits == Rules[t].titleHits[title]
        keywords == IF 300 + 150 * hits < 700 THEN 300 + 150 * hits ELSE 700
    IN  Max({0} \cup (IF Rules[t].seedPage THEN {1000} ELSE {})
                \cup (IF title \in Rules[t].seedTitles THEN {950} ELSE {})
                \cup (IF row[t].status = "Confirmed" THEN {row[t].relevance} ELSE {})
                \cup (IF hits > 0 THEN {keywords} ELSE {}))

ShouldUseMetadata(t, score) == score < 950 /\ Rules[t].categoryRules

CategoryScore(t, cats) ==
    LET hits == Rules[t].keywordHits[cats]
        keywords == IF 550 + 100 * hits < 800 THEN 550 + 100 * hits ELSE 800
    IN  Max({0} \cup (IF Rules[t].exact[cats] THEN {900} ELSE {})
                \cup (IF hits > 0 THEN {keywords} ELSE {}))

MatchOf(t, score) ==
    IF score < CandidateThreshold
    THEN <<>>
    ELSE <<[topic |-> t, confidence |-> score, existing |-> row[t].status,
            status |-> IF score >= ConfirmedThreshold THEN "Confirmed" ELSE "Candidate"]>>

Consume(p) ==
    /\ UNCHANGED log
    /\ Loop!Consume(p)
    /\ stage' = [stage EXCEPT ![p] = "match"]
    /\ UNCHANGED <<wikiVars, known, visited, fetched, matches, tableVars, published>>

Title(p) == log[position[p]]
Topic(p) == visited[p] + 1

Matching(p) == stage[p] = "match" /\ visited[p] < NumTopics

\* The topic is done with; the handler goes on to the next one.
Visit(p, found) ==
    /\ matches' = [matches EXCEPT ![p] = @ \o found]
    /\ visited' = [visited EXCEPT ![p] = @ + 1]
    /\ UNCHANGED <<log, loopVars, wikiVars, stage, tableVars, published>>

SkipExcludedTitle(p) ==
    /\ Matching(p)
    /\ Title(p) \in Rules[Topic(p)].excludeTitles
    /\ Visit(p, <<>>)
    /\ UNCHANGED <<known, fetched>>

MatchByTitle(p) ==
    LET t == Topic(p)
        score == TitleScore(t, Title(p))
    IN  /\ Matching(p)
        /\ Title(p) \notin Rules[t].excludeTitles
        /\ ~ShouldUseMetadata(t, score)
        /\ Visit(p, MatchOf(t, score))
        /\ UNCHANGED <<known, fetched>>

\* The first topic that needs the categories starts the lookup; the others of
\* the same edit await the same task.  A failed lookup gives no categories.
Lookup(p, cats) ==
    IF fetched[p] # NotCached
    THEN cats = fetched[p] /\ UNCHANGED known
    ELSE \/ /\ known[p] # NotCached
            /\ cats = known[p]
            /\ UNCHANGED known
         \/ /\ known[p] = NotCached
            /\ cats = categories
            /\ known' = [known EXCEPT ![p] = categories]
         \/ /\ known[p] = NotCached
            /\ cats = NoCategories
            /\ UNCHANGED known

MatchByCategories(p) ==
    LET t == Topic(p)
        score == TitleScore(t, Title(p))
    IN  /\ Matching(p)
        /\ Title(p) \notin Rules[t].excludeTitles
        /\ ShouldUseMetadata(t, score)
        /\ \E cats \in CategorySets \cup {NoCategories} :
            /\ Lookup(p, cats)
            /\ fetched' = [fetched EXCEPT ![p] = cats]
            /\ Visit(p, IF Rules[t].excluded[cats]
                        THEN <<>>
                        ELSE MatchOf(t, Max({score, CategoryScore(t, cats)})))

\* CacheTtlMinutes pass.
CacheExpires(p) ==
    /\ known[p] # NotCached
    /\ known' = [known EXCEPT ![p] = NotCached]
    /\ UNCHANGED <<log, loopVars, wikiVars, handlerVars, tableVars, published>>

---------------------------------------------------------------------------
(* HandleAsync: one match after the other is stored and produced.          *)

Storing(p) ==
    /\ stage[p] = "match"
    /\ visited[p] = NumTopics
    /\ matches[p] # <<>>

\* Mutant: relevance_score = EXCLUDED.relevance_score.
MembershipOverwritten(t, match) ==
    [status |-> match.status, relevance |-> match.confidence]

\* ON CONFLICT: the status is overwritten, the relevance is the GREATEST.
Membership(t, match) ==
    [status |-> match.status, relevance |-> Max({row[t].relevance, match.confidence})]

\* Upsert; below DetectorPublishThreshold the match is not produced.
UpsertMatch(p) ==
    LET match == Head(matches[p])
    IN  /\ Storing(p)
        /\ row' = [row EXCEPT ![match.topic] = Membership(match.topic, match)]
        /\ IF match.confidence < DetectorPublishThreshold
           THEN matches' = [matches EXCEPT ![p] = Tail(@)] /\ UNCHANGED stage
           ELSE stage' = [stage EXCEPT ![p] = "produce"] /\ UNCHANGED matches
        /\ UNCHANGED <<log, loopVars, wikiVars, known, visited, fetched, reviews, decided,
                       published>>

Published(p) ==
    published \cup {[topic |-> Head(matches[p]).topic, offset |-> position[p] - 1,
                     confidence |-> Head(matches[p]).confidence]}

\* Mutant: return instead of the next turn of the loop.
ProduceOnlyFirst(p) ==
    /\ stage[p] = "produce"
    /\ published' = Published(p)
    /\ matches' = [matches EXCEPT ![p] = <<>>]
    /\ stage' = [stage EXCEPT ![p] = "match"]
    /\ UNCHANGED <<log, loopVars, wikiVars, known, visited, fetched, tableVars>>

ProduceMatch(p) ==
    /\ stage[p] = "produce"
    /\ published' = Published(p)
    /\ matches' = [matches EXCEPT ![p] = Tail(@)]
    /\ stage' = [stage EXCEPT ![p] = "match"]
    /\ UNCHANGED <<log, loopVars, wikiVars, known, visited, fetched, tableVars>>

\* The handler ends; its locals are gone.
Leave(p) ==
    /\ stage' = [stage EXCEPT ![p] = "idle"]
    /\ visited' = [visited EXCEPT ![p] = 0]
    /\ fetched' = [fetched EXCEPT ![p] = NotCached]
    /\ matches' = [matches EXCEPT ![p] = <<>>]

\* Mutant: the loop goes on to the next record without Commit.
HandlerReturnsUncommitted(p) ==
    /\ stage[p] = "match" /\ visited[p] = NumTopics /\ matches[p] = <<>>
    /\ pc' = [pc EXCEPT ![p] = "poll"]
    /\ handled' = handled \cup {position[p] - 1}
    /\ Leave(p)
    /\ UNCHANGED <<log, committed, owner, position, failed, faults, wikiVars, known,
                   tableVars, published>>

HandlerReturns(p) ==
    /\ stage[p] = "match" /\ visited[p] = NumTopics /\ matches[p] = <<>>
    /\ UNCHANGED log
    /\ Loop!HandlerReturns(p)
    /\ Leave(p)
    /\ UNCHANGED <<wikiVars, known, tableVars, published>>

\* Postgres or the producer throws: what is stored and produced stays, the rest
\* of the matches is given up.  The broker may have the match all the same.
HandlerThrows(p) ==
    /\ UNCHANGED log
    /\ Loop!HandlerThrows(p)
    /\ \/ UNCHANGED published
       \/ stage[p] = "produce" /\ published' = Published(p)
    /\ Leave(p)
    /\ UNCHANGED <<wikiVars, known, tableVars>>

---------------------------------------------------------------------------
(* The rest of the loop, and the life of the process.                      *)

CommitOffset(p) ==
    /\ UNCHANGED <<log, wikiVars, known, handlerVars, tableVars, published>>
    /\ Loop!Commit(p) \/ Loop!CommitThrows(p) \/ Loop!CommitFenced(p)

GroupMembership(p) ==
    /\ UNCHANGED <<log, wikiVars, known, handlerVars, tableVars, published>>
    /\ Loop!Assign(p) \/ Loop!Revoke(p) \/ Loop!Expire(p) \/ Loop!Restart(p)

\* Mutant: the handler's locals survive the process.
DieInHandler(p) ==
    /\ UNCHANGED log
    /\ Loop!Stop(p) \/ Loop!Crash(p)
    /\ known' = [known EXCEPT ![p] = NotCached]
    /\ UNCHANGED <<wikiVars, handlerVars, tableVars, published>>

\* The category cache lives in the process.
Die(p) ==
    /\ UNCHANGED log
    /\ Loop!Stop(p) \/ Loop!Crash(p)
    /\ Leave(p)
    /\ known' = [known EXCEPT ![p] = NotCached]
    /\ UNCHANGED <<wikiVars, tableVars, published>>

Handle(p) ==
    \/ SkipExcludedTitle(p) \/ MatchByTitle(p) \/ MatchByCategories(p)
    \/ UpsertMatch(p) \/ ProduceMatch(p)
    \/ HandlerReturns(p) \/ HandlerThrows(p)

Next ==
    \/ \E title \in Titles : EditPage(title)
    \/ Recategorize
    \/ \E t \in Topics, status \in {"Confirmed", "Rejected", "Excluded"} : Review(t, status)
    \/ \E p \in Processes :
        \/ Consume(p) \/ Handle(p) \/ CommitOffset(p)
        \/ GroupMembership(p) \/ Die(p) \/ CacheExpires(p)

Spec == Init /\ [][Next]_vars

---------------------------------------------------------------------------
(* Properties.                                                             *)

TypeOK ==
    /\ Loop!TypeOK
    /\ \A p \in Processes :
        /\ stage[p] \in {"idle", "match", "produce"}
        /\ stage[p] # "idle" <=> pc[p] = "handle"
        /\ visited[p] \in 0 .. NumTopics
        /\ fetched[p] \in CategorySets \cup {NoCategories, NotCached}
        /\ known[p] \in CategorySets \cup {NotCached}
    /\ \A t \in Topics :
        /\ row[t].status \in {"none", "Confirmed", "Candidate", "Rejected", "Excluded"}
        /\ row[t].relevance \in 0 .. 1000

\* An edit of a seed page or seed title whose offset is passed reached the
\* detector for every topic it is a seed of, unless its handler threw: neither
\* a crash between two topics, a rebalance nor the category API can lose one
\* of them.
SeededEditsPublished ==
    \A o \in 0 .. committed - 1, t \in Topics :
        /\ o \notin failed
        /\ Rules[t].seedPage \/ log[o + 1] \in Rules[t].seedTitles
        /\ log[o + 1] \notin Rules[t].excludeTitles
        => \E m \in published : m.topic = t /\ m.offset = o /\ m.confidence >= 950

\* The detector never hears of a page for a topic before the page is a member
\* of it, nor with a relevance the table does not have: stale processes that
\* match an old edit late do not lower it.
PublishedIsMember ==
    \A m \in published : row[m.topic] # NoRow /\ row[m.topic].relevance >= m.confidence

\* A page confirmed by the rules stays confirmed until somebody decides otherwise by
\* hand: failed category lookups, moves to weak titles and redelivered edits do not
\* demote it, because a Confirmed row counts as a rule.  Only a process whose
\* handler read the row before it was confirmed can.
ConfirmedSticks ==
    [][\A t \in Topics \ decided' :
          row[t].status = "Confirmed" /\ row'[t].status # "Confirmed" =>
              \E p \in Processes :
                  /\ Storing(p)
                  /\ Head(matches[p]).topic = t
                  /\ Head(matches[p]).existing # "Confirmed"]_vars

\* The worker is an instance of the consumer loop.
ImplementsLoop == Loop!Spec
=============================================================================
