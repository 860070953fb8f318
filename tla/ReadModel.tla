----------------------------- MODULE ReadModel -----------------------------
(***************************************************************************)
(* The article and topic snapshots of one topic: the Postgres rows and     *)
(* their Redis copies, written by the Aggregator                           *)
(* (Workers/ArticleConflictUpdateWorker.cs,                                *)
(* Services/ConflictAggregationService.cs,                                 *)
(* ReadModel/PostgresConflictReadModelStore.cs) while the ConflictDetector *)
(* writes the same article rows, and read by the REST endpoints.           *)
(*                                                                         *)
(* The topic has one Aggregator process, as deployed; each article is on a *)
(* partition of its own of wiki.article-conflict-updates, and the process  *)
(* reads the partitions in any order, one record at a time.  Snapshots of  *)
(* an article are numbered as the detector builds them, which is the order *)
(* of their updated_at; scripts/demo-retention.sql deletes rows by that,   *)
(* also one the aggregator has just written from an old backlog.           *)
(***************************************************************************)
EXTENDS Naturals, Sequences, SequencesExt, FiniteSetsExt, TopicScore

CONSTANTS
    Articles,       \* articles of the topic
    Contents,       \* [score, reverts, participants] an article may have
    MaxVersions,    \* bound: snapshots the detector builds of an article
    MaxFaults       \* bound: failures, crashes, rebalances and deletes of article rows

ASSUME BoundAssumption == MaxVersions \in Nat /\ MaxFaults \in Nat

NoSnapshot == [version |-> 0]
NoTopic == [articles |-> [a \in Articles |-> NoSnapshot]]
Idle == [article |-> CHOOSE a \in Articles : TRUE, snapshot |-> NoSnapshot]

VARIABLES
    built,          \* detector: number of snapshots built of each article
    pending,        \* detector: the update saved and not yet produced
    log,            \* wiki.article-conflict-updates, by article
    row, topicRow,          \* Postgres article_conflict_snapshots, topic_snapshots
    cache, topicCache,      \* Redis conflict-article:*, conflict-topic:*
    topicLog,       \* wiki.topic-conflict-updates: its last record
    pc, update, topic,      \* aggregator: the handler and its locals
    next, committed,        \* consumer loop, by partition
    failed,         \* history: updates whose handler threw
    unpublished,    \* history: snapshots saved whose update was never produced
    announced,      \* history: newest version of an article in a topic update
    deleted,        \* history: article snapshots retention has deleted
    topicDeleted,   \* history: retention has deleted a topic snapshot
    faults

detectorVars == <<built, pending, log, unpublished>>
loopVars == <<pc, update, topic, next, committed, failed>>
stores == <<row, cache, topicRow, topicCache>>
retentionVars == <<deleted, topicDeleted>>
vars == <<detectorVars, loopVars, stores, topicLog, announced, retentionVars, faults>>

Init ==
    /\ built = [a \in Articles |-> 0] /\ pending = Idle
    /\ log = [a \in Articles |-> <<>>]
    /\ row = [a \in Articles |-> NoSnapshot] /\ cache = row
    /\ topicRow = NoTopic /\ topicCache = NoTopic /\ topicLog = NoTopic
    /\ pc = "poll" /\ update = Idle /\ topic = NoTopic
    /\ next = [a \in Articles |-> 0] /\ committed = next
    /\ failed = {} /\ unpublished = {}
    /\ announced = [a \in Articles |-> 0]
    /\ deleted = {} /\ topicDeleted = FALSE
    /\ faults = 0

Fault ==
    /\ faults < MaxFaults
    /\ faults' = faults + 1

---------------------------------------------------------------------------
(* The detector, as far as the read model sees it.                         *)

\* PostgresArticleConflictRepository.SaveAsync writes the article row.
DetectorSaves(a, content) ==
    /\ pending = Idle
    /\ built[a] < MaxVersions
    /\ LET snapshot == [version |-> built[a] + 1, content |-> content]
       IN  /\ row' = [row EXCEPT ![a] = snapshot]
           /\ pending' = [article |-> a, snapshot |-> snapshot]
    /\ built' = [built EXCEPT ![a] = @ + 1]
    /\ UNCHANGED <<log, unpublished, loopVars, cache, topicRow, topicCache, topicLog,
                   announced, faults>>

DetectorPublishes ==
    /\ pending # Idle
    /\ log' = [log EXCEPT ![pending.article] = Append(@, pending.snapshot)]
    /\ pending' = Idle
    /\ UNCHANGED <<built, unpublished, loopVars, stores, topicLog, announced, faults>>

\* ProduceAsync throws, or the process dies, after the row is written.
DetectorFails ==
    /\ pending # Idle
    /\ Fault
    /\ unpublished' = unpublished \cup {<<pending.article, pending.snapshot.version>>}
    /\ pending' = Idle
    /\ UNCHANGED <<built, log, loopVars, stores, topicLog, announced>>

---------------------------------------------------------------------------
(* The handler of the aggregator, one step per await.                      *)

Goto(place) == pc' = place

Consume(a) ==
    /\ pc = "poll"
    /\ next[a] < Len(log[a])
    /\ update' = [article |-> a, snapshot |-> log[a][next[a] + 1]]
    /\ next' = [next EXCEPT ![a] = @ + 1]
    /\ Goto("upsertArticle")
    /\ UNCHANGED <<detectorVars, topic, committed, failed, stores, topicLog, announced,
                   faults>>

\* ON CONFLICT DO UPDATE, whichever snapshot the row holds.
UpsertArticle ==
    /\ pc = "upsertArticle"
    /\ row' = [row EXCEPT ![update.article] = update.snapshot]
    /\ Goto("cacheArticle")
    /\ UNCHANGED <<detectorVars, update, topic, next, committed, failed, cache, topicRow,
                   topicCache, topicLog, announced, faults>>

CacheArticle ==
    /\ pc = "cacheArticle"
    /\ cache' = [cache EXCEPT ![update.article] = update.snapshot]
    /\ Goto("readArticles")
    /\ UNCHANGED <<detectorVars, update, topic, next, committed, failed, row, topicRow,
                   topicCache, topicLog, announced, faults>>

\* The topic snapshot of the article rows.  Its score, status and lists come
\* from them; articles is a ghost that says which article snapshots those were
\* (the Redis copy of a topic lists no articles, CompactTopic(snapshot, 0)).
BuildTopic(rows) ==
    LET present == {a \in Articles : rows[a] # NoSnapshot}
        Score(a) == rows[a].content.score
        score == Calculate(Cardinality({a \in present : Score(a) >= ActiveAt}),
                           Cardinality({a \in present : Score(a) >= HighRiskAt}),
                           MapThenSumSet(LAMBDA a : rows[a].content.reverts, present),
                           MapThenSumSet(LAMBDA a : rows[a].content.participants, present))
    IN  [articles |-> rows, score |-> Shown(score), status |-> TopicStatusFor(score)]

\* Mutant: the articles are read from Redis.
ReadCachedArticles ==
    /\ pc = "readArticles"
    /\ topic' = BuildTopic(cache)
    /\ Goto("upsertTopic")
    /\ UNCHANGED <<detectorVars, update, next, committed, failed, stores, topicLog,
                   announced, faults>>

ReadArticles ==
    /\ pc = "readArticles"
    /\ topic' = BuildTopic(row)
    /\ Goto("upsertTopic")
    /\ UNCHANGED <<detectorVars, update, next, committed, failed, stores, topicLog,
                   announced, faults>>

UpsertTopic ==
    /\ pc = "upsertTopic"
    /\ topicRow' = topic
    /\ Goto("cacheTopic")
    /\ UNCHANGED <<detectorVars, update, topic, next, committed, failed, row, cache,
                   topicCache, topicLog, announced, faults>>

\* Mutant: a topic that is in Redis is left there until it expires.
CacheTopicIfAbsent ==
    /\ pc = "cacheTopic"
    /\ topicCache' = IF topicCache = NoTopic THEN topic ELSE topicCache
    /\ Goto("publish")
    /\ UNCHANGED <<detectorVars, update, topic, next, committed, failed, row, cache,
                   topicRow, topicLog, announced, faults>>

CacheTopic ==
    /\ pc = "cacheTopic"
    /\ topicCache' = topic
    /\ Goto("publish")
    /\ UNCHANGED <<detectorVars, update, topic, next, committed, failed, row, cache,
                   topicRow, topicLog, announced, faults>>

Announce ==
    /\ topicLog' = topic
    /\ announced' = [a \in Articles |->
                        LET v == topic.articles[a].version
                        IN  IF v > announced[a] THEN v ELSE announced[a]]

\* The handler ends; its locals are gone.
Leave(place) ==
    /\ Goto(place)
    /\ topic' = NoTopic

Publish ==
    /\ pc = "publish"
    /\ Announce
    /\ Leave("commit")
    /\ UNCHANGED <<detectorVars, update, next, committed, failed, stores, faults>>

Handler == {"upsertArticle", "cacheArticle", "readArticles", "upsertTopic", "cacheTopic",
            "publish"}

\* Mutant: a handler that fails puts the row back to what Redis holds.
HandlerThrowsAndRollsBack ==
    /\ pc \in Handler
    /\ Fault
    /\ failed' = failed \cup {<<update.article, next[update.article]>>}
    /\ row' = [row EXCEPT ![update.article] = cache[update.article]]
    /\ Leave("poll")
    /\ update' = Idle
    /\ UNCHANGED <<detectorVars, next, committed, cache, topicRow, topicCache, topicLog,
                   announced>>

\* Postgres, Redis or Kafka fails: the loop logs and goes to the next record.
\* The topic update may be on the broker although ProduceAsync threw.
HandlerThrows ==
    /\ pc \in Handler
    /\ Fault
    /\ failed' = failed \cup {<<update.article, next[update.article]>>}
    /\ \/ UNCHANGED <<topicLog, announced>>
       \/ pc = "publish" /\ Announce
    /\ Leave("poll")
    /\ update' = Idle
    /\ UNCHANGED <<detectorVars, next, committed, stores>>

---------------------------------------------------------------------------
(* The loop, the process and Redis.                                        *)

\* Mutant: the offset is incremented before Commit, which increments it again.
CommitPastNext ==
    /\ pc = "commit"
    /\ committed' = [committed EXCEPT ![update.article] = next[update.article] + 1]
    /\ update' = Idle
    /\ Goto("poll")
    /\ UNCHANGED <<detectorVars, topic, next, failed, stores, topicLog, announced, faults>>

\* Mutant: everything on the partition is committed.
CommitLatest ==
    /\ pc = "commit"
    /\ committed' = [committed EXCEPT ![update.article] = Len(log[update.article])]
    /\ update' = Idle
    /\ Goto("poll")
    /\ UNCHANGED <<detectorVars, topic, next, failed, stores, topicLog, announced, faults>>

Commit ==
    /\ pc = "commit"
    /\ committed' = [committed EXCEPT ![update.article] = next[update.article]]
    /\ update' = Idle
    /\ Goto("poll")
    /\ UNCHANGED <<detectorVars, topic, next, failed, stores, topicLog, announced, faults>>

CommitThrows ==
    /\ pc = "commit"
    /\ Fault
    /\ update' = Idle
    /\ Goto("poll")
    /\ UNCHANGED <<detectorVars, topic, next, committed, failed, stores, topicLog, announced>>

\* The group rebalances: the partitions come back at the committed offsets.
Rejoin ==
    /\ pc = "poll"
    /\ Fault
    /\ next' = committed
    /\ UNCHANGED <<detectorVars, pc, update, topic, committed, failed, stores, topicLog,
                   announced>>

Crash ==
    /\ pc # "down"
    /\ Fault
    /\ Leave("down")
    /\ update' = Idle
    /\ next' = committed
    /\ UNCHANGED <<detectorVars, committed, failed, stores, topicLog, announced>>

Restart ==
    /\ pc = "down"
    /\ Goto("poll")
    /\ UNCHANGED <<detectorVars, update, topic, next, committed, failed, stores, topicLog,
                   announced, faults>>

\* A quarter of an hour without a read: the sliding expiration of Redis.
Expires(a) ==
    /\ cache[a] # NoSnapshot
    /\ cache' = [cache EXCEPT ![a] = NoSnapshot]
    /\ UNCHANGED <<detectorVars, loopVars, row, topicRow, topicCache, topicLog, announced,
                   faults>>

TopicExpires ==
    /\ topicCache # NoTopic
    /\ topicCache' = NoTopic
    /\ UNCHANGED <<detectorVars, loopVars, row, cache, topicRow, topicLog, announced, faults>>

---------------------------------------------------------------------------
(* scripts/demo-retention.sql, one step per DELETE.  Neither Redis nor the *)
(* memory of a service hears of it.                                        *)

\* Days after a snapshot was built its row goes, whoever wrote it and when.
DeleteArticles(old) ==
    /\ old # {}
    /\ \A a \in old : row[a] # NoSnapshot
    /\ Fault
    /\ row' = [a \in Articles |-> IF a \in old THEN NoSnapshot ELSE row[a]]
    /\ deleted' = deleted \cup {<<a, row[a].version>> : a \in old}
    /\ UNCHANGED <<detectorVars, loopVars, cache, topicRow, topicCache, topicLog, announced,
                   topicDeleted>>

\* The statement before has deleted the articles the topic was built from, so only
\* newer ones are left.
DeleteTopic ==
    /\ topicRow # NoTopic /\ ~topicDeleted
    /\ \A a \in Articles :
          row[a] # NoSnapshot => row[a].version > topicRow.articles[a].version
    /\ topicRow' = NoTopic /\ topicDeleted' = TRUE
    /\ UNCHANGED <<detectorVars, loopVars, row, cache, topicCache, topicLog, announced,
                   deleted, faults>>

---------------------------------------------------------------------------

Detector ==
    \/ \E a \in Articles, content \in Contents : DetectorSaves(a, content)
    \/ DetectorPublishes
    \/ DetectorFails

Aggregator ==
    \/ \E a \in Articles : Consume(a)
    \/ UpsertArticle \/ CacheArticle \/ ReadArticles \/ UpsertTopic \/ CacheTopic
    \/ Publish \/ HandlerThrows
    \/ Commit \/ CommitThrows

\* Only the script deletes.
NoDelete(step) == step /\ UNCHANGED retentionVars

Next ==
    \/ NoDelete(Detector)
    \/ NoDelete(Aggregator)
    \/ NoDelete(Rejoin \/ Crash \/ Restart)
    \/ \E a \in Articles : NoDelete(Expires(a))
    \/ NoDelete(TopicExpires)
    \/ \E old \in SUBSET Articles : DeleteArticles(old)
    \/ DeleteTopic

Spec == Init /\ [][Next]_vars

\* The loop runs, its calls end, the container is restarted; the detector ends
\* the handler it is in.
Fairness ==
    /\ WF_vars(NoDelete(Aggregator))
    /\ WF_vars(NoDelete(Restart))
    /\ WF_vars(NoDelete(DetectorPublishes \/ DetectorFails))

FairSpec == Spec /\ Fairness

---------------------------------------------------------------------------
(* The REST endpoints of Program.cs.                                       *)

GetArticleSnapshot(a) == IF cache[a] # NoSnapshot THEN cache[a] ELSE row[a]

GetTopic == IF topicCache # NoTopic THEN topicCache ELSE topicRow

---------------------------------------------------------------------------
(* Properties.                                                             *)

Snapshots == [version : 1 .. MaxVersions, content : Contents]
SnapshotOrNone == Snapshots \cup {NoSnapshot}
TopicOK(t) == t.articles \in [Articles -> SnapshotOrNone]

TypeOK ==
    /\ built \in [Articles -> 0 .. MaxVersions]
    /\ \A a \in Articles : log[a] \in Seq(Snapshots)
    /\ row \in [Articles -> SnapshotOrNone] /\ cache \in [Articles -> SnapshotOrNone]
    /\ TopicOK(topic) /\ TopicOK(topicRow) /\ TopicOK(topicCache) /\ TopicOK(topicLog)
    /\ deleted \subseteq Articles \X (1 .. MaxVersions) /\ topicDeleted \in BOOLEAN
    /\ pc \in Handler \cup {"poll", "commit", "down"}
    /\ update # Idle <=> pc \in Handler \cup {"commit"}
    /\ \A a \in Articles : committed[a] <= Len(log[a]) /\ next[a] <= Len(log[a])

\* Retention has deleted version v of the article, or a newer one.
Deleted(a, v) == \E w \in v .. MaxVersions : <<a, w>> \in deleted

\* A committed update whose handler never threw reached a topic update: some
\* topic update shows its article at that version or a later one, whatever the
\* detector writes to the rows meanwhile, unless retention has deleted the row.
CommittedIsAnnounced ==
    \A a \in Articles, o \in 1 .. MaxVersions :
        o <= committed[a] /\ <<a, o>> \notin failed =>
            announced[a] >= log[a][o].version \/ Deleted(a, log[a][o].version)

\* The aggregator has handled every update of the article there is.
Drained(a) ==
    /\ log[a] # <<>> /\ next[a] = Len(log[a])
    /\ pc \in Handler \cup {"commit"} => update.article # a
    /\ <<a, Len(log[a])>> \notin failed

\* Once an article's updates are handled, no endpoint shows an older snapshot of
\* it: not from Redis or Postgres, not in the article nor in the topic, even
\* while the handler of another article is half-way or fails, until retention
\* deletes it.
DrainedReadsAreCurrent ==
    \A a \in Articles : Drained(a) =>
        LET last == Last(log[a]).version IN
        \/ Deleted(a, last)
        \/ /\ GetArticleSnapshot(a).version >= last
           /\ \/ GetTopic.articles[a].version >= last
              \/ GetTopic = NoTopic /\ topicDeleted
           /\ topicLog.articles[a].version >= last

\* The aggregator overwrites the detector's newer row with an older snapshot;
\* it does so only while the newer one is still on its way to the aggregator,
\* or was never published.
RowRegressesOnlyBehindLog ==
    [][\A a \in Articles : row'[a].version < row[a].version =>
          \/ pending = [article |-> a, snapshot |-> row[a]]
          \/ <<a, row[a].version>> \in unpublished \cup deleted'
          \/ \E o \in next[a] + 1 .. Len(log[a]) : log[a][o] = row[a]]_vars

\* The stores agree in the end on the last published snapshot of an article,
\* if its update did not fail, nothing newer was saved without being published and
\* retention has not deleted it: rows that went back come forward again.
Converges ==
    \A a \in Articles :
        <>[](\/ log[a] = <<>>
             \/ <<a, Len(log[a])>> \in failed
             \/ <<a, built[a]>> \in unpublished
             \/ Deleted(a, Last(log[a]).version)
             \/ /\ row[a] = Last(log[a])
                /\ cache[a] \in {NoSnapshot, Last(log[a])}
                /\ topicRow.articles[a] = Last(log[a])
                /\ topicCache = NoTopic \/ topicCache.articles[a] = Last(log[a])
                /\ topicLog.articles[a] = Last(log[a]))
=============================================================================
