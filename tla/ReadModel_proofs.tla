-------------------------- MODULE ReadModel_proofs --------------------------
(***************************************************************************)
(* Theorems about ReadModel, for any articles and contents and any bounds. *)
(***************************************************************************)
EXTENDS ReadModel, TLAPS

Updates == [article : Articles, snapshot : Snapshots] \cup {Idle}

Types ==
    /\ TypeOK
    /\ log \in [Articles -> Seq(Snapshots)]
    /\ pending \in Updates /\ update \in Updates
    /\ next \in [Articles -> Nat] /\ committed \in [Articles -> Nat]
    /\ announced \in [Articles -> Nat]

\* The update the handler is at belongs to the article, and pc is one of places.
Awaits(a, places) == pc \in places /\ update.article = a

\* Snapshots are published in the order they are built, each once.
NumberedIn(a) ==
    /\ \A i, j \in 1 .. Len(log[a]) : i < j => log[a][i].version < log[a][j].version
    /\ \A i \in 1 .. Len(log[a]) : log[a][i].version <= built[a]
    /\ pending # Idle /\ pending.article = a =>
           /\ pending.snapshot.version = built[a]
           /\ \A i \in 1 .. Len(log[a]) : log[a][i].version < built[a]

Numbered == \A a \in Articles : NumberedIn(a)

\* The handler has the last record read of its partition, which is not committed.
InHandOf(a) ==
    /\ committed[a] <= next[a]
    /\ Awaits(a, Handler \cup {"commit"}) =>
          next[a] > 0 /\ update.snapshot = log[a][next[a]]
    /\ Awaits(a, Handler) => committed[a] < next[a]

InHand == \A a \in Articles : InHandOf(a)

\* Every row was put there by the detector, whose update is under way, published or
\* given up.
RowKnownOf(a) ==
    /\ row[a].version <= built[a]
    /\ \/ row[a] = NoSnapshot
       \/ pending = [article |-> a, snapshot |-> row[a]]
       \/ <<a, row[a].version>> \in unpublished
       \/ \E o \in 1 .. Len(log[a]) : log[a][o] = row[a]

RowKnown == \A a \in Articles : RowKnownOf(a)

TopicBuilt == {"upsertTopic", "cacheTopic", "publish"}

\* What the handler has written and read covers its update.
CarriesUpdateOf(a) ==
    /\ Awaits(a, {"cacheArticle", "readArticles"}) =>
          row[a].version >= update.snapshot.version \/ Deleted(a, update.snapshot.version)
    /\ Awaits(a, TopicBuilt) =>
          \/ topic.articles[a].version >= update.snapshot.version
          \/ Deleted(a, update.snapshot.version)

CarriesUpdate == \A a \in Articles : CarriesUpdateOf(a)

Reached(a, o) ==
    \/ <<a, o>> \in failed
    \/ announced[a] >= log[a][o].version
    \/ Deleted(a, log[a][o].version)

\* Every update that was read was announced, failed or deleted, but for the one in hand.
ReadIsAnnouncedOf(a) ==
    \A o \in 1 .. next[a] : Reached(a, o) \/ (o = next[a] /\ Awaits(a, Handler))

ReadIsAnnounced == \A a \in Articles : ReadIsAnnouncedOf(a)

---------------------------------------------------------------------------

\* Everything there is of the article was read, its last update did not fail, and
\* what it wrote is not deleted.
Quiet(a) ==
    /\ log[a] # <<>> /\ next[a] = Len(log[a])
    /\ <<a, Len(log[a])>> \notin failed
    /\ ~Deleted(a, log[a][Len(log[a])].version)

\* Then every store has the last update, except those its handler has yet to
\* write; and so has a topic that the handler of another article has built.
StoresHave(a, version) ==
    /\ Awaits(a, {"upsertArticle"}) \/ row[a].version >= version
    /\ \/ Awaits(a, {"upsertArticle", "cacheArticle"})
       \/ cache[a] = NoSnapshot
       \/ cache[a].version >= version
    /\ pc \in TopicBuilt => topic.articles[a].version >= version
    /\ \/ Awaits(a, Handler \ {"cacheTopic", "publish"})
       \/ topicRow.articles[a].version >= version
       \/ topicRow = NoTopic /\ topicDeleted
    /\ \/ Awaits(a, Handler \ {"publish"})
       \/ topicCache = NoTopic
       \/ topicCache.articles[a].version >= version
    /\ Awaits(a, Handler) \/ topicLog.articles[a].version >= version

QuietIsCurrent ==
    \A a \in Articles : Quiet(a) => StoresHave(a, log[a][Len(log[a])].version)

IInv ==
    /\ Types /\ Numbered /\ InHand /\ RowKnown
    /\ CarriesUpdate /\ ReadIsAnnounced /\ QuietIsCurrent

---------------------------------------------------------------------------

\* A snapshot has a version from 1 on, none has version 0.
LEMMA SnapshotVersions ==
  /\ \A s \in Snapshots : s \in SnapshotOrNone /\ s.version \in 1 .. MaxVersions /\ s # NoSnapshot
  /\ \A s \in SnapshotOrNone : s.version \in 0 .. MaxVersions /\ s.version \in Nat
  /\ \A s \in SnapshotOrNone : s # NoSnapshot => s \in Snapshots
  /\ NoSnapshot \in SnapshotOrNone /\ NoSnapshot.version = 0
  BY BoundAssumption DEF Snapshots, SnapshotOrNone, NoSnapshot

LEMMA BuildTopicArticles == ASSUME NEW rows PROVE BuildTopic(rows).articles = rows
  BY DEF BuildTopic

LEMMA UpdateTypes ==
  ASSUME NEW u \in Updates
  PROVE  /\ u # Idle => u.article \in Articles /\ u.snapshot \in Snapshots
         /\ \A a \in Articles, s \in Snapshots :
               /\ [article |-> a, snapshot |-> s] \in Updates
               /\ [article |-> a, snapshot |-> s] # Idle
  BY SnapshotVersions DEF Updates, Idle

\* The log stays typed when a snapshot is appended to one of its partitions.
LEMMA StepTypes == Types /\ [Next]_vars => Types'
<1> SUFFICES ASSUME Types, [Next]_vars PROVE Types'
  OBVIOUS
<1> USE BoundAssumption, SnapshotVersions, UpdateTypes DEF Types, TypeOK, TopicOK, Handler
<1> /\ \A a \in Articles : log[a] \in Seq(Snapshots) /\ Len(log[a]) \in Nat
    /\ NoTopic.articles \in [Articles -> SnapshotOrNone]
  BY DEF NoTopic
<1>1. ASSUME NEW a \in Articles, NEW content \in Contents,
             DetectorSaves(a, content), UNCHANGED retentionVars
      PROVE  Types'
  <2> DEFINE s == [version |-> built[a] + 1, content |-> content]
  <2>1. s \in Snapshots
    BY <1>1 DEF DetectorSaves, Snapshots
  <2>2. /\ row' = [row EXCEPT ![a] = s] /\ pending' = [article |-> a, snapshot |-> s]
        /\ built' = [built EXCEPT ![a] = @ + 1] /\ built[a] + 1 \in 0 .. MaxVersions
    BY <1>1 DEF DetectorSaves
  <2> HIDE DEF s
  <2>3. row' \in [Articles -> SnapshotOrNone] /\ pending' \in Updates
    BY <2>1, <2>2
  <2>4. built' \in [Articles -> 0 .. MaxVersions]
    BY <2>2
  <2> QED
    BY <1>1, <2>3, <2>4 DEF DetectorSaves, loopVars, retentionVars
<1>2. CASE DetectorPublishes /\ UNCHANGED retentionVars
  <2>1. pending.article \in Articles /\ pending.snapshot \in Snapshots
    BY <1>2 DEF DetectorPublishes
  <2>2. \A a \in Articles :
           /\ log'[a] = IF a = pending.article THEN Append(log[a], pending.snapshot) ELSE log[a]
           /\ log'[a] \in Seq(Snapshots) /\ Len(log[a]) <= Len(log'[a])
    BY <1>2, <2>1 DEF DetectorPublishes
  <2>3. log' \in [Articles -> Seq(Snapshots)]
    BY <1>2, <2>1, <2>2 DEF DetectorPublishes
  <2>4. pending' \in Updates
    BY <1>2 DEF DetectorPublishes, Updates
  <2>5. \A a \in Articles : committed[a] <= Len(log'[a]) /\ next[a] <= Len(log'[a])
    BY <2>2, <2>3
  <2> QED
    BY <1>2, <2>2, <2>3, <2>4, <2>5 DEF DetectorPublishes, loopVars, stores, retentionVars
<1>3. CASE DetectorFails /\ UNCHANGED retentionVars
  BY <1>3 DEF DetectorFails, loopVars, stores, retentionVars, Updates
<1>4. ASSUME NEW a \in Articles, Consume(a), UNCHANGED retentionVars
      PROVE  Types'
  <2>1. log[a][next[a] + 1] \in Snapshots
    BY <1>4 DEF Consume
  <2>2. update' \in Updates /\ update' # Idle
    BY <1>4, <2>1 DEF Consume
  <2>3. next' \in [Articles -> Nat] /\ \A b \in Articles : next'[b] <= Len(log[b])
    BY <1>4 DEF Consume
  <2> QED
    BY <1>4, <2>2, <2>3 DEF Consume, Goto, detectorVars, stores, retentionVars
<1>5. CASE (UpsertArticle \/ CacheArticle) /\ UNCHANGED retentionVars
  <2>1. update.article \in Articles /\ update.snapshot \in SnapshotOrNone
    BY <1>5 DEF UpsertArticle, CacheArticle
  <2> QED
    BY <1>5, <2>1 DEF UpsertArticle, CacheArticle, Goto, detectorVars, retentionVars
<1>6. CASE ReadArticles /\ UNCHANGED retentionVars
  <2>1. topic'.articles = row
    BY <1>6, BuildTopicArticles DEF ReadArticles
  <2> QED
    BY <1>6, <2>1 DEF ReadArticles, Goto, detectorVars, stores, retentionVars
<1>7. CASE (UpsertTopic \/ CacheTopic) /\ UNCHANGED retentionVars
  BY <1>7 DEF UpsertTopic, CacheTopic, Goto, detectorVars, retentionVars
<1>8. CASE (Publish \/ HandlerThrows) /\ UNCHANGED retentionVars
  <2>1. Announce => announced' \in [Articles -> Nat] /\ topicLog' = topic
    BY DEF Announce
  <2> QED
    BY <1>8, <2>1 DEF Publish, HandlerThrows, Leave, Goto, detectorVars, stores,
       retentionVars, Updates
<1>9. CASE (Commit \/ CommitThrows) /\ UNCHANGED retentionVars
  <2>1. /\ committed \in [Articles -> Nat] /\ next \in [Articles -> Nat]
        /\ \A a \in Articles : committed[a] <= Len(log[a]) /\ next[a] <= Len(log[a])
    BY DEF Types, TypeOK
  <2>2. /\ committed' \in [Articles -> Nat]
        /\ \A a \in Articles : committed'[a] <= Len(log[a])
    <3>1. CASE Commit
      <4>1. PICK a : committed' = [committed EXCEPT ![a] = next[a]]
        BY <3>1 DEF Commit
      <4> QED
        BY <2>1, <4>1
    <3>2. CASE CommitThrows
      BY <2>1, <3>2 DEF CommitThrows
    <3> QED
      BY <1>9, <3>1, <3>2
  <2>3. update' = Idle /\ pc' = "poll"
    BY <1>9 DEF Commit, CommitThrows, Goto
  <2>4. UNCHANGED <<detectorVars, topic, next, failed, stores, topicLog, announced>>
    BY <1>9 DEF Commit, CommitThrows
  <2> QED
    BY <1>9, <2>2, <2>3, <2>4 DEF detectorVars, stores, retentionVars, Updates
<1>10. CASE (Rejoin \/ Crash \/ Restart) /\ UNCHANGED retentionVars
  BY <1>10 DEF Rejoin, Crash, Restart, Leave, Goto, detectorVars, stores, retentionVars,
     Updates
<1>11. ASSUME NEW a \in Articles, Expires(a), UNCHANGED retentionVars
       PROVE  Types'
  BY <1>11 DEF Expires, detectorVars, loopVars, retentionVars
<1>12. CASE TopicExpires /\ UNCHANGED retentionVars
  BY <1>12 DEF TopicExpires, detectorVars, loopVars, retentionVars
<1>13. ASSUME NEW old \in SUBSET Articles, DeleteArticles(old)
       PROVE  Types'
  <2>1. \A a \in old : row[a].version \in 1 .. MaxVersions
    BY <1>13 DEF DeleteArticles
  <2> QED
    BY <1>13, <2>1 DEF DeleteArticles, detectorVars, loopVars
<1>14. CASE DeleteTopic
  BY <1>14 DEF DeleteTopic, detectorVars, loopVars
<1>15. CASE UNCHANGED vars
  BY <1>15 DEF vars, detectorVars, loopVars, stores, retentionVars
<1> QED
  BY <1>1, <1>2, <1>3, <1>4, <1>5, <1>6, <1>7, <1>8, <1>9, <1>10, <1>11, <1>12, <1>13,
     <1>14, <1>15 DEF Next, Detector, Aggregator, NoDelete

\* The three steps of the detector; no other step disturbs its state.
LEMMA DetectorSteps ==
  [Next]_vars =>
    \/ \E a \in Articles, content \in Contents : DetectorSaves(a, content)
    \/ DetectorPublishes
    \/ DetectorFails
    \/ UNCHANGED detectorVars
<1> SUFFICES ASSUME [Next]_vars, ~Detector PROVE UNCHANGED detectorVars
  BY DEF Detector
<1>1. CASE Aggregator
  BY <1>1 DEF Aggregator, Consume, UpsertArticle, CacheArticle, ReadArticles, UpsertTopic,
     CacheTopic, Publish, HandlerThrows, Commit, CommitThrows
<1>2. CASE Rejoin \/ Crash \/ Restart
  BY <1>2 DEF Rejoin, Crash, Restart
<1>3. CASE \/ \E a \in Articles : Expires(a)
           \/ TopicExpires
           \/ \E old \in SUBSET Articles : DeleteArticles(old)
           \/ DeleteTopic
           \/ UNCHANGED vars
  BY <1>3 DEF Expires, TopicExpires, DeleteArticles, DeleteTopic, vars
<1> QED
  BY <1>1, <1>2, <1>3 DEF Next, NoDelete

\* A log grows at its end, by the update that was pending.
LEMMA LogGrows ==
  ASSUME Types, DetectorPublishes
  PROVE  /\ pending.article \in Articles /\ pending.snapshot \in Snapshots
         /\ \A a \in Articles :
               /\ Len(log[a]) \in Nat
               /\ \A i \in 1 .. Len(log[a]) : log'[a][i] = log[a][i]
               /\ a # pending.article => log'[a] = log[a]
               /\ a = pending.article =>
                     /\ Len(log'[a]) = Len(log[a]) + 1
                     /\ log'[a][Len(log[a]) + 1] = pending.snapshot
<1>1. pending.article \in Articles /\ pending.snapshot \in Snapshots
  BY UpdateTypes DEF Types, DetectorPublishes
<1>2. \A a \in Articles :
         /\ log[a] \in Seq(Snapshots)
         /\ log'[a] = IF a = pending.article THEN Append(log[a], pending.snapshot) ELSE log[a]
  BY DEF Types, DetectorPublishes
<1>3. ASSUME NEW a \in Articles
      PROVE  /\ Len(log[a]) \in Nat
             /\ \A i \in 1 .. Len(log[a]) : log'[a][i] = log[a][i]
             /\ a = pending.article =>
                   /\ Len(log'[a]) = Len(log[a]) + 1
                   /\ log'[a][Len(log[a]) + 1] = pending.snapshot
  <2> DEFINE before == log[a]
  <2>1. before \in Seq(Snapshots)
    BY <1>2
  <2>2. CASE a = pending.article
    <3>1. log'[a] = Append(before, pending.snapshot)
      BY <1>2, <2>2
    <3> HIDE DEF before
    <3>2. /\ Len(before) \in Nat
          /\ \A i \in 1 .. Len(before) : Append(before, pending.snapshot)[i] = before[i]
          /\ Len(Append(before, pending.snapshot)) = Len(before) + 1
          /\ Append(before, pending.snapshot)[Len(before) + 1] = pending.snapshot
      BY <1>1, <2>1
    <3> QED
      BY <3>1, <3>2 DEF before
  <2>3. CASE a # pending.article
    BY <1>2, <2>1, <2>3
  <2> QED
    BY <2>2, <2>3
<1> QED
  BY <1>1, <1>2, <1>3

\* Every record of a log is a snapshot.
LEMMA LogTypes ==
  ASSUME Types, NEW a \in Articles
  PROVE  /\ Len(log[a]) \in Nat
         /\ \A i \in 1 .. Len(log[a]) :
               log[a][i] \in Snapshots /\ log[a][i].version \in 1 .. MaxVersions
  BY SnapshotVersions DEF Types

LEMMA StepNumbered == Types /\ Numbered /\ [Next]_vars => Numbered'
<1> SUFFICES ASSUME Types, Numbered, [Next]_vars, NEW a \in Articles PROVE NumberedIn(a)'
  BY DEF Numbered
<1> NumberedIn(a)
  BY DEF Numbered
<1> built[a] \in Nat
  BY BoundAssumption DEF Types, TypeOK
<1> Len(log[a]) \in Nat /\ \A i \in 1 .. Len(log[a]) : log[a][i].version \in Nat
  BY LogTypes, BoundAssumption
<1>1. ASSUME NEW b \in Articles, NEW content \in Contents, DetectorSaves(b, content)
      PROVE  NumberedIn(a)'
  <2>1. /\ log' = log /\ pending = Idle
        /\ built'[a] = IF a = b THEN built[a] + 1 ELSE built[a]
        /\ pending'.article = b /\ pending'.snapshot.version = built[b] + 1
    BY <1>1 DEF DetectorSaves, Types, TypeOK
  <2> QED
    BY <2>1 DEF NumberedIn
<1>2. CASE DetectorPublishes
  <2>1. pending # Idle /\ pending' = Idle /\ built' = built
    BY <1>2 DEF DetectorPublishes
  <2>2. CASE a = pending.article
    <3>1. /\ Len(log'[a]) = Len(log[a]) + 1
          /\ \A i \in 1 .. Len(log[a]) : log'[a][i] = log[a][i]
          /\ log'[a][Len(log[a]) + 1].version = built[a]
      BY <1>2, <2>1, <2>2, LogGrows DEF NumberedIn
    <3>2. ASSUME NEW i \in 1 .. Len(log'[a]), NEW j \in 1 .. Len(log'[a]), i < j
          PROVE  log'[a][i].version < log'[a][j].version
      <4>1. i \in 1 .. Len(log[a]) /\ (j \in 1 .. Len(log[a]) \/ j = Len(log[a]) + 1)
        BY <3>1, <3>2
      <4> QED
        BY <2>1, <2>2, <3>1, <3>2, <4>1 DEF NumberedIn
    <3>3. ASSUME NEW i \in 1 .. Len(log'[a]) PROVE log'[a][i].version <= built[a]
      <4>1. i \in 1 .. Len(log[a]) \/ i = Len(log[a]) + 1
        BY <3>1
      <4> QED
        BY <3>1, <4>1 DEF NumberedIn
    <3> QED
      BY <2>1, <3>2, <3>3 DEF NumberedIn
  <2>3. CASE a # pending.article
    BY <1>2, <2>1, <2>3, LogGrows DEF NumberedIn
  <2> QED
    BY <2>2, <2>3
<1>3. CASE DetectorFails
  BY <1>3 DEF DetectorFails, NumberedIn
<1>4. CASE UNCHANGED detectorVars
  BY <1>4 DEF detectorVars, NumberedIn
<1> QED
  BY <1>1, <1>2, <1>3, <1>4, DetectorSteps

\* The handler's steps from one await to the next.
HandlerGoesOn ==
    \/ UpsertArticle \/ CacheArticle \/ ReadArticles \/ UpsertTopic \/ CacheTopic
    \/ Publish

\* The steps of the loop; no other step disturbs its state.
LEMMA LoopSteps ==
  [Next]_vars =>
    \/ \E a \in Articles : Consume(a)
    \/ HandlerGoesOn \/ HandlerThrows
    \/ Commit \/ CommitThrows
    \/ Rejoin \/ Crash \/ Restart
    \/ UNCHANGED loopVars
<1>1. CASE Detector
  BY <1>1 DEF Detector, DetectorSaves, DetectorPublishes, DetectorFails
<1>2. CASE \/ \E a \in Articles : Expires(a)
           \/ TopicExpires
           \/ \E old \in SUBSET Articles : DeleteArticles(old)
           \/ DeleteTopic
           \/ UNCHANGED vars
  BY <1>2 DEF Expires, TopicExpires, DeleteArticles, DeleteTopic, vars
<1> QED
  BY <1>1, <1>2 DEF Next, NoDelete, Aggregator, HandlerGoesOn

\* What was read of a log stays where it is.
LEMMA LogKept ==
  ASSUME Types, [Next]_vars, NEW a \in Articles
  PROVE  /\ Len(log[a]) \in Nat /\ Len(log'[a]) \in Nat /\ Len(log[a]) <= Len(log'[a])
         /\ \A i \in 1 .. Len(log[a]) : log'[a][i] = log[a][i]
<1>1. CASE DetectorPublishes
  BY <1>1, LogGrows
<1>2. CASE log' = log
  BY <1>2, LogTypes
<1> QED
  BY <1>1, <1>2, DetectorSteps DEF DetectorSaves, DetectorFails, detectorVars

LEMMA StepInHand == Types /\ InHand /\ [Next]_vars => InHand'
<1> SUFFICES ASSUME Types, InHand, [Next]_vars, NEW a \in Articles PROVE InHandOf(a)'
  BY DEF InHand
<1> USE DEF Awaits, Handler
<1> InHandOf(a)
  BY DEF InHand
<1> /\ next[a] \in Nat /\ committed[a] \in Nat /\ next[a] <= Len(log[a])
  BY DEF Types, TypeOK
<1>0. /\ Len(log[a]) \in Nat
      /\ \A i \in 1 .. Len(log[a]) : log'[a][i] = log[a][i]
  BY LogKept
<1>1. ASSUME NEW b \in Articles, Consume(b) PROVE InHandOf(a)'
  <2>1. /\ log' = log /\ committed' = committed /\ update'.article = b
        /\ next'[a] = IF a = b THEN next[a] + 1 ELSE next[a]
        /\ update'.snapshot = log[b][next[b] + 1]
    BY <1>1 DEF Consume, detectorVars, Types
  <2> QED
    BY <2>1 DEF InHandOf
<1>2. CASE HandlerGoesOn
  <2>1. pc \in Handler /\ UNCHANGED <<log, update, next, committed>>
    BY <1>2 DEF HandlerGoesOn, UpsertArticle, CacheArticle, ReadArticles, UpsertTopic,
       CacheTopic, Publish, detectorVars
  <2> QED
    BY <2>1 DEF InHandOf
<1>3. CASE HandlerThrows \/ CommitThrows
  BY <1>3 DEF HandlerThrows, CommitThrows, Leave, Goto, InHandOf
<1>4. CASE Commit
  <2>1. /\ next' = next /\ pc' = "poll"
        /\ committed'[a] \in {committed[a], next[a]}
    BY <1>4 DEF Commit, Goto, Types
  <2> QED
    BY <2>1 DEF InHandOf
<1>5. CASE Rejoin \/ Crash \/ Restart
  BY <1>5 DEF Rejoin, Crash, Restart, Leave, Goto, InHandOf
<1>6. CASE UNCHANGED loopVars
  <2>1. UNCHANGED <<pc, update, next, committed>>
    BY <1>6 DEF loopVars
  <2>2. next[a] > 0 => log'[a][next[a]] = log[a][next[a]]
    BY <1>0
  <2> QED
    BY <2>1, <2>2 DEF InHandOf
<1> QED
  BY <1>1, <1>2, <1>3, <1>4, <1>5, <1>6, LoopSteps

\* Who writes article rows.
LEMMA RowSteps ==
  [Next]_vars =>
    \/ \E a \in Articles, content \in Contents : DetectorSaves(a, content)
    \/ UpsertArticle
    \/ \E old \in SUBSET Articles : DeleteArticles(old)
    \/ UNCHANGED row
<1>1. CASE Aggregator
  BY <1>1 DEF Aggregator, Consume, CacheArticle, ReadArticles, UpsertTopic, CacheTopic,
     Publish, HandlerThrows, Commit, CommitThrows, stores
<1>2. CASE Rejoin \/ Crash \/ Restart
  BY <1>2 DEF Rejoin, Crash, Restart, stores
<1>3. CASE (\E a \in Articles : Expires(a)) \/ TopicExpires \/ DeleteTopic \/ UNCHANGED vars
  BY <1>3 DEF Expires, TopicExpires, DeleteTopic, vars, stores
<1>4. CASE DetectorPublishes \/ DetectorFails
  BY <1>4 DEF DetectorPublishes, DetectorFails, stores
<1> QED
  BY <1>1, <1>2, <1>3, <1>4 DEF Next, NoDelete, Detector

\* The update in hand is the last record read of its partition.
LEMMA UpdateInHand ==
  ASSUME Types, InHand, pc \in Handler \cup {"commit"}
  PROVE  /\ update.article \in Articles /\ update.snapshot \in Snapshots
         /\ next[update.article] \in 1 .. Len(log[update.article])
         /\ update.snapshot = log[update.article][next[update.article]]
<1>1. update.article \in Articles /\ update.snapshot \in Snapshots
  BY UpdateTypes DEF Types, TypeOK
<1> QED
  BY <1>1 DEF InHand, InHandOf, Awaits, Types, TypeOK

LEMMA StepRowKnown ==
  Types /\ Numbered /\ InHand /\ RowKnown /\ [Next]_vars => RowKnown'
<1> SUFFICES ASSUME Types, Numbered, InHand, RowKnown, [Next]_vars, NEW a \in Articles
             PROVE  RowKnownOf(a)'
  BY DEF RowKnown
<1> RowKnownOf(a)
  BY DEF RowKnown
<1> built[a] \in Nat
  BY BoundAssumption DEF Types, TypeOK
<1> /\ row[a] \in SnapshotOrNone /\ row[a].version \in Nat
    /\ row[a] # NoSnapshot => row[a] \in Snapshots
  BY SnapshotVersions DEF Types, TypeOK
<1>0. /\ Len(log[a]) \in Nat /\ Len(log'[a]) \in Nat /\ Len(log[a]) <= Len(log'[a])
      /\ \A i \in 1 .. Len(log[a]) : log'[a][i] = log[a][i]
  BY LogKept
<1>1. ASSUME NEW b \in Articles, NEW content \in Contents, DetectorSaves(b, content)
      PROVE  RowKnownOf(a)'
  <2> DEFINE s == [version |-> built[b] + 1, content |-> content]
  <2>1. /\ log' = log /\ pending = Idle /\ pending' = [article |-> b, snapshot |-> s]
        /\ s.version = built[b] + 1
        /\ unpublished' = unpublished
        /\ row'[a] = IF a = b THEN s ELSE row[a]
        /\ built'[a] = IF a = b THEN built[a] + 1 ELSE built[a]
    BY <1>1 DEF DetectorSaves, Types, TypeOK
  <2> HIDE DEF s
  <2>2. row[a] # NoSnapshot => pending # [article |-> a, snapshot |-> row[a]]
    BY <2>1, UpdateTypes DEF Types
  <2> QED
    BY <2>1, <2>2 DEF RowKnownOf
<1>2. CASE DetectorPublishes
  <2>1. UNCHANGED <<built, unpublished, row>>
    BY <1>2 DEF DetectorPublishes, stores
  <2>2. ASSUME pending = [article |-> a, snapshot |-> row[a]]
        PROVE  \E o \in 1 .. Len(log'[a]) : log'[a][o] = row[a]
    <3>1. pending.article = a /\ pending.snapshot = row[a]
      BY <2>2
    <3>2. /\ Len(log'[a]) = Len(log[a]) + 1
          /\ log'[a][Len(log[a]) + 1] = row[a]
      BY <1>2, <3>1, LogGrows
    <3> QED
      BY <3>2
  <2> QED
    BY <1>0, <2>1, <2>2 DEF RowKnownOf
<1>3. CASE DetectorFails
  <2>1. UNCHANGED <<built, log, row>>
    BY <1>3 DEF DetectorFails, stores
  <2>2. unpublished' = unpublished \cup {<<pending.article, pending.snapshot.version>>}
    BY <1>3 DEF DetectorFails
  <2> QED
    BY <2>1, <2>2 DEF RowKnownOf
<1>4. CASE UpsertArticle /\ UNCHANGED detectorVars
  <2>1. /\ UNCHANGED <<log, built, unpublished, pending>>
        /\ pc \in Handler
        /\ row'[a] = IF a = update.article THEN update.snapshot ELSE row[a]
    BY <1>4 DEF UpsertArticle, detectorVars, Handler, Types, TypeOK
  <2>2. CASE a = update.article
    <3>1. next[a] \in 1 .. Len(log[a]) /\ row'[a] = log[a][next[a]]
      BY <2>1, <2>2, UpdateInHand
    <3>2. log[a][next[a]].version <= built[a]
      BY <3>1 DEF Numbered, NumberedIn
    <3> QED
      BY <2>1, <3>1, <3>2 DEF RowKnownOf
  <2>3. CASE a # update.article
    BY <2>1, <2>3 DEF RowKnownOf
  <2> QED
    BY <2>2, <2>3
<1>5. ASSUME NEW old \in SUBSET Articles, DeleteArticles(old), UNCHANGED detectorVars
      PROVE  RowKnownOf(a)'
  BY <1>5, SnapshotVersions DEF DeleteArticles, detectorVars, RowKnownOf
<1>6. CASE UNCHANGED <<row, detectorVars>>
  BY <1>6 DEF detectorVars, RowKnownOf
<1> QED
  BY <1>1, <1>2, <1>3, <1>4, <1>5, <1>6, RowSteps, DetectorSteps
     DEF UpsertArticle, DeleteArticles, detectorVars, DetectorPublishes, DetectorFails,
         stores

\* What retention has deleted stays on record.
LEMMA DeletedKept ==
  ASSUME [Next]_vars, NEW a, NEW v, Deleted(a, v)
  PROVE  Deleted(a, v)'
<1>1. deleted \subseteq deleted'
  BY DEF Next, NoDelete, retentionVars, DeleteArticles, DeleteTopic, vars
<1> QED
  BY <1>1 DEF Deleted

\* A row is as new as it was, or deleted, unless the aggregator overwrites it.
LEMMA RowKept ==
  ASSUME Types, RowKnown, [Next]_vars, NEW a \in Articles, NEW v \in Nat \ {0},
         row[a].version >= v,
         ~(UpsertArticle /\ update.article = a)
  PROVE  row'[a].version >= v \/ Deleted(a, v)'
<1> row[a].version \in Nat /\ built[a] \in Nat
  BY SnapshotVersions, BoundAssumption DEF Types, TypeOK
<1> row[a].version <= built[a]
  BY DEF RowKnown, RowKnownOf
<1>1. ASSUME NEW b \in Articles, NEW content \in Contents, DetectorSaves(b, content)
      PROVE  row'[a].version >= v
  <2>1. row'[a] = row[a] \/ row'[a].version = built[a] + 1
    BY <1>1 DEF DetectorSaves, Types, TypeOK
  <2> QED
    BY <2>1
<1>2. ASSUME NEW old \in SUBSET Articles, DeleteArticles(old)
      PROVE  row'[a].version >= v \/ Deleted(a, v)'
  <2>1. CASE a \in old
    <3>1. <<a, row[a].version>> \in deleted'
      BY <1>2, <2>1 DEF DeleteArticles
    <3>2. row[a].version \in v .. MaxVersions
      BY SnapshotVersions, BoundAssumption DEF Types, TypeOK
    <3> QED
      BY <3>1, <3>2 DEF Deleted
  <2>2. CASE a \notin old
    BY <1>2, <2>2 DEF DeleteArticles
  <2> QED
    BY <2>1, <2>2
<1>3. CASE UpsertArticle
  BY <1>3 DEF UpsertArticle, Types, TypeOK
<1>4. CASE UNCHANGED row
  BY <1>4
<1> QED
  BY <1>1, <1>2, <1>3, <1>4, RowSteps

LEMMA StepCarriesUpdate ==
  Types /\ InHand /\ RowKnown /\ CarriesUpdate /\ [Next]_vars => CarriesUpdate'
<1> SUFFICES ASSUME Types, InHand, RowKnown, CarriesUpdate, [Next]_vars, NEW a \in Articles
             PROVE  CarriesUpdateOf(a)'
  BY DEF CarriesUpdate
<1> USE DEF Awaits, Handler, TopicBuilt
<1> CarriesUpdateOf(a)
  BY DEF CarriesUpdate
<1> DEFINE u == update.snapshot.version
<1>0. pc \in Handler => u \in Nat \ {0} /\ update.article \in Articles
  BY UpdateInHand, SnapshotVersions, BoundAssumption
<1>1. ASSUME NEW b \in Articles, Consume(b) PROVE CarriesUpdateOf(a)'
  BY <1>1 DEF Consume, Goto, CarriesUpdateOf
<1>2. CASE UpsertArticle
  <2>1. update' = update /\ pc' = "cacheArticle" /\ u \in Nat
    BY <1>2, <1>0 DEF UpsertArticle, Goto
  <2>2. a = update.article => row'[a] = update.snapshot
    BY <1>2 DEF UpsertArticle, Types, TypeOK
  <2> QED
    BY <2>1, <2>2 DEF CarriesUpdateOf
<1>3. CASE CacheArticle
  <2>1. /\ pc = "cacheArticle" /\ pc' = "readArticles"
        /\ UNCHANGED <<update, row>>
    BY <1>3 DEF CacheArticle, Goto
  <2> QED
    BY <2>1, DeletedKept DEF CarriesUpdateOf
<1>4. CASE ReadArticles
  <2>1. /\ pc = "readArticles" /\ pc' = "upsertTopic" /\ update' = update
        /\ topic'.articles = row
    BY <1>4, BuildTopicArticles DEF ReadArticles, Goto
  <2> QED
    BY <2>1, DeletedKept DEF CarriesUpdateOf
<1>5. CASE UpsertTopic \/ CacheTopic
  <2>1. /\ pc \in TopicBuilt /\ pc' \in TopicBuilt
        /\ UNCHANGED <<update, topic>>
    BY <1>5 DEF UpsertTopic, CacheTopic, Goto
  <2> QED
    BY <2>1, DeletedKept DEF CarriesUpdateOf
<1>6. CASE Publish \/ HandlerThrows \/ Commit \/ CommitThrows \/ Crash \/ Restart
  BY <1>6 DEF Publish, HandlerThrows, Commit, CommitThrows, Crash, Restart, Leave, Goto,
     CarriesUpdateOf
<1>7. CASE Rejoin
  BY <1>7 DEF Rejoin, CarriesUpdateOf
<1>8. CASE UNCHANGED loopVars
  <2>1. UNCHANGED <<pc, update, topic>>
    BY <1>8 DEF loopVars
  <2>2. ASSUME Awaits(a, {"cacheArticle", "readArticles"}), NEW v, v = u
        PROVE  row'[a].version >= v \/ Deleted(a, v)'
    <3>1. CASE Deleted(a, v)
      BY <3>1, DeletedKept
    <3>2. CASE row[a].version >= v
      <4>1. ~UpsertArticle /\ v \in Nat \ {0}
        BY <1>0, <2>2 DEF UpsertArticle
      <4> QED
        BY <3>2, <4>1, RowKept
    <3> QED
      BY <2>2, <3>1, <3>2 DEF CarriesUpdateOf
  <2> QED
    BY <2>1, <2>2, DeletedKept DEF CarriesUpdateOf
<1> QED
  BY <1>1, <1>2, <1>3, <1>4, <1>5, <1>6, <1>7, <1>8, LoopSteps DEF HandlerGoesOn

\* What the last topic update says of an article only goes forward.
LEMMA AnnouncedGrows ==
  ASSUME Types, [Next]_vars, NEW a \in Articles
  PROVE  /\ announced[a] \in Nat /\ announced'[a] \in Nat
         /\ announced[a] <= announced'[a]
         /\ Announce => announced'[a] >= topic.articles[a].version
<1> announced[a] \in Nat /\ topic.articles[a].version \in Nat
  BY SnapshotVersions DEF Types, TypeOK, TopicOK
<1>1. CASE Announce
  BY <1>1 DEF Announce
<1>2. CASE UNCHANGED announced
  BY <1>2 DEF Announce
<1>3. Announce \/ UNCHANGED announced
  <2>1. CASE Detector
    BY <2>1 DEF Detector, DetectorSaves, DetectorPublishes, DetectorFails
  <2>2. CASE Aggregator
    BY <2>2 DEF Aggregator, Consume, UpsertArticle, CacheArticle, ReadArticles, UpsertTopic,
       CacheTopic, Publish, HandlerThrows, Commit, CommitThrows
  <2>3. CASE \/ Rejoin \/ Crash \/ Restart
             \/ \E b \in Articles : Expires(b)
             \/ TopicExpires
             \/ \E old \in SUBSET Articles : DeleteArticles(old)
             \/ DeleteTopic
             \/ UNCHANGED vars
    BY <2>3 DEF Rejoin, Crash, Restart, Expires, TopicExpires, DeleteArticles, DeleteTopic,
       vars
  <2> QED
    BY <2>1, <2>2, <2>3 DEF Next, NoDelete
<1> QED
  BY <1>1, <1>2, <1>3

LEMMA ReachedKept ==
  ASSUME Types, [Next]_vars, NEW a \in Articles, NEW o \in 1 .. Len(log[a]), Reached(a, o)
  PROVE  Reached(a, o)'
<1>1. log'[a][o] = log[a][o] /\ log[a][o].version \in Nat
  BY LogKept, LogTypes
<1>2. CASE <<a, o>> \in failed
  <2>1. failed \subseteq failed'
    BY LoopSteps DEF Consume, HandlerGoesOn, UpsertArticle, CacheArticle, ReadArticles,
       UpsertTopic, CacheTopic, Publish, HandlerThrows, Commit, CommitThrows, Rejoin, Crash,
       Restart, loopVars
  <2> QED
    BY <1>2, <2>1 DEF Reached
<1>3. CASE announced[a] >= log[a][o].version
  BY <1>1, <1>3, AnnouncedGrows DEF Reached
<1>4. ASSUME NEW v, v = log[a][o].version, Deleted(a, v)
      PROVE  Reached(a, o)'
  <2>1. Deleted(a, v)' /\ v = log'[a][o].version
    BY <1>1, <1>4, DeletedKept
  <2> QED
    BY <2>1 DEF Reached, Deleted
<1> QED
  BY <1>2, <1>3, <1>4 DEF Reached

LEMMA StepReadIsAnnounced ==
  Types /\ InHand /\ CarriesUpdate /\ ReadIsAnnounced /\ [Next]_vars => ReadIsAnnounced'
<1> SUFFICES ASSUME Types, InHand, CarriesUpdate, ReadIsAnnounced, [Next]_vars,
                    NEW a \in Articles, NEW o \in 1 .. next'[a]
             PROVE  Reached(a, o)' \/ (o = next'[a] /\ Awaits(a, Handler)')
  BY DEF ReadIsAnnounced, ReadIsAnnouncedOf
<1> USE DEF Awaits, Handler
<1> /\ next[a] \in Nat /\ committed[a] \in Nat /\ next[a] <= Len(log[a])
    /\ Len(log[a]) \in Nat
  BY LogTypes DEF Types, TypeOK
<1> InHandOf(a)
  BY DEF InHand
<1>0. o \in 1 .. next[a] => Reached(a, o) \/ (o = next[a] /\ Awaits(a, Handler))
  BY DEF ReadIsAnnounced, ReadIsAnnouncedOf
<1>1. o \in 1 .. next[a] => o \in 1 .. Len(log[a])
  OBVIOUS
<1>2. ASSUME NEW b \in Articles, Consume(b)
      PROVE  Reached(a, o)' \/ (o = next'[a] /\ Awaits(a, Handler)')
  <2>1. /\ pc = "poll" /\ pc' = "upsertArticle" /\ update'.article = b
        /\ next'[a] = IF a = b THEN next[a] + 1 ELSE next[a]
    BY <1>2 DEF Consume, Goto, Types
  <2> QED
    BY <1>0, <1>1, <2>1, ReachedKept
<1>3. CASE UpsertArticle \/ CacheArticle \/ ReadArticles \/ UpsertTopic \/ CacheTopic
  <2>1. pc \in Handler /\ pc' \in Handler /\ UNCHANGED <<update, next>>
    BY <1>3 DEF UpsertArticle, CacheArticle, ReadArticles, UpsertTopic, CacheTopic, Goto
  <2> QED
    BY <1>0, <1>1, <2>1, ReachedKept
<1>4. CASE Publish
  <2>1. pc = "publish" /\ Announce /\ UNCHANGED <<log, next>>
    BY <1>4 DEF Publish, detectorVars
  <2>2. ASSUME o = next[a], update.article = a
        PROVE  Reached(a, o)'
    <3>1. update.snapshot = log[a][o] /\ log[a][o].version \in Nat
      BY <1>1, <2>1, <2>2, LogTypes DEF InHandOf
    <3>2. CASE topic.articles[a].version >= log[a][o].version
      <4>1. /\ announced'[a] \in Nat /\ announced'[a] >= topic.articles[a].version
            /\ topic.articles[a].version \in Nat
        BY <2>1, AnnouncedGrows, SnapshotVersions DEF Types, TypeOK, TopicOK
      <4> QED
        BY <2>1, <3>1, <3>2, <4>1 DEF Reached
    <3>3. CASE Deleted(a, log[a][o].version)
      BY <1>1, <2>2, <3>3, ReachedKept DEF Reached
    <3> QED
      BY <2>1, <2>2, <3>1, <3>2, <3>3 DEF CarriesUpdate, CarriesUpdateOf, TopicBuilt
  <2> QED
    BY <1>0, <1>1, <2>1, <2>2, ReachedKept
<1>5. CASE HandlerThrows
  <2>1. next' = next /\ <<update.article, next[update.article]>> \in failed'
    BY <1>5 DEF HandlerThrows
  <2> QED
    BY <1>0, <1>1, <2>1, ReachedKept DEF Reached
<1>6. CASE Commit \/ CommitThrows \/ Restart
  <2>1. pc \notin Handler /\ next' = next
    BY <1>6 DEF Commit, CommitThrows, Restart
  <2> QED
    BY <1>0, <1>1, <2>1, ReachedKept
<1>7. CASE Rejoin \/ Crash
  <2>1. next' = committed /\ (pc = "poll" \/ Crash)
    BY <1>7 DEF Rejoin, Crash
  <2>2. o \in 1 .. next[a] /\ (Awaits(a, Handler) => o # next[a])
    BY <2>1 DEF InHandOf
  <2> QED
    BY <1>0, <1>1, <2>2, ReachedKept
<1>8. CASE UNCHANGED loopVars
  BY <1>0, <1>1, <1>8, ReachedKept DEF loopVars
<1> QED
  BY <1>2, <1>3, <1>4, <1>5, <1>6, <1>7, <1>8, LoopSteps DEF HandlerGoesOn

\* An article becomes quiet only when its last update is taken in hand; and while
\* it is quiet that update neither fails nor is given up.
LEMMA QuietStep ==
  ASSUME Types, InHand, [Next]_vars, NEW a \in Articles, Quiet(a)'
  PROVE  /\ log'[a] = log[a] /\ Len(log[a]) \in 1 .. Len(log[a])
         /\ Quiet(a) \/ Consume(a)
         /\ Awaits(a, Handler) => ~HandlerThrows /\ ~Crash
<1> DEFINE last == Len(log[a])
<1> /\ next[a] \in Nat /\ committed[a] \in Nat /\ next[a] <= last /\ last \in Nat
    /\ next'[a] = Len(log'[a]) /\ log[a] \in Seq(Snapshots) /\ log'[a] # <<>>
  BY LogTypes DEF Types, TypeOK, Quiet
<1> InHandOf(a)
  BY DEF InHand
<1>1. next'[a] <= next[a] \/ Consume(a)
  <2>1. ASSUME NEW b \in Articles, Consume(b), b # a PROVE next'[a] = next[a]
    BY <2>1 DEF Consume, Types
  <2>2. CASE HandlerGoesOn \/ HandlerThrows \/ Commit \/ CommitThrows \/ Restart
    BY <2>2 DEF HandlerGoesOn, UpsertArticle, CacheArticle, ReadArticles, UpsertTopic,
       CacheTopic, Publish, HandlerThrows, Commit, CommitThrows, Restart
  <2>3. CASE Rejoin \/ Crash
    BY <2>3 DEF Rejoin, Crash, InHandOf
  <2>4. CASE UNCHANGED loopVars
    BY <2>4 DEF loopVars
  <2> QED
    BY <2>1, <2>2, <2>3, <2>4, LoopSteps
<1>2. /\ failed \subseteq failed'
      /\ Awaits(a, Handler) /\ HandlerThrows => <<a, next[a]>> \in failed' /\ next' = next
      /\ Crash => next' = committed
  BY LoopSteps DEF Consume, HandlerGoesOn, UpsertArticle, CacheArticle, ReadArticles,
     UpsertTopic, CacheTopic, Publish, HandlerThrows, Commit, CommitThrows, Rejoin, Crash,
     Restart, loopVars, Awaits
<1>3. log'[a] = log[a]
  <2>1. CASE DetectorPublishes
    <3>1. next' = next
      BY <2>1 DEF DetectorPublishes, loopVars
    <3> QED
      BY <2>1, <3>1, LogGrows
  <2> QED
    BY <2>1, DetectorSteps DEF DetectorSaves, DetectorFails, detectorVars
<1>4. last \in 1 .. last
  BY <1>3
<1>5. <<a, last>> \notin failed' /\ <<a, last>> \notin failed
  BY <1>2, <1>3 DEF Quiet
<1>6. ~Deleted(a, log[a][last].version)
  <2>1. ASSUME NEW v, v = log[a][last].version, Deleted(a, v)
        PROVE  FALSE
    <3>1. Deleted(a, v)'
      BY <2>1, DeletedKept
    <3>2. v = log'[a][Len(log'[a])].version
      BY <1>3, <2>1
    <3> QED
      BY <3>1, <3>2 DEF Quiet, Deleted
  <2> QED
    BY <2>1
<1>7. Quiet(a) \/ Consume(a)
  BY <1>1, <1>3, <1>4, <1>5, <1>6 DEF Quiet
<1>8. Awaits(a, Handler) => ~HandlerThrows /\ ~Crash
  BY <1>2, <1>3, <1>5 DEF InHandOf, Quiet
<1> QED
  BY <1>3, <1>4, <1>7, <1>8

\* No step takes the last update of a quiet article out of a store.
LEMMA StoresKept ==
  ASSUME Types, InHand, RowKnown, [Next]_vars, NEW a \in Articles, Quiet(a), Quiet(a)',
         NEW v, v = log[a][Len(log[a])].version, StoresHave(a, v)
  PROVE  StoresHave(a, v)'
<1> USE DEF Awaits, Handler, TopicBuilt
<1> v \in Nat \ {0}
  BY QuietStep, LogTypes
<1>1. Awaits(a, Handler) => update.snapshot.version = v
  BY DEF InHand, InHandOf, Quiet
<1>2. ~Deleted(a, v)'
  BY QuietStep DEF Quiet, Deleted
<1>3. /\ row'[a].version >= v \/ Awaits(a, {"upsertArticle"})
      /\ UpsertArticle => row'[a].version >= v
      /\ topicDeleted => topicDeleted'
  <2>1. ASSUME UpsertArticle, update.article = a PROVE row'[a].version >= v
    BY <1>1, <2>1 DEF UpsertArticle, Types, TypeOK
  <2>2. ASSUME ~(UpsertArticle /\ update.article = a), row[a].version >= v
        PROVE  row'[a].version >= v
    BY <1>2, <2>2, RowKept
  <2>3. topicDeleted => topicDeleted'
    BY DEF Next, NoDelete, retentionVars, DeleteArticles, DeleteTopic, vars
  <2> QED
    BY <2>1, <2>2, <2>3 DEF StoresHave
<1>4. Awaits(a, Handler) => ~HandlerThrows /\ ~Crash
  BY QuietStep
<1>5. CASE Detector
  <2>1. UNCHANGED <<pc, update, topic, cache, topicRow, topicCache, topicLog>>
    <3>1. UNCHANGED <<loopVars, cache, topicRow, topicCache, topicLog>>
      BY <1>5 DEF Detector, DetectorSaves, DetectorPublishes, DetectorFails, stores
    <3> QED
      BY <3>1 DEF loopVars
  <2> QED
    BY <1>3, <2>1 DEF StoresHave
<1>6. ASSUME NEW b \in Articles, Consume(b) PROVE StoresHave(a, v)'
  BY <1>3, <1>6 DEF StoresHave, Consume, Goto, stores
<1>7. CASE UpsertArticle
  BY <1>3, <1>7 DEF StoresHave, UpsertArticle, Goto
<1>8. CASE CacheArticle
  <2>1. CASE update.article = a
    BY <1>1, <1>3, <1>8, <2>1 DEF StoresHave, CacheArticle, Goto, Types, TypeOK
  <2>2. CASE update.article # a
    BY <1>1, <1>3, <1>8, <2>2 DEF StoresHave, CacheArticle, Goto, Types, TypeOK
  <2> QED
    BY <2>1, <2>2
<1>9. CASE ReadArticles
  <2>1. topic'.articles = row
    BY <1>9, BuildTopicArticles DEF ReadArticles
  <2> QED
    BY <1>3, <1>9, <2>1 DEF StoresHave, ReadArticles, Goto, stores
<1>10. CASE UpsertTopic
  BY <1>3, <1>10 DEF StoresHave, UpsertTopic, Goto
<1>11. CASE CacheTopic
  BY <1>3, <1>11 DEF StoresHave, CacheTopic, Goto
<1>12. CASE Publish
  BY <1>3, <1>12 DEF StoresHave, Publish, Announce, Leave, Goto, stores
<1>13. CASE HandlerThrows
  BY <1>3, <1>4, <1>13 DEF StoresHave, HandlerThrows, Announce, Leave, Goto, stores
<1>14. CASE Commit \/ CommitThrows \/ Rejoin \/ Restart
  BY <1>3, <1>14 DEF StoresHave, Commit, CommitThrows, Rejoin, Restart, Goto, stores
<1>15. CASE Crash
  BY <1>3, <1>4, <1>15 DEF StoresHave, Crash, Leave, Goto, stores
<1>16. ASSUME NEW b \in Articles, Expires(b) PROVE StoresHave(a, v)'
  <2>1. cache'[a] \in {cache[a], NoSnapshot}
    BY <1>16 DEF Expires, Types, TypeOK
  <2> QED
    BY <1>3, <1>16, <2>1 DEF StoresHave, Expires, loopVars
<1>17. CASE TopicExpires
  BY <1>3, <1>17 DEF StoresHave, TopicExpires, loopVars
<1>18. ASSUME NEW old \in SUBSET Articles, DeleteArticles(old) PROVE StoresHave(a, v)'
  BY <1>3, <1>18 DEF StoresHave, DeleteArticles, loopVars
<1>19. CASE DeleteTopic
  BY <1>3, <1>19 DEF StoresHave, DeleteTopic, loopVars
<1>20. CASE UNCHANGED vars
  BY <1>3, <1>20 DEF StoresHave, vars, stores, loopVars, retentionVars
<1> QED
  BY <1>5, <1>6, <1>7, <1>8, <1>9, <1>10, <1>11, <1>12, <1>13, <1>14, <1>15, <1>16, <1>17,
     <1>18, <1>19, <1>20 DEF Next, NoDelete, Aggregator

LEMMA StepQuietIsCurrent ==
  Types /\ InHand /\ RowKnown /\ QuietIsCurrent /\ [Next]_vars => QuietIsCurrent'
<1> SUFFICES ASSUME Types, InHand, RowKnown, QuietIsCurrent, [Next]_vars,
                    NEW a \in Articles, Quiet(a)',
                    NEW v, v = log'[a][Len(log'[a])].version
             PROVE  StoresHave(a, v)'
  BY DEF QuietIsCurrent
<1>1. v = log[a][Len(log[a])].version
  BY QuietStep
<1>2. CASE Quiet(a)
  BY <1>1, <1>2, StoresKept DEF QuietIsCurrent
<1>3. CASE Consume(a)
  <2>1. pc' = "upsertArticle" /\ Awaits(a, {"upsertArticle"})'
    BY <1>3 DEF Consume, Goto, Awaits
  <2> QED
    BY <2>1 DEF StoresHave, Awaits, Handler, TopicBuilt
<1> QED
  BY <1>2, <1>3, QuietStep

LEMMA InitIInv == Init => IInv
<1> SUFFICES ASSUME Init PROVE IInv
  OBVIOUS
<1> USE SnapshotVersions, BoundAssumption DEF Init
<1>1. /\ NoTopic.articles = [a \in Articles |-> NoSnapshot]
      /\ \A a \in Articles : log[a] = <<>> /\ Len(log[a]) = 0 /\ next[a] = 0
      /\ pc \notin Handler \cup {"commit"} \cup TopicBuilt
  BY DEF NoTopic, Handler, TopicBuilt
<1>2. Types
  <2>1. NoTopic.articles \in [Articles -> SnapshotOrNone]
    BY <1>1
  <2>2. /\ built \in [Articles -> 0 .. MaxVersions]
        /\ row \in [Articles -> SnapshotOrNone] /\ cache \in [Articles -> SnapshotOrNone]
        /\ log \in [Articles -> Seq(Snapshots)]
        /\ next \in [Articles -> Nat] /\ committed \in [Articles -> Nat]
        /\ announced \in [Articles -> Nat]
        /\ \A a \in Articles : committed[a] = 0
    OBVIOUS
  <2>3. pending \in Updates /\ update \in Updates /\ update = Idle
    BY DEF Updates
  <2>4. TopicOK(topic) /\ TopicOK(topicRow) /\ TopicOK(topicCache) /\ TopicOK(topicLog)
    BY <2>1 DEF TopicOK
  <2>5. /\ pc \in Handler \cup {"poll", "commit", "down"}
        /\ pc \notin Handler \cup {"commit"}
    BY <1>1
  <2> HIDE DEF Init
  <2>6. deleted = {} /\ topicDeleted = FALSE
    BY DEF Init
  <2>7. \A a \in Articles :
           log[a] \in Seq(Snapshots) /\ committed[a] <= Len(log[a]) /\ next[a] <= Len(log[a])
    BY <1>1, <2>2
  <2>8. TypeOK
    BY <2>2, <2>3, <2>4, <2>5, <2>6, <2>7, Zenon DEF TypeOK
  <2> QED
    BY <2>2, <2>3, <2>8 DEF Types
<1>3. Numbered /\ InHand
  BY <1>1 DEF Numbered, NumberedIn, InHand, InHandOf, Awaits, Handler
<1>4. RowKnown
  BY DEF RowKnown, RowKnownOf
<1>5. CarriesUpdate /\ ReadIsAnnounced /\ QuietIsCurrent
  BY <1>1 DEF CarriesUpdate, CarriesUpdateOf, ReadIsAnnounced, ReadIsAnnouncedOf,
     QuietIsCurrent, Quiet, Awaits, TopicBuilt
<1> QED
  BY <1>2, <1>3, <1>4, <1>5 DEF IInv

\* Every reachable state satisfies the inductive invariant.
THEOREM Inductive == Spec => []IInv
<1>1. IInv /\ [Next]_vars => IInv'
  BY StepTypes, StepNumbered, StepInHand, StepRowKnown, StepCarriesUpdate,
     StepReadIsAnnounced, StepQuietIsCurrent DEF IInv
<1> QED
  BY InitIInv, <1>1, PTL DEF Spec

\* Stores, logs, offsets and the handler's locals hold what their readers expect,
\* and nobody reads or commits past the end of a partition.
THEOREM TypeCorrect == Spec => []TypeOK
<1>1. IInv => TypeOK
  BY DEF IInv, Types
<1> QED
  BY Inductive, <1>1, PTL

\* A committed update of an article reached a topic update, or its handler threw, or
\* retention deleted its row: no crash, rebalance or refused commit between the
\* writes of the handler loses one in silence.
THEOREM NoUpdateLost == Spec => []CommittedIsAnnounced
<1>1. ASSUME IInv PROVE CommittedIsAnnounced
  <2> SUFFICES ASSUME NEW a \in Articles, NEW o \in 1 .. MaxVersions,
                      o <= committed[a], <<a, o>> \notin failed
               PROVE  announced[a] >= log[a][o].version \/ Deleted(a, log[a][o].version)
    BY DEF CommittedIsAnnounced
  <2> committed[a] \in Nat /\ next[a] \in Nat
    BY <1>1 DEF IInv, Types
  <2>1. o \in 1 .. next[a] /\ (Awaits(a, Handler) => o # next[a])
    BY <1>1, BoundAssumption DEF IInv, InHand, InHandOf
  <2> QED
    BY <1>1, <2>1 DEF IInv, ReadIsAnnounced, ReadIsAnnouncedOf, Reached
<1> QED
  BY Inductive, <1>1, PTL

\* Once the updates of an article are handled no endpoint shows an older snapshot of
\* it, whatever the handler of another article, the detector, Redis and
\* retention do.
THEOREM ReadsAreCurrent == Spec => []DrainedReadsAreCurrent
<1>1. ASSUME IInv PROVE DrainedReadsAreCurrent
  <2> SUFFICES ASSUME NEW a \in Articles, Drained(a),
                      NEW last, last = Last(log[a]).version, ~Deleted(a, last)
               PROVE  /\ GetArticleSnapshot(a).version >= last
                      /\ \/ GetTopic.articles[a].version >= last
                         \/ GetTopic = NoTopic /\ topicDeleted
                      /\ topicLog.articles[a].version >= last
    BY DEF DrainedReadsAreCurrent
  <2>1. last = log[a][Len(log[a])].version
    BY DEF Last
  <2>2. Quiet(a)
    BY <2>1 DEF Drained, Quiet
  <2>3. StoresHave(a, last)
    BY <1>1, <2>1, <2>2 DEF IInv, QuietIsCurrent
  <2>4. ~Awaits(a, Handler)
    BY DEF Drained, Awaits
  <2> QED
    BY <2>3, <2>4 DEF StoresHave, Awaits, Handler, GetArticleSnapshot, GetTopic
<1> QED
  BY Inductive, <1>1, PTL

\* The aggregator puts an older snapshot into a row only while the newer one is on
\* its way to it or was never published; nobody else but retention does.
THEOREM RegressesBehindLog == Spec => RowRegressesOnlyBehindLog
<1>1. ASSUME IInv, [Next]_vars, NEW a \in Articles, row'[a].version < row[a].version
      PROVE  \/ pending = [article |-> a, snapshot |-> row[a]]
             \/ <<a, row[a].version>> \in unpublished \cup deleted'
             \/ \E o \in next[a] + 1 .. Len(log[a]) : log[a][o] = row[a]
  <2> RowKnownOf(a) /\ NumberedIn(a) /\ Types /\ InHand
    BY <1>1 DEF IInv, RowKnown, Numbered
  <2> row[a].version \in Nat /\ built[a] \in Nat
    BY SnapshotVersions, BoundAssumption DEF Types, TypeOK
  <2>1. ASSUME NEW b \in Articles, NEW content \in Contents, DetectorSaves(b, content)
        PROVE  FALSE
    <3>1. row'[a] = row[a] \/ row'[a].version = built[a] + 1
      BY <2>1 DEF DetectorSaves, Types, TypeOK
    <3> QED
      BY <1>1, <3>1 DEF RowKnownOf
  <2>2. ASSUME UpsertArticle, NEW o \in 1 .. Len(log[a]), log[a][o] = row[a]
        PROVE  o \in next[a] + 1 .. Len(log[a])
    <3>1. update.article = a /\ row'[a] = update.snapshot
      BY <1>1, <2>2 DEF UpsertArticle, Types, TypeOK
    <3>2. /\ next[a] \in 1 .. Len(log[a]) /\ Len(log[a]) \in Nat
          /\ row'[a] = log[a][next[a]] /\ row'[a].version \in Nat
      BY <2>2, <3>1, UpdateInHand, LogTypes DEF UpsertArticle, Handler
    <3>3. ~(o < next[a]) /\ o # next[a]
      BY <1>1, <2>2, <3>2 DEF NumberedIn
    <3> QED
      BY <3>2, <3>3
  <2>3. row[a] # NoSnapshot
    <3>1. row'[a].version \in Nat
      BY <1>1, StepTypes, SnapshotVersions DEF Types, TypeOK
    <3> QED
      BY <1>1, <3>1, SnapshotVersions
  <2>4. CASE UpsertArticle
    BY <2>2, <2>3, <2>4 DEF RowKnownOf
  <2>5. ASSUME NEW old \in SUBSET Articles, DeleteArticles(old)
        PROVE  <<a, row[a].version>> \in deleted'
    BY <1>1, <2>5 DEF DeleteArticles
  <2>6. ~UNCHANGED row
    BY <1>1
  <2> QED
    BY <1>1, <2>1, <2>4, <2>5, <2>6, RowSteps
<1>2. IInv /\ [Next]_vars =>
        [\A a \in Articles : row'[a].version < row[a].version =>
           \/ pending = [article |-> a, snapshot |-> row[a]]
           \/ <<a, row[a].version>> \in unpublished \cup deleted'
           \/ \E o \in next[a] + 1 .. Len(log[a]) : log[a][o] = row[a]]_vars
  BY <1>1
<1> QED
  BY Inductive, <1>2, PTL DEF Spec, RowRegressesOnlyBehindLog

---------------------------------------------------------------------------
(* TopicScoreCalculator.cs, for every number of articles, reverts and      *)
(* participants.                                                           *)

\* The weights add up to 100 points: Math.Clamp never changes the score.
THEOREM ClampIsIdle ==
    ASSUME NEW n \in Nat, NEW h \in Nat, NEW r \in Nat, NEW p \in Nat
    PROVE  /\ Calculate(n, h, r, p) = RawScore(n, h, r, p)
           /\ Calculate(n, h, r, p) \in Nat /\ Calculate(n, h, r, p) <= 12000
<1> DEFINE a == Capped(n, 10) * 240
           b == Capped(r, 30) * 100
           c == Capped(p, 25) * 72
           d == Capped(h, 5) * 600
           e == Capped(n, 8) * 225
           raw == RawScore(n, h, r, p)
           score == Calculate(n, h, r, p)
<1>1. a \in Nat /\ a <= 2400 /\ b \in Nat /\ b <= 3000
    BY DEF Capped
<1>2. c \in Nat /\ c <= 1800 /\ d \in Nat /\ d <= 3000
    BY DEF Capped
<1>3. e \in Nat /\ e <= 1800
    BY DEF Capped
<1>4. raw = a + b + c + d + e
    BY DEF RawScore
<1>5. score = Clamp(raw, 0, 12000)
    BY DEF Calculate
<1> HIDE DEF a, b, c, d, e, raw, score
<1>6. raw \in Nat /\ raw <= 12000
    BY <1>1, <1>2, <1>3, <1>4
<1>7. score = raw
    BY <1>5, <1>6 DEF Clamp
<1>8. score = raw /\ score \in Nat /\ score <= 12000
    BY <1>6, <1>7
<1> QED
    BY <1>8 DEF raw, score

\* A topic never cools down because an article gets hotter or more reverts or
\* participants are counted.
THEOREM ScoreIsMonotonic ==
    ASSUME NEW n \in Nat, NEW h \in Nat, NEW r \in Nat, NEW p \in Nat,
           NEW n2 \in Nat, NEW h2 \in Nat, NEW r2 \in Nat, NEW p2 \in Nat,
           n <= n2, h <= h2, r <= r2, p <= p2
    PROVE  Calculate(n, h, r, p) <= Calculate(n2, h2, r2, p2)
<1> DEFINE a == Capped(n, 10) * 240    a2 == Capped(n2, 10) * 240
           b == Capped(r, 30) * 100    b2 == Capped(r2, 30) * 100
           c == Capped(p, 25) * 72     c2 == Capped(p2, 25) * 72
           d == Capped(h, 5) * 600     d2 == Capped(h2, 5) * 600
           e == Capped(n, 8) * 225     e2 == Capped(n2, 8) * 225
           raw == RawScore(n, h, r, p)
           raw2 == RawScore(n2, h2, r2, p2)
           score == Calculate(n, h, r, p)
           score2 == Calculate(n2, h2, r2, p2)
<1>1. a \in Nat /\ a2 \in Nat /\ a <= a2
    BY DEF Capped
<1>2. b \in Nat /\ b2 \in Nat /\ b <= b2
    BY DEF Capped
<1>3. c \in Nat /\ c2 \in Nat /\ c <= c2
    BY DEF Capped
<1>4. d \in Nat /\ d2 \in Nat /\ d <= d2
    BY DEF Capped
<1>5. e \in Nat /\ e2 \in Nat /\ e <= e2
    BY DEF Capped
<1>6. raw = a + b + c + d + e
    BY DEF RawScore
<1>7. raw2 = a2 + b2 + c2 + d2 + e2
    BY DEF RawScore
<1>8. score = Clamp(raw, 0, 12000)
    BY DEF Calculate
<1>9. score2 = Clamp(raw2, 0, 12000)
    BY DEF Calculate
<1> HIDE DEF a, b, c, d, e, a2, b2, c2, d2, e2, raw, raw2, score, score2
<1>10. raw \in Nat /\ raw2 \in Nat /\ raw <= raw2
    BY <1>1, <1>2, <1>3, <1>4, <1>5, <1>6, <1>7
<1>11. score <= score2
    BY <1>8, <1>9, <1>10 DEF Clamp
<1> QED
    BY <1>11 DEF score, score2

\* The status is taken from the exact score and the score shown is rounded, yet
\* they never contradict each other at a threshold.
THEOREM ShownScoreAgreesWithStatus ==
    ASSUME NEW s \in Nat
    PROVE  /\ Shown(s) >= 8000 <=> TopicStatusFor(s) = "HighRisk"
           /\ Shown(s) >= 6000 <=> TopicStatusFor(s) \in {"HighRisk", "ActiveEditWarCandidate"}
           /\ Shown(s) < 2000 <=> TopicStatusFor(s) = "Quiet"
<1>1. /\ Shown(s) >= 8000 <=> s >= 9600
      /\ Shown(s) >= 6000 <=> s >= 7200
      /\ Shown(s) >= 4000 <=> s >= 4800
      /\ Shown(s) >= 2000 <=> s >= 2400
      /\ Shown(s) \in Nat
    <2> DEFINE q == (5 * s) \div 6
               r == (5 * s) % 6
    <2>1. q \in Nat /\ r \in Nat /\ r < 6 /\ 5 * s = 6 * q + r
        OBVIOUS
    <2>2. Shown(s) = IF r > 3 \/ (r = 3 /\ q % 2 = 1) THEN q + 1 ELSE q
        BY DEF Shown
    <2> HIDE DEF q, r
    <2>3. \/ Shown(s) = q
          \/ Shown(s) = q + 1 /\ r >= 3
        BY <2>1, <2>2
    <2> QED
        BY <2>1, <2>3
<1>2. CASE s >= 9600
    <2>1. TopicStatusFor(s) = "HighRisk"
        BY <1>2 DEF TopicStatusFor
    <2> QED
        BY <1>1, <1>2, <2>1
<1>3. CASE s < 9600 /\ s >= 7200
    <2>1. TopicStatusFor(s) = "ActiveEditWarCandidate"
        BY <1>3 DEF TopicStatusFor
    <2> QED
        BY <1>1, <1>3, <2>1
<1>4. CASE s < 7200 /\ s >= 4800
    <2>1. TopicStatusFor(s) = "ActiveDispute"
        BY <1>4 DEF TopicStatusFor
    <2> QED
        BY <1>1, <1>4, <2>1
<1>5. CASE s < 4800 /\ s >= 2400
    <2>1. TopicStatusFor(s) = "Watching"
        BY <1>5 DEF TopicStatusFor
    <2> QED
        BY <1>1, <1>5, <2>1
<1>6. CASE s < 2400
    <2>1. TopicStatusFor(s) = "Quiet"
        BY <1>6 DEF TopicStatusFor
    <2> QED
        BY <1>1, <1>6, <2>1
<1> QED
    BY <1>2, <1>3, <1>4, <1>5, <1>6
=============================================================================
