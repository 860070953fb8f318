# ThreeRevertWatch in TLA+

A model of the ThreeRevertWatch pipeline (`src/`), checked with TLC and, where it
pays, proved with TLAPS. The pipeline polls Wikipedia for recent edits, keeps the
ones that belong to a conflict topic, finds reverts in them, scores articles and
topics, and shows the result live. Between the services lie Kafka topics, one
Postgres database and Redis.

    Collector --raw-edits--> TopicMatcher --topic-matched-edits--> ConflictDetector
                                                                        |
                            Gateway <--topic-conflict-updates-- Aggregator <--article-conflict-updates--+
                               |                                   |
                            SignalR                        Postgres, Redis, REST

## 1. Inventory

| Component | State | Operations | What makes it correct |
|---|---|---|---|
| Kafka consumer loop (`Infrastructure/Kafka/KafkaConsumerLoop.cs`) | position, committed offset, consumer group membership | consume, deserialize, handle, catch, commit, close | no record is passed over in silence; the offset moves forward only; a record that cannot be read does not block; order in a partition |
| Kafka producer | none | produce (acks=all, idempotent) | appends once or throws |
| Collector | `_seen`, `_seenOrder` (2000 keys, shared by the wikis) | poll each wiki, sort, skip seen, remember, produce | every edit that stays listed is published; again in one life only when edits of other wikis push it out; in time order |
| TopicMatcher | category cache (60 minutes, deployed with 120); table `topic_articles` | rules over title, seeds, stored membership and categories; upsert; produce | no topic of a seeded edit lost; the detector hears of members only; a confirmed page stays confirmed |
| ConflictDetector | runtime state per article and topic in memory: windows of revisions, edits and edges; tables `classified_edits`, `revert_edges`, `article_conflict_snapshots` | resolve the revision, classify, apply, build the snapshot, save in one transaction, produce | a revert edge is true of the page; a revert is found when it is in the window; no false three-revert risk; tables agree with each other |
| Article scoring | none (pure) | score, status, clusters, evidence | risk and status follow from the edits |
| Aggregator | tables `article_conflict_snapshots`, `topic_snapshots`; Redis copies | upsert article, cache, read articles, build topic, upsert, cache, produce; REST reads | reads are current once the updates are handled; stores converge |
| Gateway: SignalR broadcast | groups and connections | consume updates, broadcast to groups, join | a subscriber gets the updates of what it watches |
| Gateway: pipeline metrics | last sample of each stage, shared by all requests; the polling page's state | read offsets stage by stage, compute lag and rate, poll, give up, retry | a stage shown healthy was drained; a rate counts each message once |
| Gateway: REST proxy | none | forward | |
| Frontend: pages | hub connection, page state | load, connect, join, receive, show more | a page ends up showing the latest state |
| Frontend: reconnect dialog (`ReconnectModal.razor.js`) | Blazor's connection and its circuit on the server, the dialog, a listener for the page becoming visible, calls under way | show, hide, retry, resume, reload | a dead page says so; a session is not thrown away that could be resumed; a page finds back when the server does |
| Retention script (`demo-retention.sql`) | the database | delete old rows, one statement per table | reads of a live article stay current; a deleted row comes back with the article's next update |

How they interact: each service runs the same consumer loop, one handler at a
time per process; a group may have several processes, and a rebalance moves a
partition while its old owner is still inside a handler. Messages are keyed by
page, so a partition carries the edits of a page in order. The detector and the
aggregator write the same rows of `article_conflict_snapshots` without looking at
a version, and the retention script deletes them by age. REST reads prefer Redis. Memory (seen edits, article state, category
cache) dies with its process and is never reloaded.

What is hard here, and hardly reached by a test: a handler that fails half-way
(row written, update not published; first topic produced, second not), a crash
between the effect and the commit, redelivery of what was already applied to a
bounded window, late processes of a rebalance, caches that expire or are not
written, edits of the same second, memory at its bound, offsets of partitions
read at different moments, two calls of a browser racing for one circuit. `PROJECT.json` lists
each of these hazards at its line.

## 2. Modules

| Module | Models | Notes |
|---|---|---|
| `PartitionDelivery` | abstract contract of one partition read by a group: records appear, are handled or fail, and are passed | refined by `ConsumerLoop` |
| `ConsumerLoop` | `KafkaConsumerLoop.cs` with Kafka's group protocol as the loop uses it | also instantiated by the two workers below |
| `ConsumerLoop_proofs` | theorems about it | TLAPS |
| `ArticleState` | `ExplainableEditClassifier.cs` and `ArticleRuntimeState.cs` as operators: windows, candidates, actions, edges | pure; proved about in `ConflictDetector_proofs` |
| `Points` | the caps and clamps of both score calculators | pure |
| `ArticleScore` | the weighted formula, status and rounding of `ArticleConflictScoreCalculator.cs`, over its counts | pure; proved about in `ConflictDetector_proofs` |
| `Scoring` | the windows and counts of `ArticleConflictScoreCalculator.cs`, the three-revert rule, reciprocal pairs, and `ParticipantClusterInferer.cs` | pure; proved about in `ConflictDetector_proofs` |
| `ConflictDetector` | `ConflictDetectorWorker.cs`, state store and `PostgresArticleConflictRepository.cs` on one article | composes `ConsumerLoop`, `ArticleState`, `Scoring` |
| `ConflictDetector_proofs` | theorems about the worker, its tables, the classifier, the clusters, the reciprocal pairs and the article score | TLAPS; instantiates `ConsumerLoop_proofs` |
| `Collector`, `Collector_proofs` | `RecentChangesCollectorWorker.cs`, `WikipediaRecentChangesClient.cs` | theorems |
| `TopicMatcher` | `TopicMatcherWorker.cs`, `RuleBasedTopicMatcher.cs`, `PostgresTopicArticleRepository.cs`, `WikipediaPageMetadataClient.cs` on one page | composes `ConsumerLoop` |
| `TopicMatcher_proofs` | theorems about it | TLAPS; instantiates `ConsumerLoop_proofs` |
| `TopicScore` | `TopicScoreCalculator.cs`, in hundredths of a point | uses `Points`; proved about in `ReadModel_proofs` |
| `ReadModel`, `ReadModel_proofs` | `ArticleConflictUpdateWorker.cs`, `ConflictAggregationService.cs`, `PostgresConflictReadModelStore.cs`, the snapshot endpoints of `Aggregator/Program.cs`, the snapshot deletes of `demo-retention.sql` | uses `TopicScore`; theorems about both |
| `Realtime`, `Realtime_proofs` | the broadcast workers and hub of the Gateway, `ConflictRealtimeClient.cs`, the pages Home, TopicDetail and ArticleDetail | the stores behind it reduced to versions; theorems |
| `PipelineMetrics`, `PipelineMetrics_proofs` | `PipelineMetricsService.cs` of the Gateway and the page `Pipeline.razor` | two of the six stages, one of each sort; theorems |
| `ReconnectModal`, `ReconnectModal_proofs` | `ReconnectModal.razor.js` against Blazor's client and server as its comments describe them | theorems |
| `MC*` | constants and symmetry sets for TLC | |

Correspondence, in short:

* **ConsumerLoop.** `pc` of a process is where the `while` of `ConsumeAsync` stands:
  `poll` before `Consume`, `handle` inside the handler, `commit` before
  `consumer.Commit`, `down` when the process does not run. `position` is the
  consumer's next offset, `committed` the group's. `Poison` is the
  `ConsumeException` of a record that does not deserialize: it is logged and the
  position has moved. `HandlerThrows` is the general `catch`: logged, no seek, no
  commit. `Expire` takes the partition from a member that is still at work; its
  late commit is refused (`CommitFenced`). `handled` and `failed` are histories.
* **ConflictDetector.** `stage` is the await the handler stands at: the revision
  lookup, the synchronous block classify-apply-build, `SaveAsync`, `ProduceAsync`.
  `memory` is the `ArticleRuntimeState`, lost in `Die`. A text is abstracted to
  the set of signals the classifier's expressions find in it, a content to its
  SHA1. The wiki appends a revision only if it changes the content. The snapshot
  row is represented by the state it was computed from (`Snapshot`); score, flag
  and clusters are a function of that (`BuildSnapshot`), which the properties read.
* **ArticleState.** Linq's `Where` and the stable `OrderBy` are defined by positions:
  `Where` picks, as its k-th element, the one at the k-th position that passes the
  test, and the k-th of `OrderedByTime` is the revision that has k - 1 before it.
  They are functions of the sequence, as in the code; the library's `SelectSeq` and
  `SortSeq` say the same by recursion, which no proof could use.
* **Scoring.** The one pass of `CountReciprocalPairs` over the edges is a function on
  the number of edges passed (`Seen`), each value a step (`Note`) of the one before.
  The code's set of strings is two sets, of arrows and of pairs.
* **ArticleScore.** A score is an exact fraction of hundredths of a point, since
  the cleanup penalty divides by the number of reverts; the code's doubles are
  not modelled. The criterion of disputed fragments is worth nothing: the
  detector never fills that list. The windows are six hours and a day whatever
  `RevertWindowHours` and `ThreeRevertWindowHours` say: no code reads them.
* **Collector.** `seen` is the queue and, since it is injective, the set; one queue
  serves all wikis. A second is the unit of `changes`, so edits of one second are
  possible. The listing is the one sequence of what the API lists that `OrderBy` can
  return: by time, and edits of one second newest first, as the API lists them.
  `taken` is a history, the edits given to `ProduceAsync` since the process started,
  of which `seen` is the end. `Polled` is `CollectorOptions.Wikis` after binding: .NET
  adds the elements of a configured list to those the property has, so that the
  `ruwiki, enwiki` of `appsettings.json` follow the default `ruwiki` of the class and
  ruwiki is polled twice in a round.
* **TopicMatcher.** Rules are tables from titles and category sets to what the
  keyword and equality tests say of them; a match keeps the confidence in
  thousandths. Reading the row and the categories for one topic is one step;
  topics are visited one per step, and matches stored and produced one by one.
* **ReadModel.** One step per await of the handler. A snapshot is its version
  (what the detector built) and the numbers the topic score reads. `articles`
  in a topic snapshot is a ghost that says what it was computed from. Retention
  deletes any set of article rows in one statement, and then a topic row that is
  older than every article row left: `updated_at` of a topic is later than that
  of the articles it was built from. Redis keeps its copies.
* **Realtime.** `pc` is where `OnInitializedAsync` or `OnParametersSetAsync` of
  the page stands: `load` and `list` while a REST call runs, `connect` before
  `StartAsync`, `join` before the hub's `Join...`, then `live`; `offline` when the
  empty `catch` has swallowed a failure, `dead` when the page shows an error or its
  circuit ended. A REST call is two steps, the server's read and the arrival of
  the answer. `inbox` is what the connection has been sent and not yet delivered.
  The row, the topic and the Redis copies are versions; that the row may be ahead
  of the topic and of the copies, or set back by the aggregator, is kept.
  `loaded` (what REST last said) and `excused` are histories.
* **PipelineMetrics.** A request asks for the committed offsets of a stage in one
  call and for the ends of its partitions one after another, and samples the
  stage when it has them; a request whose page has given up goes on. `sample` is
  `_previousSamples`, lost when the gateway restarts. A rate is the messages it
  counts; `accounted`, `overlapped` and what a request's lag must cover are
  histories: `owed`, the lag of each partition when the committed offsets were
  read, and `backlog`, the sum of those asked so far.
* **ReconnectModal.** One action per handler of the script up to its next await,
  and one per answer. `class` is the class Blazor gives the dialog, which also
  decides what button is displayed, `circuit` what the server keeps, `call[c]`
  what the c-th call of `retry` or `resume` awaits. `unloaded` is a reload.

## 3. Runs

| Run | Asks | Bounds |
|---|---|---|
| `consumer_group` | Is anything lost in silence, does the offset go back, is order lost otherwise than by a failed handler, does a poison record block, is the loop an implementation of `PartitionDelivery`? | 2 processes, 3 records, 3 faults |
| `detector_sound` | Are revert edges true of the page, are reverts found, is the three-revert risk never a false alarm? | 2 users, 3 contents, 4 revisions, windows of 3, one failed lookup, one fault |
| `detector_scores` | Do clusters name people who really undid their target on the page; does the single pass count reciprocal pairs; does the score fall only when an edit or an edge leaves a window, or by a cleanup? | 3 users, 3 contents, 5 revisions, windows of 5, comments with and without a cleanup word |
| `detector_group` | What do the tables and updates keep through failures at every await, crashes and rebalances; is the worker the loop? | 2 processes, 2 revisions, one published again, 2 faults |
| `detector_double` (violated) | Does the stored three-revert flag mean three reverts? | one edit delivered twice |
| `collector_steady` | Is an edit published again in one life only after enough edits of the other wiki; in time order; published or dropped with a reason? | 2 wikis, one of them polled twice in a round, listing of 2, memory of 4, 3 edits a wiki and 5 in all, 1 fault |
| `collector_lost` (violated) | Is every edit that stays listed published? | one failed produce |
| `matcher_group` | Topics of a seeded edit, members before updates, confirmed pages, the worker is the loop | 2 processes, 2 topics, 2 titles, 3 category sets, 2 edits, 2 faults |
| `read_model` | Are reads of a drained article current, does every committed update reach a topic update, do the stores agree in the end? | 2 articles, 2 versions each, 1 fault or delete of article rows |
| `realtime_page` | Is an open page current unless an update passed it by, do messages take it back, is a member shown every update to come? | each kind of page, 3 updates, 1 fault, one "Show more" |
| `pipeline_polls` | Was a stage shown healthy drained at one moment; do rates count each message, and once unless two requests overlap? | 2 pages, 2 stages, 2 partitions, 1 record each, 1 fault |
| `reconnect_modal` | Does the dialog say what is true, is a session never thrown away that the script could resume, does a failed page find back? | 2 calls at once, any number of outages |

Why the bounds are enough. Losing or repeating a record needs two records (one to
fail, one to commit past it) and two processes (one late, one new); a third
record shows that the damage does not grow. A revert needs three revisions, a
missed or false one a fourth that pushes the first out of a window of three;
three different contents are needed for a history that is not just alternation.
The third revert in a day with a window of three is the smallest three-revert
case, and the day is shorter than the history. The collector's memory is as large as
the listings of the two wikis together: with a smaller one the worker publishes
what is listed again in every round, for ever. With five edits one that is still
listed is evicted and published again, also after exactly as many edits of the
other wiki as `TakenAgainOnlyAfterOthers` asks for. For the read model two articles share a topic
and each goes back once. Two users make a reciprocal pair and a third one the
cluster of those with a common target; five revisions hold two edges of one pair
with an edge of another between them. Of three updates one is under way to a page while
it is answered with the second and the third is made, so that an answer is overtaken
by a message or overtakes one; one fault loses a connection, restarts the gateway or
fails a call. A lag put together from different moments
needs two partitions, and a rate counted twice two pages. Two calls are enough to
race for a circuit; the theorems cover more. Users and contents, and in `matcher_group` the
processes, are interchangeable and are reduced by symmetry where a run checks no
liveness. `CHECK_DEADLOCK FALSE` is set because every run stops when its bounded
number of edits is used up and everything is handled.

Fairness. Each process is weakly fair in the next step of its loop, in coming
back after it went down, and in being assigned a free partition. The code
justifies it: `KafkaConsumerLoop` loops until it is cancelled and every call
inside has a timeout (Kafka, Npgsql, Redis, HttpClient), the services run with
`restart: unless-stopped` (`docker-compose.yml`), and Kafka assigns a partition
that has no owner. In `Realtime` the calls of a page end (HttpClient and SignalR
time out), what is sent over a connection arrives while it lasts,
`WithAutomaticReconnect` tries again and at last gives up, and the broadcast
workers go on; opening a page, clicking, and new updates are not fair. In
`ReconnectModal` Blazor's attempts and the calls end, and the user looks at the
page now and then, as the script's listener expects; nobody must press a button,
and the claim is about a server that in the end stays reachable. `PipelineMetrics`
states safety only.
Failures are not fair and are bounded (`MaxFaults`,
`MaxOutages`), so "in the end" means: once failures stop. Editing, expiry and
reviewing are not fair: nobody must ever edit.

### Where the code and its documents disagree

* `detector_double`: the evidence text says "3+ reverts"; an edit delivered
  again enters the window again and is counted twice.
* `collector_lost`: an edit is remembered before it is produced, so a failed
  produce loses it for as long as the process lives.

More the models show and no violated run states. A record whose handler threw is
skipped and takes effect after its successors when a rebalance or restart brings
it back, which `docs/ARCHITECTURE.md:42` ("per-page order") does not say;
`ReorderedOnlyAfterFailure` says that nothing else reorders. An open page can
stay behind for good when no further update comes: `CurrentUnlessExcused` lists
how (a broadcast between its load and its join, a reconnect that joins no group,
"Show more" answered with an older read). An edit published again after
newer ones gets revert edges to revisions newer than itself (`FindRevisionsBetween`
has no upper bound, `ArticleRuntimeState.cs:76`), and the runtime state keeps an
edit whose transaction failed, so the next snapshot shows an edit that has no row
(`ConflictDetectorWorker.cs:67`). An edit that is no cleanup can lower the
score of its article while every edit is still remembered: each edit makes an edge
per user it undid, both lists are trimmed to the same length
(`ArticleRuntimeState.cs`), so edges leave first and a reciprocal pair with them. A user may be in two clusters that oppose each
other, since only the first pair and the first common target are looked for. An
article is `HighRisk` from 80 points, while the topic score and the gateway's
alerts call it high-risk from 70. A decision made by hand (`docs/DATAFLOW.md:28`) lasts until
the page's next edit: the upsert takes the status the rules give, and a page
confirmed by hand keeps too little relevance to count as confirmed. The wikis share the collector's memory, so an edit
of a quiet wiki is published again while it stays listed, once enough edits of a busy
one came after it; the detector's model replays edits. Two requests
for metrics that overlap may count the same messages in two rates. A page whose
circuit the server has stored is reloaded when Blazor's own attempt is refused,
without trying to resume. `RevertEdgesSound` and `ThreeRevertRiskSound` hold
for processes that applied their edits in page order, which is what they say.

## 4. Proofs

Every theorem holds for all values of the constants under the assumptions its
module names: numbers of processes, records, revisions, pages, partitions,
windows and faults are any, and so are the rules, texts and contents. The pattern
is the same everywhere: the property is not inductive, `IInv` is what it needs,
one `Step...` lemma per conjunct of `IInv` goes through the actions, and
`Inductive` puts them together.

**`ConsumerLoop_proofs`.** `NoSilentLoss` ("every offset below the committed one was
handled or failed") is not inductive: a process commits its own `position`, so one
must know that everything below the position of a process that may commit is
settled, and that the committed offset the position started from is. `IInv` adds this
(`ReadIsSettled`, `SettledIsPrefix`, `OwnerNotBehind`, `WithinLog` with the types);
TLC checks it in `consumer_group`. `CommitsForward` and `OrderLostOnlyByFailure` are
action properties whose step lemmas use `IInv` in the state before.
`LoopImplementsContract` maps the loop's histories to `PartitionDelivery`'s variables:
initial states map to initial states and every step to a step or a stutter.
The two workers built on the loop instantiate this module (`LoopProofs`), prove that
each of their steps is one of the loop or leaves it alone (`DetectorImplementsLoop`,
`MatcherImplementsLoop`), and so have the loop's invariant without proving it again.
Both theorems are about safety: that the detector has the loop's fairness is checked
by `detector_group`. That the broker refuses the commit of a process that does not hold
the partition is an assumption about Kafka (`CommitFenced`), on which `OwnerNotBehind`,
`CommitsForward` and the refinement rest.

**`ConflictDetector_proofs`**, for any finite set of processes (a publication is
counted against the processes about to make it). `PublishedOnlyPersisted` compares
how often an edit was published with how often it has a row; what is inductive is
`RowForEach`: the publications made and those some process stands before have a row
each. `CommittedIsPublished` needs that what is handled is both stored and published
(`StoredFirst`), which the handler knows only while its local `work` belongs to the
record in hand (`InHandler`). `SnapshotForgetsOnlyUnknown` needs that a process
remembers all it has applied until its window is full (`Remembers`), over `Trim`.

What the classifier and the scorer claim about the page is proved for windows of any
length, any number of edits, and any lookups that fail. `MemoriesTrue` is inductive:
a process's windows hold the end of what it applied, in that order, each row with the
user and time the page has, and with its content unless it was not fetched; and as long
as what was applied came in page order (`Sorted`), every edge is sound. The step is
`FaithfulApplied`: such a window is a `Chronicle` (ids and times grow with the position), so
sorting it leaves it alone, and what the classifier looks up is what follows the last
revision of the same content (`Candidates`, against the definition `Undone` over sets);
the edges made of that are sound (`NewEdgesFound`). `RevertEdgesTrue` follows, and from it
`ClustersTrue`, since a cluster is taken from two edges or more. `NoFalseAlarm` needs that
what `Where` keeps of edits in order is in order (`SelectedInOrder`): three places then
hold three different reverts. `ClassifierRight` compares the classifier, which sees a
window and may have no content for a revision, with a definition over the page. It needs
that the window is as full as it can be (`WindowExact`) and that a revision without
content is one that was not fetched (`GapsKnown`), both in `Classifications`; its condition
`RecentRevisionWindow > 0` leaves out the setting that keeps everything, for which the
reference definition is not meant (the default is 50). What `Where` and `OrderedByTime`
return for sequences of any length rests on counting (`Ranks`, `Numbering`), where
induction is replaced by a least counterexample, which well-foundedness of `<` refutes.

What the scorer counts is proved in every state, also when edits came late or twice.
`PairsCounted`: the single pass, which notes the reverse of an edge or the edge itself
but not both, counts exactly the pairs of users that reverted each other. That the pass
exists for any number of edges is again a least counterexample (`OnePass`). Its invariant
(`PassRight`) says which arrows and pairs are noted after n edges, and depends on no
edge leading from a user to itself; `EdgesAreBetweenUsers` is that invariant of the
detector, and needs no page order: edges are made of candidates by another user.
The pairs are then the doubletons of the definition, of which there are finitely
many since there are finitely many users (`UsersAssumption`).
`ScoreFallsOnlyAsSaid` takes two windows, before and after an edit. If the old one is
a prefix of the new one, nothing returned to it (`NothingReturns`: one edit was added,
so one place at most is new) and each count is the old one or more, the cleanups
exactly the old ones (`NextWindow`, `CountedAgain`, `PairsGrow`, `AuthorsGrow`,
`RiskStays`); and the score does not fall when counts grow and the cleanups do not
(`GainsGrow`, `ScoreGrows`). The attempt refuted the property as it was first stated,
with a hypothesis on the edits only: edges outnumber edits and fill their window first.
TLC found a history of fifteen edges and a window of twenty in which an ordinary edit
lowers the score from 59.5 to 47.5 with every edit kept; the windows of the run are too
short for it. The property now names the edges.

The same module proves the formula of the article score for all counts. `HighRisk`
takes 80 points and the criteria without the three-revert risk are worth 75 at most,
less the penalty, so every article of that status has a participant at three reverts
(`HighRiskHasThreeRevertRisk`). The shown score is rounded and the status comes from
the exact one; they agree at every threshold the services use
(`ShownScoreAgreesWithStatus`) because no score lies within half a hundredth below a
threshold: the criteria come in quarters of a point and the penalty is a multiple of
20 / reverts points, where the reverts are no more than the edits the state keeps
(`GapBelowThreshold`, for the shipped window of 100). No run states these: the
windows TLC can explore do not reach the thresholds.

**`Collector_proofs`.** `InTimeOrder` holds for any number of wikis, faults and
restarts and any memory: what is older than an edit of the batch is in the batch, was
published or dropped, or has scrolled off the listing (`BatchComplete`,
`PublishedComplete`). `TakenOnceAmongOwn` is about wikis that share
the memory, any number of them, polled in any order and as often as one likes, and any
sizes of the listing and the memory. Between two takings of an edit there are more
than `Capacity` others, since its key must have left the queue (`Spread`); those in the
queue are the last taken, each once (`LastTaken`, `Window`). Of the `Capacity` that follow
it, those of its own wiki are less than a listing away from it on either side: an edit
taken after another one of its wiki was listed with it or is newer (`NearOrNewer`). So
they are at most `2 * Limit - 2` different edits (`OwnWikiBetween`, an injection into an
interval without its middle), and the rest are of other wikis. With the 50 and 2000 of
the code that is 1902 edits of enwiki or more before an edit of ruwiki that is still
listed comes again, and one wiki alone never repeats one in a life of the process.

**`TopicMatcher_proofs`**, for any rules with confidences in thousandths.
`SeededEditsPublished` needs that a topic the handler has passed waits among its
matches or was announced (`SeedsCarried`), and that the scores never put a seed below
950 thousandths whatever the categories add or a cache holds. `PublishedIsMember`
needs that the upsert keeps the larger relevance (`Stored`). `ConfirmedSticks` needs
that the rules' own confirmations carry the relevance they were made with
(`ConfirmedByRule`) and that no match in hand demotes one (`MatchesByRule`).

**`ReadModel_proofs`.** `CommittedIsAnnounced` follows the update in hand through the
awaits of its handler (`CarriesUpdate`): what it wrote is in the row, then in what
was read, then in the topic, unless it was deleted; so what was read of the log is
announced, failed or deleted (`ReadIsAnnounced`). `DrainedReadsAreCurrent` is about a
moment when nothing is under way; `QuietIsCurrent` says of each store from which await
on it has the last update, and includes that the handler of another article of the
topic may have read before. `RowRegressesOnlyBehindLog` needs where a row can come
from (`RowKnown`). Of the topic score: the weighted sum stays within 0 and 100 without
the clamp (`ClampIsIdle`), does not fall when a count grows (`ScoreIsMonotonic`), and
the rounded score shown agrees with the status at each threshold
(`ShownScoreAgreesWithStatus`).

**`Realtime_proofs`.** `CurrentUnlessExcused` is about a page that has nothing under
way. `Current` says it of every page and stream that has settled, for which one must
know that what the connection carries is in order and ends with what was last sent
(`Underway`), that a page joins after it has loaded (`Joined`, `LoadedFirst`), and that
one REST call is in progress at a time (`Asking`). `MessagesGoForward` needs `Forward`:
a member shows what it loaded or is behind everything under way to it. Proving it found
a case no run had reached (an answer of REST read between two messages), after which
the history `loaded` and the run's third update were added.

**`PipelineMetrics_proofs`.** `HealthyWasDrained` needs that the lag a request shows
covers what each partition owed when the committed offsets were read (`Owing`,
`Covering`): partitions are asked later, and ends only grow. `MessagesCountedOnce`
compares sums over partitions taken at different moments. Such a sum is a function on
the first n partitions (`SumsTo`), so no induction over data is needed: the sample is
the last value of one (`Sampled`), and a request that is not overlapped is ahead of it
at each partition it has asked and will be at the rest (`NotBehind`), because nobody
else samples meanwhile (`Alone`).

**`ReconnectModal_proofs`** holds for any number of calls at once, clicks and outages.
`ReloadIsLastResort` (the action property `ReloadLosesNoSession`) needs that a call
that resumes is made for a circuit that is no longer alive, which is true of one
call at a time. `IInv` therefore adds to `TypeOK` that, until a button is pressed
during a call, there is one call at most, that a listener waits only where none is
under way and that what is under way fits the class of the dialog (`Single`), and
that a session being resumed is stored or gone (`ResumesStored`). `DialogTellsTruth`
is `TypeOK`, inductive by itself.

Only model-checked is

* liveness, which rests on fairness and ENABLED: `EveryRecordSettles`,
  `EveryEditPublishedOrDropped`, `Converges`, `MembersCatchUp`, `Recovers`, and the
  fairness part of the detector's `ImplementsLoop`.

Every safety property of a passing run is also a theorem.

## 5. What is not modelled, and why

* Participant statistics and evidence texts, which are display.
* Alerts (no page registers a handler), the hub's Leave methods (no page calls
  them), sorting and the activity chart of the pages; that a callback changes
  the list of articles on another thread than the one that renders it.
* The minutes a rate is divided by; REST proxying, which is stateless.
* Blazor's client and server are external to `ReconnectModal`: that a paused
  circuit is announced by "show", that "rejected" reloads at once, that a resumed one
  is announced by "hide" (`resume` does not close the dialog itself), and when a call
  throws are taken from the script and its comments.
* A consumer that lost its partition and was given it back in the background, before it
  commits what it consumed first: the loop registers no rebalance handlers, and the
  models take every commit of a process that is not the owner as refused.
* Retention of edits and edges, which at most the activity query reads, and of old
  candidates, whose row the next edit of the page writes anew.
* Display limits of the read model (lists of 30 and 50), list endpoints and the
  hourly activity SQL: read-only.
* `EnableAutoCommit = true`: no deployment sets it.
* Anonymous edits: the API call asks for `!anon`, they never enter the system.
* Text normalisation, titles and wording; the tags MediaWiki adds to an edit
  after it was read; page deletions.
* `InMemory*` and `Noop*` implementations, which serve tests; logging; DDL.

## 6. Plan

Written, in this order: `ConsumerLoop` with its contract and proofs,
`ArticleState` and `ConflictDetector`, `Collector`, `TopicScore` and `ReadModel`,
`TopicMatcher`, `ArticleScore` and `Scoring`, `Realtime`, `ReconnectModal` with its
proofs, `PipelineMetrics`, retention in `ReadModel`, and the proofs about all of them.

Next, to model:

1. `ReadModel` with two aggregators, and article keys without the wiki.
2. `Pipeline`: matcher and detector on one page, composed over the matched
   edits' log.
3. An abstract specification of a live page that `Realtime` implements.
4. Old candidates deleted while the matcher holds what it read of them.

Nothing is left to prove of the safety the runs check. What liveness rests on, fairness
and ENABLED, is beyond the prover.
