-------------------------- MODULE ConflictDetector --------------------------
(***************************************************************************)
(* ThreeRevertWatch.ConflictDetector on one article: the worker of         *)
(* Workers/ConflictDetectorWorker.cs run by the consumer loop on the       *)
(* partition of wiki.topic-matched-edits that carries the article, its     *)
(* in-memory article state (lost with the process), the transaction of     *)
(* Persistence/PostgresArticleConflictRepository.cs and the update it      *)
(* produces to wiki.article-conflict-updates.                              *)
(*                                                                         *)
(* Each action of the loop (ConsumerLoop) is taken with what the handler   *)
(* does in it.  The wiki and the two services upstream are external: they  *)
(* save a revision and publish it once, in order (SaveRevision), or        *)
(* publish an old one again (Replay: the Collector restarted with an empty *)
(* _seen set, or the TopicMatcher was redelivered a raw edit).             *)
(***************************************************************************)
EXTENDS Scoring

CONSTANTS
    Processes,      \* detector processes of the consumer group
    Nobody,
    Users, Shas,    \* who edits, and the contents a page can have
    SignalSets,     \* the signal sets an edit may carry
    MaxRevisions,   \* bound: revisions saved on the page
    MaxReplays,     \* bound: matched edits published again
    MaxFaults,      \* bound: failures, crashes, rebalances
    MaxOutages      \* bound: failed calls of the revision API

ASSUME NoShaAssumption == NoSha \notin Shas
ASSUME SignalsAssumption == SignalSets \subseteq SUBSET Signals
ASSUME ProcessesAssumption == IsFiniteSet(Processes) /\ Nobody \notin Processes
ASSUME UsersAssumption == IsFiniteSet(Users)
ASSUME BoundsAssumption ==
    MaxRevisions \in Nat /\ MaxReplays \in Nat /\ MaxFaults \in Nat

VARIABLES
    page,           \* the wiki: revisions of the page, by id
    log,            \* the partition: revision ids of matched edits
    committed, owner, pc, position, handled, failed, faults,    \* ConsumerLoop
    stage,          \* process: where the handler stands
    revision,       \* process: what ResolveRevision returned
    work,           \* process: the classified edit and its new edges
    memory,         \* process: ArticleRuntimeState
    applied,        \* history: revision ids applied since the process started
    outages,        \* number of failed calls of the revision API
    unfetched,      \* history: those of them resolved without the revision API
    editRows,       \* Postgres classified_edits
    edgeRows,       \* Postgres revert_edges
    snapshotRow,    \* Postgres article_conflict_snapshots
    updates         \* wiki.article-conflict-updates: the ids of the edits

loopVars == <<committed, owner, pc, position, handled, failed, faults>>
handlerVars == <<stage, revision, work>>
stateVars == <<memory, applied, unfetched>>
tables == <<editRows, edgeRows, snapshotRow>>
vars == <<page, log, outages, loopVars, handlerVars, stateVars, tables, updates>>

Loop == INSTANCE ConsumerLoop WITH
            Consumers <- Processes, MaxRecords <- MaxRevisions + MaxReplays,
            logEnd <- Len(log), malformed <- {}

None == [id |-> 0]
NoWork == [edit |-> None, edges |-> <<>>]

\* A snapshot is computed from the edits and the edges of the state and from
\* nothing else (BuildSnapshot below), and the row is represented by those.
Snapshot(mem) == [edits |-> mem.edits, edges |-> mem.edges]

\* What the snapshot says of the article.  The latest edit is the last of the
\* state, so scorer and calculator measure their windows from one instant; the
\* lists are cut and sorted for display only.
BuildSnapshot(mem) ==
    LET score == Calculate(CountsOf(mem))
        risk == HasThreeRevertRisk(mem.edits)
    IN  [score |-> score, status |-> StatusFor(score, risk), threeRevertRisk |-> risk,
         clusters |-> Infer(mem.edges)]

Init ==
    /\ page = <<>> /\ log = <<>> /\ outages = 0
    /\ Loop!Init
    /\ stage = [p \in Processes |-> "idle"]
    /\ revision = [p \in Processes |-> None]
    /\ work = [p \in Processes |-> NoWork]
    /\ memory = [p \in Processes |-> EmptyMemory]
    /\ applied = [p \in Processes |-> <<>>]
    /\ unfetched = [p \in Processes |-> {}]
    /\ editRows = <<>> /\ edgeRows = <<>>
    /\ snapshotRow = Snapshot(EmptyMemory)
    /\ updates = <<>>

---------------------------------------------------------------------------
(* Upstream.                                                               *)

\* MediaWiki saves a revision only if it changes the page.
SaveRevision(u, s, signals) ==
    /\ Len(page) < MaxRevisions
    /\ page # <<>> => page[Len(page)].sha # s
    /\ LET id == Len(page) + 1
       IN  /\ page' = Append(page, [id |-> id, user |-> u, sha |-> s,
                                    time |-> id, signals |-> signals])
           /\ log' = Append(log, id)
    /\ Loop!Append
    /\ UNCHANGED <<outages, handlerVars, stateVars, tables, updates>>

Replay(id) ==
    /\ id \in ToSet(log)
    /\ Len(log) < Len(page) + MaxReplays
    /\ log' = Append(log, id)
    /\ Loop!Append
    /\ UNCHANGED <<page, outages, handlerVars, stateVars, tables, updates>>

---------------------------------------------------------------------------
(* The handler.                                                            *)

Goto(p, place) == stage' = [stage EXCEPT ![p] = place]

\* The handler of p ends, returning or throwing; its locals are gone.
Leave(p) ==
    /\ Goto(p, "idle")
    /\ revision' = [revision EXCEPT ![p] = None]
    /\ work' = [work EXCEPT ![p] = NoWork]

Consume(p) ==
    /\ UNCHANGED log
    /\ Loop!Consume(p)
    /\ Goto(p, "resolve")
    /\ UNCHANGED <<page, outages, revision, work, stateVars, tables, updates>>

\* The record in hand, as the matcher published it.
RawEdit(p) == page[log[position[p]]]

\* Mutant: the revision API is asked for the page, not for the revision.
ResolveLatest(p) ==
    /\ stage[p] = "resolve"
    /\ revision' = [revision EXCEPT ![p] = page[Len(page)]]
    /\ Goto(p, "apply")
    /\ UNCHANGED <<page, log, outages, loopVars, work, stateVars, tables, updates>>

ResolveRevision(p) ==
    /\ stage[p] = "resolve"
    /\ revision' = [revision EXCEPT ![p] = RawEdit(p)]
    /\ Goto(p, "apply")
    /\ UNCHANGED <<page, log, outages, loopVars, work, stateVars, tables, updates>>

\* The revision API failed: fall back to the raw edit, which has no sha1.
ResolveFallsBack(p) ==
    /\ stage[p] = "resolve"
    /\ outages < MaxOutages
    /\ outages' = outages + 1
    /\ revision' = [revision EXCEPT ![p] = [RawEdit(p) EXCEPT !.sha = NoSha]]
    /\ unfetched' = [unfetched EXCEPT ![p] = @ \cup {RawEdit(p).id}]
    /\ Goto(p, "apply")
    /\ UNCHANGED <<page, log, loopVars, work, memory, applied, tables, updates>>

\* Classify, Apply and BuildSnapshot run without an await in between.
ClassifyAndApply(p) ==
    /\ stage[p] = "apply"
    /\ \E rev \in {revision[p]} : \E edit \in {Classify(rev, memory[p])} :
           /\ work' = [work EXCEPT ![p] =
                          [edit |-> edit, edges |-> NewEdges(edit, memory[p].revisions)]]
           /\ memory' = [memory EXCEPT ![p] = Apply(@, rev, edit)]
           /\ applied' = [applied EXCEPT ![p] = Append(@, rev.id)]
    /\ Goto(p, "save")
    /\ UNCHANGED <<page, log, outages, loopVars, revision, unfetched, tables, updates>>

\* One transaction: the edit, its edges and the snapshot, all or nothing.
Persist(p) ==
    /\ editRows' = Append(editRows, work[p].edit)
    /\ edgeRows' = edgeRows \o work[p].edges
    /\ snapshotRow' = Snapshot(memory[p])

Save(p) ==
    /\ stage[p] = "save"
    /\ Persist(p)
    /\ Goto(p, "publish")
    /\ UNCHANGED <<page, log, outages, loopVars, revision, work, stateVars, updates>>

\* Mutant: the repository swallows the exception.
SaveThrowsSwallowed(p) ==
    /\ stage[p] = "save"
    /\ Persist(p) \/ UNCHANGED tables
    /\ Goto(p, "publish")
    /\ UNCHANGED <<page, log, outages, loopVars, revision, work, stateVars, updates>>

\* SaveAsync throws; when only the acknowledgement was lost the rows are there.
SaveThrows(p) ==
    /\ stage[p] = "save"
    /\ UNCHANGED log
    /\ Loop!HandlerThrows(p)
    /\ Persist(p) \/ UNCHANGED tables
    /\ Leave(p)
    /\ UNCHANGED <<page, outages, stateVars, updates>>

Update(p) == work[p].edit.id

\* Mutant: the loop goes on to the next record without Commit.
PublishWithoutCommit(p) ==
    /\ stage[p] = "publish"
    /\ pc' = [pc EXCEPT ![p] = "poll"]
    /\ handled' = handled \cup {position[p] - 1}
    /\ updates' = Append(updates, Update(p))
    /\ Leave(p)
    /\ UNCHANGED <<page, log, outages, committed, owner, position, failed, faults,
                   stateVars, tables>>

Publish(p) ==
    /\ stage[p] = "publish"
    /\ UNCHANGED log
    /\ Loop!HandlerReturns(p)
    /\ updates' = Append(updates, Update(p))
    /\ Leave(p)
    /\ UNCHANGED <<page, outages, stateVars, tables>>

\* Mutant: the producer swallows the exception.
PublishThrowsSwallowed(p) ==
    /\ stage[p] = "publish"
    /\ UNCHANGED log
    /\ Loop!HandlerReturns(p)
    /\ updates' \in {updates, Append(updates, Update(p))}
    /\ Leave(p)
    /\ UNCHANGED <<page, outages, stateVars, tables>>

\* ProduceAsync throws; the broker may have the update all the same.
PublishThrows(p) ==
    /\ stage[p] = "publish"
    /\ UNCHANGED log
    /\ Loop!HandlerThrows(p)
    /\ updates' \in {updates, Append(updates, Update(p))}
    /\ Leave(p)
    /\ UNCHANGED <<page, outages, stateVars, tables>>

---------------------------------------------------------------------------
(* The rest of the loop, and the life of the process.                      *)

CommitOffset(p) ==
    /\ UNCHANGED <<page, log, outages, handlerVars, stateVars, tables, updates>>
    /\ Loop!Commit(p) \/ Loop!CommitThrows(p) \/ Loop!CommitFenced(p)

Membership(p) ==
    /\ UNCHANGED <<page, log, outages, handlerVars, stateVars, tables, updates>>
    /\ Loop!Assign(p) \/ Loop!Revoke(p) \/ Loop!Expire(p) \/ Loop!Restart(p)

\* The article state lives in the process and is never reloaded.
Die(p) ==
    /\ UNCHANGED log
    /\ Loop!Stop(p) \/ Loop!Crash(p)
    /\ Leave(p)
    /\ memory' = [memory EXCEPT ![p] = EmptyMemory]
    /\ applied' = [applied EXCEPT ![p] = <<>>]
    /\ unfetched' = [unfetched EXCEPT ![p] = {}]
    /\ UNCHANGED <<page, outages, tables, updates>>

Handle(p) ==
    \/ ResolveRevision(p)
    \/ ResolveFallsBack(p)
    \/ ClassifyAndApply(p)
    \/ Save(p)
    \/ SaveThrows(p)
    \/ Publish(p)
    \/ PublishThrows(p)

Upstream ==
    \/ \E u \in Users, s \in Shas, signals \in SignalSets : SaveRevision(u, s, signals)
    \/ \E id \in 1 .. Len(page) : Replay(id)

Next ==
    \/ Upstream
    \/ \E p \in Processes :
        Consume(p) \/ Handle(p) \/ CommitOffset(p) \/ Membership(p) \/ Die(p)

Spec == Init /\ [][Next]_vars

\* The loop goes on, a free partition is assigned, dead processes come back.
Fairness ==
    \A p \in Processes :
        /\ WF_vars(Consume(p) \/ Handle(p) \/ CommitOffset(p))
        /\ WF_vars(Membership(p))

FairSpec == Spec /\ Fairness

---------------------------------------------------------------------------
(* Properties.                                                             *)

Ids(rows) == {rows[i].id : i \in DOMAIN rows}
Copies(seq, id) == Cardinality({i \in DOMAIN seq : seq[i] = id})

TypeOK ==
    /\ Loop!TypeOK
    /\ stage \in [Processes -> {"idle", "resolve", "apply", "save", "publish"}]
    /\ \A p \in Processes :
        /\ stage[p] # "idle" <=> pc[p] = "handle"
        /\ stage[p] \in {"apply", "save", "publish"} => revision[p].id = RawEdit(p).id
        /\ stage[p] \in {"save", "publish"} => work[p].edit.id = RawEdit(p).id
    /\ Ids(editRows) \cup ToSet(updates) \subseteq ToSet(log)

\* What the process has applied since it started arrived in page order.
InOrder(p) == \A i \in 1 .. Len(applied[p]) - 1 : applied[p][i] < applied[p][i + 1]

\* A later revision of the page undid an earlier one of somebody else: it
\* restored a content older than that.
Undid(later, earlier) ==
    /\ earlier < later
    /\ page[later].user # page[earlier].user
    /\ \E old \in 1 .. earlier - 1 : page[old].sha = page[later].sha

\* An edge says the truth about the page.
EdgeSound(p, e) ==
    /\ page[e.from].user = e.fromUser /\ page[e.to].user = e.toUser
    /\ Undid(e.from, e.to)
    /\ page[e.to].sha = page[e.from].sha => e.to \in unfetched[p]

\* As long as a process applied its edits in page order, once each, every edge
\* it remembers is true of the page; crashes, failed calls and gaps in what it
\* was given do not matter (SHA1 lookup against the bounded windows).
RevertEdgesSound ==
    \A p \in Processes : InOrder(p) =>
        \A i \in DOMAIN memory[p].edges : EdgeSound(p, memory[p].edges[i])

\* Three different reverts of one participant within a day.
ThreeReverts(edits) ==
    \E i, j, k \in DOMAIN edits :
        LET three == {edits[i], edits[j], edits[k]}
        IN  /\ Cardinality({e.id : e \in three}) = ThreeRevertLimit
            /\ \A e, f \in three : e.user = f.user /\ e.time - f.time <= Day
            /\ \A e \in three : e.action = "ExactRevert"

\* Under the same condition the three-revert risk is never a false alarm.
ThreeRevertRiskSound ==
    \A p \in Processes : InOrder(p) =>
        (HasThreeRevertRisk(memory[p].edits) => ThreeReverts(memory[p].edits))

\* What a cluster says is true of the page: each of its users undid a revision
\* of its target, who is the other side of a pair that reverted each other, or
\* the one whom two users or more reverted.
ClusterClaimsTrue ==
    \A p \in Processes : InOrder(p) =>
        \A c \in ToSet(BuildSnapshot(memory[p]).clusters) : \A u \in c.users, v \in c.target :
            \E r, s \in DOMAIN page :
                page[r].user = u /\ page[s].user = v /\ Undid(r, s)

\* The single pass over the edges counts the pairs of users that reverted each
\* other, however often and in whatever order.
ReciprocalPairsExact ==
    \A p \in Processes : memory[p].edits # <<>> =>
        LET edges == ToSet(Recent(memory[p].edges, memory[p].edits, Day))
            Reverted(u, v) == \E e \in edges : e.fromUser = u /\ e.toUser = v
        IN  CountsOf(memory[p]).pairs =
                Cardinality({pair \in SUBSET Users :
                    /\ Cardinality(pair) = 2
                    /\ \A u, v \in pair : u # v => Reverted(u, v)})

\* An edit that is no cleanup never lowers the score of its article, unless an edit
\* or an edge leaves a window, and edges, which outnumber edits, may leave theirs
\* first.  The penalty is a share of the reverts, and falls when they grow.
ScoreFallsOnlyByExpiryOrCleanup ==
    [][\A p \in Processes :
        LET old == memory[p].edits
            new == memory'[p].edits
            Kept(age) == IsPrefix(Recent(old, old, age), Recent(new, new, age))
            score == BuildSnapshot(memory[p]).score
            then == BuildSnapshot(memory'[p]).score
        IN  /\ stage[p] = "apply" /\ stage'[p] = "save" /\ old # <<>>
            /\ work'[p].edit.action \notin CleanupActions
            /\ Kept(SixHours) /\ Kept(Day)
            /\ IsPrefix(Recent(memory[p].edges, old, Day), Recent(memory'[p].edges, new, Day))
            => score.num * then.den <= then.num * score.den]_vars

\* Reference definition of a revert, over the page instead of the windows: who
\* edited between the last of the RecentRevisionWindow revisions applied before
\* that has the content of the edit just applied, and that edit.
UndoneUsers(p) ==
    LET n == Len(applied[p])
        Fetched(i) == applied[p][i] \notin unfetched[p]
        Sha(i) == page[applied[p][i]].sha
        same == {i \in 1 .. n - 1 :
                    /\ i >= n - RecentRevisionWindow
                    /\ Fetched(i) /\ Fetched(n) /\ Sha(i) = Sha(n)}
    IN  {page[applied[p][j]].user :
            j \in {k \in 1 .. n - 1 : same # {} /\ \A i \in same : i < k}}

\* An edit of no bot is classified as a revert of others exactly when it undid
\* somebody else, or its comment or tags say so and it did not just undo its
\* own author, which makes it a self-revert whatever the comment says.
RevertsClassified ==
    \A p \in Processes : stage[p] = "save" /\ InOrder(p) =>
        LET edit == work[p].edit
            signals == revision[p].signals
            undone == UndoneUsers(p)
            self == undone = {edit.user} /\ "bot" \notin signals
        IN  /\ edit.action = "SelfRevert" <=> self
            /\ edit.action \in NonSelfReverts <=>
                    /\ ~self /\ "bot" \notin signals
                    /\ undone # {} \/ "revert" \in signals

\* Every published update was persisted first, once per publication, even when
\* handlers fail half-way and edits are redelivered.
PublishedOnlyPersisted ==
    \A id \in ToSet(updates) :
        Copies(updates, id) <= Copies([i \in DOMAIN editRows |-> editRows[i].id], id)

\* An offset the group has passed was persisted and published, or its handler
\* threw: no crash between Save, Publish and Commit loses an edit.
CommittedIsPublished ==
    \A o \in 0 .. committed - 1 :
        o \in failed \/ log[o + 1] \in Ids(editRows) \cap ToSet(updates)

\* The snapshot row drops an edit only when the window is full or the process
\* that writes it never applied the edit (it restarted, or another one did).
SnapshotForgetsOnlyUnknown ==
    [][\A p \in Processes :
          stage[p] = "save" /\ stage'[p] # "save" /\ snapshotRow' # snapshotRow =>
          \A id \in Ids(snapshotRow.edits) \ Ids(snapshotRow'.edits) :
              \/ id \notin ToSet(applied[p])
              \/ Len(memory[p].edits) = RecentEditWindow]_vars

\* The worker is an instance of the consumer loop, fairness included.
ImplementsLoop == Loop!FairSpec

\* BuildEvidence: at least one participant made 3+ reverts in 24h.
ThreeRevertEvidenceTrue ==
    BuildSnapshot(snapshotRow).threeRevertRisk => ThreeReverts(snapshotRow.edits)
=============================================================================
