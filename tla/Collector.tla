----------------------------- MODULE Collector -----------------------------
(***************************************************************************)
(* ThreeRevertWatch.Collector: the polling worker of                       *)
(* Workers/RecentChangesCollectorWorker.cs with its bounded memory of      *)
(* edits it has seen, reading the newest changes of each wiki              *)
(* (Wikipedia/WikipediaRecentChangesClient.cs) and producing them to       *)
(* wiki.raw-edits.  The edits of a wiki are numbered in the order the wiki *)
(* saved them.                                                             *)
(***************************************************************************)
EXTENDS Integers, Sequences, SequencesExt

CONSTANTS
    Wikis,
    Polled,         \* CollectorOptions.Wikis in its order; may name a wiki twice
    Limit,          \* RecentChangesLimit (50)
    Capacity,       \* edits remembered, over all wikis (2000)
    TimeSteps,      \* seconds that may pass between two edits
    MaxEdits,       \* bound: edits saved on a wiki
    MaxSaved,       \* bound: edits saved on all wikis
    MaxFaults       \* bound: failed calls and crashes

ASSUME CollectorAssumption ==
    /\ Polled \in Seq(Wikis) /\ Polled # <<>> /\ Wikis = ToSet(Polled)
    /\ Limit \in Nat \ {0} /\ Capacity \in Nat \ {0}
    /\ TimeSteps \subseteq Nat /\ MaxEdits \in Nat /\ MaxSaved \in Nat /\ MaxFaults \in Nat

VARIABLES
    changes,        \* the wikis: timestamps of the saved edits, the first being 0
    pc, at,         \* the worker: where it stands, and at which of Polled
    batch,          \* the worker: edits fetched and not yet looked at
    seen,           \* the worker: _seenOrder; _seen is the set of its elements
    published,      \* wiki.raw-edits
    dropped,        \* history: edits whose ProduceAsync threw
    taken,          \* history: edits given to ProduceAsync since the process started
    faults

workerVars == <<pc, at, batch, seen>>
vars == <<changes, workerVars, published, dropped, taken, faults>>

Init ==
    /\ changes = [w \in Wikis |-> <<>>]
    /\ pc = "poll" /\ at = 1 /\ batch = <<>> /\ seen = <<>>
    /\ published = <<>> /\ dropped = {}
    /\ taken = <<>> /\ faults = 0

Edits == Wikis \X (1 .. MaxEdits)
Saved(e) == e[2] <= Len(changes[e[1]])

Fault ==
    /\ faults < MaxFaults
    /\ faults' = faults + 1

\* External: a page of the wiki is edited.
SaveEdit(w, step) ==
    /\ Len(changes[w]) < MaxEdits
    /\ Cardinality({e \in Edits : Saved(e)}) < MaxSaved
    /\ LET now == IF changes[w] = <<>> THEN 0 ELSE Last(changes[w]) + step
       IN  changes' = [changes EXCEPT ![w] = Append(@, now)]
    /\ UNCHANGED <<workerVars, published, dropped, taken, faults>>

Here == Polled[at]

---------------------------------------------------------------------------
\* The newest Limit edits of the wiki.
Listed(w) ==
    LET saved == Len(changes[w])
    IN  {i \in 1 .. saved : i > saved - Limit}

\* OrderBy(Timestamp) is stable and the API lists the newest edits first, so edits
\* of the same second stay in that order.
Before(w, i, j) ==
    \/ changes[w][i] < changes[w][j]
    \/ changes[w][i] = changes[w][j] /\ i > j

\* Mutant of RecentChanges: the edits in the order the API lists them.
RecentChangesAsListed(w) ==
    {b \in [1 .. Cardinality(Listed(w)) -> Listed(w)] :
        ToSet(b) = Listed(w) /\ \A i, j \in DOMAIN b : i < j => b[i] > b[j]}

\* The listing sorted: the one order of its edits in which each is before the next.
RecentChanges(w) ==
    {b \in [1 .. Cardinality(Listed(w)) -> Listed(w)] :
        ToSet(b) = Listed(w) /\ \A i, j \in DOMAIN b : i < j => Before(w, b[i], b[j])}

\* foreach over the wikis, then Task.Delay.
NextWiki ==
    /\ batch' = <<>>
    /\ IF at < Len(Polled)
       THEN at' = at + 1 /\ pc' = "poll"
       ELSE at' = 1 /\ pc' = "delay"

Fetch ==
    /\ pc = "poll"
    /\ batch' \in RecentChanges(Here)
    /\ pc' = "publish"
    /\ UNCHANGED <<changes, at, seen, published, dropped, taken, faults>>

\* The poll is caught and given up; the loop goes on with the next wiki.
FetchFails ==
    /\ pc = "poll"
    /\ Fault
    /\ NextWiki
    /\ UNCHANGED <<changes, seen, published, dropped, taken>>

Current == <<Here, Head(batch)>>

\* Mutant of Remember: the memory is emptied when it is full.
RememberAfterClear(edit) ==
    seen' = IF Len(seen) < Capacity THEN Append(seen, edit) ELSE <<edit>>

\* Mutant of Remember: one edit too many is kept.
RememberOneMore(edit) ==
    seen' = IF Len(seen) <= Capacity THEN Append(seen, edit) ELSE Append(Tail(seen), edit)

\* Remember(edit): the oldest key goes when there are more than Capacity.
Remember(edit) ==
    seen' = IF Len(seen) < Capacity THEN Append(seen, edit) ELSE Append(Tail(seen), edit)

\* Mutant of SkipSeen: an edit seen before ends the batch.
SkipSeenBreaks ==
    /\ pc = "publish" /\ batch # <<>>
    /\ Current \in ToSet(seen)
    /\ batch' = <<>>
    /\ UNCHANGED <<changes, pc, at, seen, published, dropped, taken, faults>>

SkipSeen ==
    /\ pc = "publish" /\ batch # <<>>
    /\ Current \in ToSet(seen)
    /\ batch' = Tail(batch)
    /\ UNCHANGED <<changes, pc, at, seen, published, dropped, taken, faults>>

Publish ==
    /\ pc = "publish" /\ batch # <<>>
    /\ Current \notin ToSet(seen)
    /\ Remember(Current)
    /\ taken' = Append(taken, Current)
    /\ published' = Append(published, Current)
    /\ batch' = Tail(batch)
    /\ UNCHANGED <<changes, pc, at, dropped, faults>>

\* The edit is remembered before ProduceAsync throws, and the rest of the batch
\* is given up.  The broker may have the edit all the same.
PublishThrows ==
    /\ pc = "publish" /\ batch # <<>>
    /\ Current \notin ToSet(seen)
    /\ Fault
    /\ Remember(Current)
    /\ taken' = Append(taken, Current)
    /\ published' \in {published, Append(published, Current)}
    /\ dropped' = dropped \cup {Current}
    /\ NextWiki
    /\ UNCHANGED changes

BatchDone ==
    /\ pc = "publish" /\ batch = <<>>
    /\ NextWiki
    /\ UNCHANGED <<changes, seen, published, dropped, taken, faults>>

DelayOver ==
    /\ pc = "delay"
    /\ pc' = "poll"
    /\ UNCHANGED <<changes, at, batch, seen, published, dropped, taken, faults>>

\* The process dies or is stopped; _seen goes with it.
Crash ==
    /\ pc # "down"
    /\ Fault
    /\ pc' = "down" /\ at' = 1 /\ batch' = <<>> /\ seen' = <<>>
    /\ taken' = <<>>
    /\ UNCHANGED <<changes, published, dropped>>

Restart ==
    /\ pc = "down"
    /\ pc' = "poll"
    /\ UNCHANGED <<changes, at, batch, seen, published, dropped, taken, faults>>

Worker ==
    \/ Fetch \/ FetchFails \/ SkipSeen \/ Publish \/ PublishThrows \/ BatchDone
    \/ DelayOver

Next ==
    \/ \E w \in Wikis, step \in TimeSteps : SaveEdit(w, step)
    \/ Worker
    \/ Crash
    \/ Restart

Spec == Init /\ [][Next]_vars

\* The worker loops forever and its container is restarted; HttpClient and the
\* producer time out.
Fairness == WF_vars(Worker) /\ WF_vars(Restart)

FairSpec == Spec /\ Fairness

---------------------------------------------------------------------------
(* Properties.                                                             *)

TimeOf(e) == changes[e[1]][e[2]]
\* The edit has left the newest Limit changes of its wiki.
ScrolledOff(e) == Len(changes[e[1]]) >= e[2] + Limit

TypeOK ==
    /\ pc \in {"poll", "publish", "delay", "down"}
    /\ at \in DOMAIN Polled
    /\ batch \in Seq(1 .. Len(changes[Here]))
    /\ ToSet(taken) \cup ToSet(published) \cup dropped \subseteq {e \in Edits : Saved(e)}
    /\ Len(seen) <= Capacity
    /\ seen = SubSeq(taken, Len(taken) - Len(seen) + 1, Len(taken))
    /\ IsInjective(seen)            \* HashSet and Queue agree

\* The wikis share the memory.  In one life of the process an edit is given to
\* ProduceAsync again only after so many edits of other wikis that they alone
\* pushed its key out: 2 * Limit - 2 edits of its own wiki at most are between,
\* also when edits of one second enter the queue newest first.  So with one wiki
\* and a memory of 2 * Limit - 1 edits it is never given again.
TakenAgainOnlyAfterOthers ==
    \A i, j \in DOMAIN taken : i < j /\ taken[i] = taken[j] =>
        Cardinality({k \in i .. j : taken[k][1] # taken[i][1]}) >= Capacity - (2 * Limit - 2)

\* The edits of a wiki are first published in timestamp order, whatever polls
\* fail half-way and whenever the process restarts, except an edit that was
\* remembered before its ProduceAsync threw: where several wikis share the
\* memory it comes back after its eviction.
FirstPublishedInTimeOrder ==
    [][\A e \in ToSet(published') \ ToSet(published), f \in ToSet(published) :
          e[1] = f[1] /\ TimeOf(e) < TimeOf(f) => e \in dropped]_vars

\* An edit is published, unless it scrolls out of the listing before the worker
\* reads it, or its ProduceAsync threw.
EveryEditPublishedOrDropped ==
    \A e \in Edits : Saved(e) ~>
        (e \in ToSet(published) \/ ScrolledOff(e) \/ e \in dropped)

\* DATAFLOW.md: the collector reads recent changes and emits them.  An edit
\* that stays in the listing is published.
EveryListedEditPublished ==
    \A e \in Edits : Saved(e) ~> (e \in ToSet(published) \/ ScrolledOff(e))
=============================================================================
