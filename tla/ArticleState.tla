---------------------------- MODULE ArticleState ----------------------------
(***************************************************************************)
(* The pure part of ThreeRevertWatch.ConflictDetector: how one matched     *)
(* edit is classified against the runtime state of its article             *)
(* (Classification/ExplainableEditClassifier.cs) and how that state        *)
(* absorbs it (State/ArticleRuntimeState.cs).                              *)
(*                                                                         *)
(* Text is abstracted to what the regular expressions see in it: a         *)
(* revision carries the set of signals its user name, comment, tags and    *)
(* title match.  Users stand for user names up to case, which is how every *)
(* comparison in the code reads them.                                      *)
(*                                                                         *)
(*   revision  [id, user, sha, time, signals]     RevisionDetails          *)
(*   edit      [id, user, time, action, reverted] ClassifiedEditDto        *)
(*   edge      [fromUser, toUser, from, to, time] RevertEdgeDto            *)
(*   memory    [revisions, edits, edges]          ArticleRuntimeState      *)
(***************************************************************************)
EXTENDS Integers, Sequences, FiniteSets, SequencesExt

CONSTANTS
    NoSha,                  \* the revision was not fetched: Sha1 is null
    RecentRevisionWindow,   \* RecentRevisionWindowSize (50)
    RecentEditWindow        \* RecentEditWindowSize (100)

ASSUME WindowAssumption ==
    RecentRevisionWindow \in Int /\ RecentEditWindow \in Int

Signals == {"bot", "revert", "vandalism", "spam", "copyvio", "maintenance", "talk"}

CleanupActions == {"VandalismCleanup", "SpamCleanup", "CopyvioCleanup"}
NonSelfReverts == {"ExactRevert"} \cup CleanupActions
Actions == NonSelfReverts \cup
    {"BotEdit", "SelfRevert", "MaintenanceEdit", "TalkPageCoordination", "OrdinaryEdit"}

EmptyMemory == [revisions |-> <<>>, edits |-> <<>>, edges |-> <<>>]

\* The elements at some indices, in their order: the k-th is the one that has k of
\* the indices up to its own.
Picked(seq, indices) ==
    LET At(k) == CHOOSE i \in indices : Cardinality({j \in indices : j <= i}) = k
    IN  [k \in 1 .. Cardinality(indices) |-> seq[At(k)]]

\* Linq's Where.
Where(seq, Test(_)) == Picked(seq, {i \in DOMAIN seq : Test(seq[i])})

\* Mutant: >= in the loop of Trim.
TrimToLess(values, maxCount) ==
    IF maxCount <= 0 \/ Len(values) < maxCount
    THEN values
    ELSE SubSeq(values, Len(values) - maxCount + 2, Len(values))

\* Oldest elements first; a window of 0 or less keeps everything.
Trim(values, maxCount) ==
    IF maxCount <= 0 \/ Len(values) <= maxCount
    THEN values
    ELSE SubSeq(values, Len(values) - maxCount + 1, Len(values))

\* OrderBy(Timestamp) is stable: equal timestamps keep their arrival order, and
\* the k-th is the revision that has k - 1 before it.
OrderedByTime(revisions) ==
    LET Before(i) == {j \in DOMAIN revisions :
            \/ revisions[j].time < revisions[i].time
            \/ revisions[j].time = revisions[i].time /\ j < i}
        At(k) == CHOOSE i \in DOMAIN revisions : Cardinality(Before(i)) = k - 1
    IN  [k \in DOMAIN revisions |-> revisions[At(k)]]

\* Mutant: Skip(fromIndex), the restored revision counts as reverted.
FindRevisionsFrom(revisions, revertedTo, current) ==
    LET ordered == OrderedByTime(revisions)
        from == SelectInSeq(ordered, LAMBDA r : r.id = revertedTo)
    IN  IF from = 0
        THEN <<>>
        ELSE Where(SubSeq(ordered, from, Len(ordered)), LAMBDA r : r.id # current)

\* Everything that follows the first copy of revertedTo in time order, but for
\* the copies of the current revision.  There is no upper bound: a revision
\* newer than the current one is "between" too.
FindRevisionsBetween(revisions, revertedTo, current) ==
    LET ordered == OrderedByTime(revisions)
        from == SelectInSeq(ordered, LAMBDA r : r.id = revertedTo)
    IN  IF from = 0
        THEN <<>>
        ELSE Where(SubSeq(ordered, from + 1, Len(ordered)), LAMBDA r : r.id # current)

\* The revisions an edit undoes: those since the last arrived revision with
\* the same content.  Bot edits and edits without a sha1 are not looked up.
RevertCandidates(revision, revisions) ==
    LET to == SelectLastInSeq(revisions,
                              LAMBDA r : r.sha # NoSha /\ r.sha = revision.sha)
    IN  IF "bot" \in revision.signals \/ revision.sha = NoSha \/ to = 0
        THEN <<>>
        ELSE FindRevisionsBetween(revisions, revisions[to].id, revision.id)

\* CleanupAction(comment, tags) ?? EditActionType.ExactRevert
RevertAction(signals) ==
    CASE "vandalism" \in signals -> "VandalismCleanup"
      [] "vandalism" \notin signals /\ "spam" \in signals -> "SpamCleanup"
      [] "vandalism" \notin signals /\ "spam" \notin signals /\ "copyvio" \in signals
            -> "CopyvioCleanup"
      [] OTHER -> "ExactRevert"

\* Mutant: the explicit signal is looked at before the SHA1 result.
ActionBySignalFirst(revision, candidates) ==
    LET signals == revision.signals
        own == \A i \in DOMAIN candidates : candidates[i].user = revision.user
    IN  IF "bot" \in signals THEN "BotEdit"
        ELSE IF "revert" \in signals THEN RevertAction(signals)
        ELSE IF candidates # <<>> /\ own THEN "SelfRevert"
        ELSE IF candidates # <<>> THEN RevertAction(signals)
        ELSE IF "maintenance" \in signals THEN "MaintenanceEdit"
        ELSE IF "talk" \in signals THEN "TalkPageCoordination"
        ELSE "OrdinaryEdit"

ActionOf(revision, candidates) ==
    LET signals == revision.signals
        own == \A i \in DOMAIN candidates : candidates[i].user = revision.user
    IN  IF "bot" \in signals THEN "BotEdit"
        ELSE IF candidates # <<>> /\ own THEN "SelfRevert"
        ELSE IF candidates # <<>> \/ "revert" \in signals THEN RevertAction(signals)
        ELSE IF "maintenance" \in signals THEN "MaintenanceEdit"
        ELSE IF "talk" \in signals THEN "TalkPageCoordination"
        ELSE "OrdinaryEdit"

Classify(revision, memory) ==
    LET candidates == RevertCandidates(revision, memory.revisions)
    IN  [id |-> revision.id, user |-> revision.user, time |-> revision.time,
         action |-> ActionOf(revision, candidates),
         reverted |-> [i \in DOMAIN candidates |-> candidates[i].id]]

\* One edge per reverted revision of somebody else, as that revision is last
\* remembered.
NewEdges(edit, revisions) ==
    LET Remembered(id) == SelectLastInSeq(revisions, LAMBDA r : r.id = id)
        others == Where(edit.reverted,
                        LAMBDA id : /\ Remembered(id) # 0
                                    /\ revisions[Remembered(id)].user # edit.user)
    IN  [i \in DOMAIN others |->
            [fromUser |-> edit.user, toUser |-> revisions[Remembered(others[i])].user,
             from |-> edit.id, to |-> others[i], time |-> edit.time]]

Apply(memory, revision, edit) ==
    [edits |-> Trim(Append(memory.edits, edit), RecentEditWindow),
     edges |-> Trim(memory.edges \o NewEdges(edit, memory.revisions), RecentEditWindow),
     revisions |-> Trim(Append(memory.revisions, revision), RecentRevisionWindow)]
=============================================================================
