------------------------------ MODULE Scoring ------------------------------
(***************************************************************************)
(* The rules of ArticleConflictScoreCalculator.cs and of                   *)
(* ParticipantClusterInferer.cs over the runtime state of an article.      *)
(* Instants are integers; Day and SixHours are lengths of time.            *)
(***************************************************************************)
EXTENDS ArticleState, ArticleScore

CONSTANTS Day, SixHours

ASSUME DurationAssumption == Day \in Nat /\ SixHours \in Nat /\ SixHours <= Day

ThreeRevertLimit == 3

\* What is not older than an age, seen from the edit that arrived last.  The
\* window has no upper end: what is newer than that edit counts as well.
Recent(entries, edits, age) ==
    Where(entries, LAMBDA e : e.time >= edits[Len(edits)].time - age)

Having(edits, actions) == Where(edits, LAMBDA e : e.action \in actions)

\* Mutant: no GroupBy(User).
CountedRevertsOfAll(edits, user) == Having(Recent(edits, edits, Day), {"ExactRevert"})

\* The non-self, non-cleanup reverts of a user.
CountedReverts(edits, user) ==
    Where(Having(Recent(edits, edits, Day), {"ExactRevert"}), LAMBDA e : e.user = user)

HasThreeRevertRisk(edits) ==
    \E k \in DOMAIN edits : Len(CountedReverts(edits, edits[k].user)) >= ThreeRevertLimit

\* Mutant: both directions of a pair have one key.
NoteUndirected(seen, e) ==
    LET pair == {e.fromUser, e.toUser}
    IN  IF pair \in seen.arrows
        THEN [arrows |-> seen.arrows, pairs |-> seen.pairs \cup {pair}]
        ELSE [arrows |-> seen.arrows \cup {pair}, pairs |-> seen.pairs]

\* An edge whose reverse was seen makes a pair and is not noted itself.
Note(seen, e) ==
    IF <<e.toUser, e.fromUser>> \in seen.arrows
    THEN [arrows |-> seen.arrows, pairs |-> seen.pairs \cup {{e.fromUser, e.toUser}}]
    ELSE [arrows |-> seen.arrows \cup {<<e.fromUser, e.toUser>>}, pairs |-> seen.pairs]

\* The set of the one pass, after each number of edges.
Seen(edges) ==
    LET seen[i \in 0 .. Len(edges)] ==
            IF i = 0 THEN [arrows |-> {}, pairs |-> {}] ELSE Note(seen[i - 1], edges[i])
    IN  seen

CountReciprocalPairs(edges) == Cardinality(Seen(edges)[Len(edges)].pairs)

Authors(edits) == {edits[i].user : i \in DOMAIN edits}

\* The counts the score is computed from.
CountsOf(mem) ==
    LET quarter == Recent(mem.edits, mem.edits, SixHours)
    IN  [edits |-> Len(quarter),
         reverts |-> Len(Having(quarter, NonSelfReverts)),
         cleanups |-> Len(Having(quarter, CleanupActions)),
         pairs |-> CountReciprocalPairs(Recent(mem.edges, mem.edits, Day)),
         participants |-> Cardinality(Authors(Recent(mem.edits, mem.edits, Day))),
         risk |-> HasThreeRevertRisk(mem.edits)]

\* Mutant: the users are not grouped by whom they reverted.
InferUngrouped(edges) ==
    LET all == {edges[i].fromUser : i \in DOMAIN edges}
    IN  IF Len(edges) < 2 \/ Cardinality(all) < 2 THEN <<>>
        ELSE <<[users |-> all, target |-> {edges[1].toUser}]>>

\* Up to three clusters: the two sides of the first edge that has a reverse, and
\* everybody who reverted the first target of two different users.
Infer(edges) ==
    LET Reversed(e) == \E k \in DOMAIN edges :
            edges[k].fromUser = e.toUser /\ edges[k].toUser = e.fromUser
        Reverting(target) ==
            {edges[i].fromUser : i \in {k \in DOMAIN edges : edges[k].toUser = target}}
        mutual == SelectInSeq(edges, Reversed)
        common == SelectInSeq(edges, LAMBDA e : Cardinality(Reverting(e.toUser)) >= 2)
        Cluster(users, target) == [users |-> users, target |-> {target}]
        a == edges[mutual].fromUser
        b == edges[mutual].toUser
        target == edges[common].toUser
    IN  IF Len(edges) < 2
        THEN <<>>
        ELSE (IF mutual = 0 THEN <<>> ELSE <<Cluster({a}, b), Cluster({b}, a)>>)
                \o (IF common = 0 THEN <<>> ELSE <<Cluster(Reverting(target), target)>>)
=============================================================================
