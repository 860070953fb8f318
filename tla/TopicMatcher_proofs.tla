------------------------ MODULE TopicMatcher_proofs ------------------------
(***************************************************************************)
(* Theorems about TopicMatcher, for any processes, titles, categories and  *)
(* rules and any bounds.                                                   *)
(***************************************************************************)
EXTENDS TopicMatcher, TLAPS

\* What is proved of the consumer loop holds of the loop of this worker.
LoopProofs == INSTANCE ConsumerLoop_proofs WITH
                  Consumers <- Processes, MaxRecords <- MaxEdits,
                  logEnd <- Len(log), malformed <- {}

LEMMA SameLoop ==
  /\ Loop!Init => LoopProofs!Init
  /\ [Loop!Next]_(Loop!vars) => [LoopProofs!Next]_(LoopProofs!vars)
  /\ LoopProofs!IInv => Loop!IInv
<1> USE DEF Loop!Goto, LoopProofs!Goto, Loop!Fault, LoopProofs!Fault, Loop!InHand,
        LoopProofs!InHand, Loop!settled, LoopProofs!settled, Loop!Places, LoopProofs!Places
<1>1. Loop!Init => LoopProofs!Init
  BY DEF Loop!Init, LoopProofs!Init
<1>2. Loop!Append => LoopProofs!Append
  BY DEF Loop!Append, LoopProofs!Append
<1>3. ASSUME NEW p \in Processes PROVE Loop!Loop(p) => LoopProofs!Loop(p)
  BY DEF Loop!Loop, Loop!Consume, Loop!Poison, Loop!HandlerReturns, Loop!HandlerThrows,
     Loop!Commit, Loop!CommitThrows, Loop!CommitFenced,
     LoopProofs!Loop, LoopProofs!Consume, LoopProofs!Poison, LoopProofs!HandlerReturns,
     LoopProofs!HandlerThrows, LoopProofs!Commit, LoopProofs!CommitThrows,
     LoopProofs!CommitFenced
<1>4. ASSUME NEW p \in Processes PROVE Loop!Environment(p) => LoopProofs!Environment(p)
  BY DEF Loop!Environment, Loop!Assign, Loop!Revoke, Loop!Expire, Loop!Stop, Loop!Crash,
     Loop!Restart,
     LoopProofs!Environment, LoopProofs!Assign, LoopProofs!Revoke, LoopProofs!Expire,
     LoopProofs!Stop, LoopProofs!Crash, LoopProofs!Restart
<1>5. LoopProofs!IInv => Loop!IInv
  BY DEF Loop!IInv, Loop!TypeOK, Loop!WithinLog, Loop!SettledIsPrefix, Loop!ReadIsSettled,
     Loop!OwnerNotBehind, Loop!NoSilentLoss,
     LoopProofs!IInv, LoopProofs!TypeOK, LoopProofs!WithinLog, LoopProofs!SettledIsPrefix,
     LoopProofs!ReadIsSettled, LoopProofs!OwnerNotBehind, LoopProofs!NoSilentLoss
<1> QED
  BY <1>1, <1>2, <1>3, <1>4, <1>5 DEF Loop!Next, LoopProofs!Next, Loop!vars, LoopProofs!vars

LEMMA LoopInvariant == Loop!Spec => []Loop!IInv
<1>1. LoopProofs!Spec => []LoopProofs!IInv
  BY LoopProofs!Inductive, NobodyAssumption, BoundsAssumption, PTL
     DEF LoopProofs!NobodyAssumption, LoopProofs!BoundsAssumption
<1> QED
  BY <1>1, SameLoop, PTL DEF Loop!Spec, LoopProofs!Spec

---------------------------------------------------------------------------

\* A step of the worker is a step of its loop, or none.
LEMMA StepLoop == [Next]_vars => [Loop!Next]_(Loop!vars)
<1> SUFFICES ASSUME [Next]_vars PROVE [Loop!Next]_(Loop!vars)
  OBVIOUS
<1>1. ASSUME NEW title \in Titles, EditPage(title) PROVE Loop!Next
  BY <1>1 DEF EditPage, Loop!Next
<1>2. ASSUME NEW p \in Processes,
             \/ Consume(p) \/ HandlerReturns(p) \/ HandlerThrows(p)
             \/ CommitOffset(p) \/ GroupMembership(p) \/ Die(p)
      PROVE  Loop!Loop(p) \/ Loop!Environment(p)
  BY <1>2 DEF Consume, HandlerReturns, HandlerThrows, CommitOffset, GroupMembership, Die,
     Loop!Loop, Loop!Environment
<1>3. ASSUME UNCHANGED <<log, loopVars>> PROVE UNCHANGED Loop!vars
  BY <1>3 DEF loopVars, Loop!vars
<1>4. ASSUME NEW p \in Processes,
             \/ SkipExcludedTitle(p) \/ MatchByTitle(p) \/ MatchByCategories(p)
             \/ UpsertMatch(p) \/ ProduceMatch(p) \/ CacheExpires(p)
      PROVE  UNCHANGED <<log, loopVars>>
  BY <1>4 DEF SkipExcludedTitle, MatchByTitle, MatchByCategories, Visit, UpsertMatch,
     ProduceMatch, CacheExpires
<1>5. CASE \/ Recategorize \/ UNCHANGED vars
           \/ \E t \in Topics, status \in {"Confirmed", "Rejected", "Excluded"} : Review(t, status)
  BY <1>3, <1>5 DEF Recategorize, Review, vars
<1> QED
  BY <1>1, <1>2, <1>3, <1>4, <1>5 DEF Next, Handle, Loop!Next

\* The worker of the matcher is an instance of the consumer loop.
THEOREM MatcherImplementsLoop == Spec => ImplementsLoop
<1>1. Init => Loop!Init
  BY DEF Init
<1> QED
  BY <1>1, StepLoop, PTL DEF Spec, ImplementsLoop, Loop!Spec

---------------------------------------------------------------------------

Statuses == {"none", "Confirmed", "Candidate", "Rejected", "Excluded"}
\* A share of 1000, and what makes at least a candidate.
Thousandths == 0 .. 1000
Likely == CandidateThreshold .. 1000

Matches == [topic : Topics, confidence : Likely, existing : Statuses,
            status : {"Confirmed", "Candidate"}]
Rows == [status : Statuses, relevance : Thousandths]
MatchedEdits == [topic : Topics, offset : Nat, confidence : Likely]

Types ==
    /\ log \in Seq(Titles) /\ categories \in CategorySets
    /\ stage \in [Processes -> {"idle", "match", "produce"}]
    /\ visited \in [Processes -> 0 .. NumTopics]
    /\ fetched \in [Processes -> CategorySets \cup {NoCategories, NotCached}]
    /\ known \in [Processes -> CategorySets \cup {NotCached}]
    /\ matches \in [Processes -> Seq(Matches)]
    /\ row \in [Topics -> Rows]
    /\ published \in SUBSET MatchedEdits

\* The handler runs while the loop waits for it, and leaves nothing behind.
InHandler ==
    \A p \in Processes :
        /\ stage[p] # "idle" <=> pc[p] = "handle"
        /\ stage[p] = "idle" => visited[p] = 0 /\ matches[p] = <<>>
        /\ stage[p] = "produce" => matches[p] # <<>>

\* What confirmed a row, by hand or by rule.
ConfirmedByRule ==
    \A t \in Topics \ decided : row[t].status = "Confirmed" => row[t].relevance >= ConfirmedThreshold

\* A match confirms from ConfirmedThreshold on, and demotes a Confirmed row that the
\* handler has read only if that was decided by hand.
MatchesByRule(p) ==
    \A i \in 1 .. Len(matches[p]) :
        LET match == matches[p][i] IN
        /\ match.status = "Confirmed" <=> match.confidence >= ConfirmedThreshold
        /\ match.status # "Confirmed" /\ match.existing = "Confirmed" => match.topic \in decided

\* The table holds a membership of the page at least that relevant.
Member(match) ==
    row[match.topic].status # "none" /\ row[match.topic].relevance >= match.confidence

Stored ==
    /\ \A m \in published : Member(m)
    /\ \A p \in Processes : stage[p] = "produce" => Member(matches[p][1])

\* The edit at an offset has a seed title of the topic, or the page is a seed page.
Seeded(t, o) ==
    /\ Rules[t].seedPage \/ log[o + 1] \in Rules[t].seedTitles
    /\ log[o + 1] \notin Rules[t].excludeTitles

Announced(t, o) == \E m \in published : m.topic = t /\ m.offset = o /\ m.confidence >= 950

\* A match of the topic is waiting to be stored and produced.
Waits(p, t) == \E i \in 1 .. Len(matches[p]) : matches[p][i].topic = t /\ matches[p][i].confidence >= 950

\* The handler has not dropped a seeded topic it has gone through.
SeedsCarried(p) ==
    \A t \in 1 .. visited[p] :
        Seeded(t, position[p] - 1) => Waits(p, t) \/ Announced(t, position[p] - 1)

\* An edit somebody has handled is announced to every topic it is a seed of.
HandledAnnounced == \A o \in handled, t \in Topics : Seeded(t, o) => Announced(t, o)

IInv ==
    /\ Types /\ InHandler
    /\ ConfirmedByRule /\ \A p \in Processes : MatchesByRule(p)
    /\ Stored
    /\ \A p \in Processes : SeedsCarried(p)
    /\ HandledAnnounced

---------------------------------------------------------------------------
(* The scores.                                                             *)

HasMax(S) == S \in SUBSET Int /\ \E x \in S : \A y \in S : x >= y

LEMMA MaxIsLargest ==
  ASSUME NEW S, HasMax(S)
  PROVE  Max(S) \in S /\ \A y \in S : Max(S) >= y
  BY DEF HasMax, Max

\* At most one number.
Optional(T) == T = {} \/ \E n \in Int : T = {n}

\* A set that has a largest element has one when an element is, or may be, added.
LEMMA HasMaxWith ==
  ASSUME NEW S, HasMax(S), NEW T, Optional(T)
  PROVE  HasMax(S \cup T)
<1>1. PICK x \in S : \A y \in S : x >= y
  BY DEF HasMax
<1>2. ASSUME NEW n \in Int, T = {n}, n > x PROVE HasMax(S \cup T)
  BY <1>1, <1>2 DEF HasMax
<1>3. ASSUME NEW n \in Int, T = {n}, ~(n > x) PROVE HasMax(S \cup T)
  BY <1>1, <1>3 DEF HasMax
<1>4. CASE T = {}
  BY <1>1, <1>4 DEF HasMax
<1> QED
  BY <1>2, <1>3, <1>4 DEF Optional

LEMMA Scale ==
  /\ \A n : n \in Thousandths <=> n \in Int /\ 0 <= n /\ n <= 1000
  /\ \A n : n \in Likely <=> n \in Int /\ CandidateThreshold <= n /\ n <= 1000
  /\ CandidateThreshold \in Nat
<1>1. \A n : n \in Thousandths <=> n \in Int /\ 0 <= n /\ n <= 1000
  BY SMTT(30) DEF Thousandths
<1>2. CandidateThreshold \in Nat
  BY DEF CandidateThreshold
<1>3. \A n : n \in Likely <=> n \in Int /\ CandidateThreshold <= n /\ n <= 1000
  BY <1>2 DEF Likely
<1> QED
  BY <1>1, <1>2, <1>3

LEMMA RowTypes ==
  ASSUME NEW r \in Rows
  PROVE  r.status \in Statuses /\ r.relevance \in Thousandths /\ r.relevance \in Int
<1>1. r.status \in Statuses /\ r.relevance \in Thousandths
  BY DEF Rows
<1>2. \A n \in Thousandths : n \in Int
  BY Scale
<1> QED
  BY <1>1, <1>2

\* The score of a title is a share of 1000, no less than what a seed or a
\* Confirmed membership gives.
LEMMA TitleScoreBounds ==
  ASSUME NEW t \in Topics, NEW title \in Titles, row[t] \in Rows
  PROVE  /\ TitleScore(t, title) \in Thousandths
         /\ Rules[t].seedPage \/ title \in Rules[t].seedTitles => TitleScore(t, title) >= 950
         /\ row[t].status = "Confirmed" => TitleScore(t, title) >= row[t].relevance
<1> DEFINE hits == Rules[t].titleHits[title]
           keywords == IF 300 + 150 * hits < 700 THEN 300 + 150 * hits ELSE 700
           A == IF Rules[t].seedPage THEN {1000} ELSE {}
           B == IF title \in Rules[t].seedTitles THEN {950} ELSE {}
           C == IF row[t].status = "Confirmed" THEN {row[t].relevance} ELSE {}
           D == IF hits > 0 THEN {keywords} ELSE {}
           S == {0} \cup A \cup B \cup C \cup D
<1>1. /\ keywords \in Thousandths
      /\ row[t].relevance \in Thousandths
      /\ row[t].relevance \in Int
  <2>1. hits \in Nat
    BY RulesAssumption
  <2>2. keywords \in Thousandths
    BY Scale, <2>1
  <2>3. row[t].relevance \in Thousandths /\ row[t].relevance \in Int
    BY RowTypes
  <2> QED
    BY <2>2, <2>3, Zenon
<1>2. TitleScore(t, title) = Max(S)
  BY DEF TitleScore
<1> HIDE DEF keywords
<1>3. Optional(A) /\ Optional(B) /\ Optional(C) /\ Optional(D)
  <2>1. Optional(A) /\ Optional(B)
    BY DEF Optional
  <2>2. Optional(C)
    <3> DEFINE relevance == row[t].relevance
    <3>1. C = {} \/ C = {relevance}
      OBVIOUS
    <3>2. relevance \in Int
      BY <1>1
    <3> HIDE DEF relevance, C
    <3> QED
      BY <3>1, <3>2 DEF Optional
  <2>3. Optional(D)
    BY Scale, <1>1 DEF Optional
  <2> QED
    BY <2>1, <2>2, <2>3
<1>4. A \cup B \cup C \cup D \subseteq Thousandths
  BY Scale, <1>1
<1>5. /\ Rules[t].seedPage => 1000 \in A
      /\ title \in Rules[t].seedTitles => 950 \in B
      /\ row[t].status = "Confirmed" => row[t].relevance \in C
  OBVIOUS
<1> HIDE DEF A, B, C, D
<1>6. HasMax({0})
  BY DEF HasMax
<1>7. HasMax(S)
  BY <1>3, <1>6, HasMaxWith
<1>8. Max(S) \in S /\ \A y \in S : Max(S) >= y
  <2> HIDE DEF S
  <2> QED BY <1>7, MaxIsLargest
<1>9. Max(S) \in Thousandths
  BY Scale, <1>4, <1>8
<1>10. \A x \in A \cup B \cup C : Max(S) >= x
  BY <1>8, Zenon
<1> HIDE DEF S
<1> QED
  BY Scale, <1>2, <1>5, <1>9, <1>10

LEMMA CategoryScoreBounds ==
  ASSUME NEW t \in Topics, NEW cats \in CategorySets \cup {NoCategories}
  PROVE  CategoryScore(t, cats) \in Thousandths
<1> DEFINE hits == Rules[t].keywordHits[cats]
           keywords == IF 550 + 100 * hits < 800 THEN 550 + 100 * hits ELSE 800
           A == IF Rules[t].exact[cats] THEN {900} ELSE {}
           B == IF hits > 0 THEN {keywords} ELSE {}
           S == {0} \cup A \cup B
<1>1. keywords \in Thousandths
  BY Scale, RulesAssumption
<1>2. CategoryScore(t, cats) = Max(S)
  BY DEF CategoryScore
<1> HIDE DEF keywords
<1>3. Optional(A) /\ Optional(B) /\ A \cup B \subseteq Thousandths
  BY Scale, <1>1 DEF Optional
<1> HIDE DEF A, B
<1>4. HasMax({0})
  BY DEF HasMax
<1>5. HasMax({0} \cup A)
  BY <1>3, <1>4, HasMaxWith
<1> HasMax(S)
  BY <1>3, <1>5, HasMaxWith
<1>6. Max(S) \in S
  <2> HIDE DEF S
  <2> QED BY MaxIsLargest
<1> QED
  BY Scale, <1>2, <1>3, <1>6

LEMMA MaxOfTwo ==
  ASSUME NEW x \in Int, NEW y \in Int
  PROVE  Max({x, y}) \in {x, y} /\ Max({x, y}) >= x /\ Max({x, y}) >= y
<1>1. HasMax({x, y})
  BY DEF HasMax
<1> QED
  BY <1>1, MaxIsLargest

---------------------------------------------------------------------------
(* One topic of MatchAsync.                                                *)

\* What the invariant of the loop says of the record in hand.
LEMMA LoopFacts ==
  ASSUME Loop!IInv
  PROVE  /\ pc \in [Processes -> {"poll", "handle", "commit", "down"}]
         /\ position \in [Processes -> Nat] /\ committed \in Nat
         /\ handled \in SUBSET Nat /\ failed \in SUBSET Nat
         /\ committed <= Len(log)
         /\ \A o \in handled : o < Len(log)
         /\ \A o \in 0 .. committed - 1 : o \in handled \cup failed
         /\ \A p \in Processes :
               /\ position[p] <= Len(log)
               /\ pc[p] = "handle" => position[p] > 0
  BY DEF Loop!IInv, Loop!TypeOK, Loop!Places, Loop!WithinLog, Loop!settled,
     Loop!NoSilentLoss, Loop!OwnerNotBehind

\* What MatchAsync may find for a topic of the edit at an offset: a match that
\* counts a Confirmed row, and one of a seed is not missed.
Found(t, o, found) ==
    /\ \/ found = <<>>
       \/ \E m \in Matches :
             /\ found = <<m>>
             /\ m.topic = t /\ m.existing = row[t].status
             /\ m.status = "Confirmed" <=> m.confidence >= ConfirmedThreshold
             /\ row[t].status = "Confirmed" => m.confidence >= row[t].relevance
    /\ Seeded(t, o) => \E m \in Matches : found = <<m>> /\ m.topic = t /\ m.confidence >= 950

LEMMA VisitFinds ==
  ASSUME Loop!IInv, Types, InHandler, NEW p \in Processes,
         SkipExcludedTitle(p) \/ MatchByTitle(p) \/ MatchByCategories(p)
  PROVE  /\ stage[p] = "match" /\ visited[p] \in Nat /\ visited[p] + 1 \in Topics
         /\ position[p] > 0
         /\ \E found : Visit(p, found) /\ Found(visited[p] + 1, position[p] - 1, found)
         /\ fetched' \in [Processes -> CategorySets \cup {NoCategories, NotCached}]
         /\ known' \in [Processes -> CategorySets \cup {NotCached}]
<1> DEFINE t == visited[p] + 1
           title == log[position[p]]
           score == TitleScore(t, title)
<1>1. stage[p] = "match" /\ visited[p] < NumTopics
  BY DEF SkipExcludedTitle, MatchByTitle, MatchByCategories, Matching
<1>2. visited[p] \in Nat /\ t \in Topics
  BY <1>1, BoundsAssumption DEF Types, Topics
<1>3. /\ position[p] \in 1 .. Len(log) /\ Len(log) \in Nat /\ title \in Titles
      /\ log[position[p] - 1 + 1] = title
  <2>1. position[p] \in Nat /\ position[p] <= Len(log) /\ position[p] > 0
    BY <1>1, LoopFacts DEF InHandler
  <2>2. log \in Seq(Titles)
    BY DEF Types
  <2> QED
    BY <2>1, <2>2
<1>4. row[t] \in Rows /\ row[t].relevance \in Int
  <2>1. row[t] \in Rows
    BY <1>2 DEF Types
  <2> QED
    BY <2>1, RowTypes
<1>5. /\ score \in Thousandths
      /\ Rules[t].seedPage \/ title \in Rules[t].seedTitles => score >= 950
      /\ row[t].status = "Confirmed" => score >= row[t].relevance
  BY <1>2, <1>3, <1>4, TitleScoreBounds
<1>6. Title(p) = title /\ Topic(p) = t
  BY DEF Title, Topic
<1> HIDE DEF score, t, title
<1>7. ASSUME NEW s \in Thousandths, s >= score
      PROVE  Found(t, position[p] - 1, MatchOf(t, s))
  <2>1. CASE s < CandidateThreshold
    <3>1. MatchOf(t, s) = <<>>
      BY <2>1 DEF MatchOf
    <3>2. ~(score >= 950)
      BY Scale, <1>5, <1>7, <2>1 DEF CandidateThreshold
    <3> QED
      BY <1>3, <1>5, <3>1, <3>2 DEF Found, Seeded
  <2>2. CASE s >= CandidateThreshold
    <3> DEFINE m == [topic |-> t, confidence |-> s, existing |-> row[t].status,
                     status |-> IF s >= ConfirmedThreshold THEN "Confirmed" ELSE "Candidate"]
    <3>1. m \in Matches /\ MatchOf(t, s) = <<m>>
      <4>1. row[t].status \in Statuses
        BY <1>4 DEF Rows
      <4>2. s \in Likely
        BY Scale, <2>2 DEF CandidateThreshold
      <4>3. m \in Matches
        BY <1>2, <4>1, <4>2 DEF Matches
      <4>4. ~(s < CandidateThreshold)
        BY Scale, <2>2 DEF CandidateThreshold
      <4> QED
        BY <4>3, <4>4 DEF MatchOf
    <3>2. row[t].status = "Confirmed" => s >= row[t].relevance
      <4> DEFINE relevance == row[t].relevance
      <4>1. relevance \in Int /\ (row[t].status = "Confirmed" => score >= relevance)
        BY <1>4, <1>5
      <4> HIDE DEF relevance
      <4>2. row[t].status = "Confirmed" => s >= relevance
        BY Scale, <1>5, <1>7, <4>1
      <4> QED
        BY <4>2 DEF relevance
    <3>3. Seeded(t, position[p] - 1) => s >= 950
      <4>1. score >= 950 => s >= 950
        BY Scale, <1>5, <1>7
      <4> QED
        BY <1>3, <1>5, <4>1 DEF Seeded
    <3>4. /\ m.topic = t /\ m.confidence = s /\ m.existing = row[t].status
          /\ m.status = "Confirmed" <=> s >= ConfirmedThreshold
      OBVIOUS
    <3> HIDE DEF m
    <3> QED
      BY <3>1, <3>2, <3>3, <3>4 DEF Found
  <2> QED
    BY Scale, <2>1, <2>2 DEF CandidateThreshold
<1>8. ASSUME ~Seeded(t, position[p] - 1) PROVE Found(t, position[p] - 1, <<>>)
  BY <1>8 DEF Found
<1>9. CASE SkipExcludedTitle(p)
  <2>1. ~Seeded(t, position[p] - 1)
    BY <1>3, <1>6, <1>9 DEF SkipExcludedTitle, Seeded
  <2>2. Visit(p, <<>>) /\ UNCHANGED <<known, fetched>>
    BY <1>9 DEF SkipExcludedTitle
  <2> QED
    BY <1>1, <1>2, <1>3, <1>8, <2>1, <2>2 DEF Types, t
<1>10. CASE MatchByTitle(p)
  <2>1. Visit(p, MatchOf(t, score)) /\ UNCHANGED <<known, fetched>>
    BY <1>6, <1>10 DEF MatchByTitle, score
  <2>2. score >= score
    BY Scale, <1>5
  <2>3. Found(t, position[p] - 1, MatchOf(t, score))
    BY <1>5, <1>7, <2>2
  <2> QED
    BY <1>1, <1>2, <1>3, <2>1, <2>3 DEF Types, t
<1>11. CASE MatchByCategories(p)
  <2>1. PICK cats \in CategorySets \cup {NoCategories} :
           /\ Lookup(p, cats)
           /\ fetched' = [fetched EXCEPT ![p] = cats]
           /\ Visit(p, IF Rules[t].excluded[cats]
                       THEN <<>>
                       ELSE MatchOf(t, Max({score, CategoryScore(t, cats)})))
    BY <1>6, <1>11 DEF MatchByCategories, score
  <2>2. score < 950
    BY <1>6, <1>11 DEF MatchByCategories, ShouldUseMetadata, score
  <2>3. ~Seeded(t, position[p] - 1)
    <3>1. ~(score >= 950)
      BY Scale, <1>5, <2>2
    <3> QED
      BY <1>3, <1>5, <3>1 DEF Seeded
  <2>4. CategoryScore(t, cats) \in Thousandths
    BY <1>2, CategoryScoreBounds
  <2>5. /\ Max({score, CategoryScore(t, cats)}) \in Thousandths
        /\ Max({score, CategoryScore(t, cats)}) >= score
    <3> DEFINE other == CategoryScore(t, cats)
    <3>1. other \in Thousandths
      BY <2>4
    <3> HIDE DEF other
    <3>2. /\ Max({score, other}) \in Thousandths
          /\ Max({score, other}) >= score
      <4>1. score \in Int /\ other \in Int
        BY Scale, <1>5, <3>1
      <4>2. Max({score, other}) \in {score, other} /\ Max({score, other}) >= score
        BY <4>1, MaxOfTwo
      <4> QED
        BY <1>5, <3>1, <4>2
    <3> QED
      BY <3>2 DEF other
  <2>6. Found(t, position[p] - 1, MatchOf(t, Max({score, CategoryScore(t, cats)})))
    BY <1>7, <2>5
  <2>7. known' \in [Processes -> CategorySets \cup {NotCached}]
    BY <2>1 DEF Lookup, Types
  <2>8. fetched' \in [Processes -> CategorySets \cup {NoCategories, NotCached}]
    BY <2>1 DEF Types
  <2>9. \E found : Visit(p, found) /\ Found(t, position[p] - 1, found)
    BY <1>8, <2>1, <2>3, <2>6
  <2> QED
    BY <1>1, <1>2, <1>3, <2>7, <2>8, <2>9 DEF t
<1> QED
  BY <1>9, <1>10, <1>11

---------------------------------------------------------------------------
(* The steps of the handler.                                               *)

LEMMA SeqExtended ==
  ASSUME NEW M, NEW s \in Seq(M), NEW m \in M
  PROVE  /\ s \o <<>> = s
         /\ s \o <<m>> \in Seq(M) /\ Len(s) \in Nat /\ Len(s \o <<m>>) = Len(s) + 1
         /\ \A i \in 1 .. Len(s) : (s \o <<m>>)[i] = s[i]
         /\ (s \o <<m>>)[Len(s) + 1] = m
  OBVIOUS

LEMMA SeqShortened ==
  ASSUME NEW M, NEW s \in Seq(M), s # <<>>
  PROVE  /\ Head(s) = s[1] /\ s[1] \in M
         /\ Tail(s) \in Seq(M)
         /\ Len(s) \in Nat /\ Len(s) >= 1 /\ Len(Tail(s)) = Len(s) - 1
         /\ \A i \in 1 .. Len(Tail(s)) : Tail(s)[i] = s[i + 1]
  OBVIOUS

\* The matches of a process whose handler goes through a topic.
LEMMA VisitMatches ==
  ASSUME Types, NEW p \in Processes, NEW t \in Topics, NEW o, NEW found,
         Visit(p, found), Found(t, o, found)
  PROVE  /\ matches' \in [Processes -> Seq(Matches)]
         /\ \A q \in Processes \ {p} : matches'[q] = matches[q]
         /\ \A i \in 1 .. Len(matches[p]) : matches'[p][i] = matches[p][i]
         /\ Len(matches[p]) \in Nat
         /\ \/ found = <<>> /\ matches' = matches
            \/ \E m \in Matches :
                  /\ found = <<m>> /\ Len(matches'[p]) = Len(matches[p]) + 1
                  /\ matches'[p][Len(matches[p]) + 1] = m
<1>1. matches[p] \in Seq(Matches) /\ matches' = [matches EXCEPT ![p] = @ \o found]
  BY DEF Types, Visit
<1>2. CASE found = <<>>
  <2>1. matches[p] \o <<>> = matches[p] /\ Len(matches[p]) \in Nat
    BY <1>1
  <2> QED
    BY <1>1, <1>2, <2>1 DEF Types
<1>3. ASSUME NEW m \in Matches, found = <<m>>
      PROVE  /\ matches'[p] \in Seq(Matches)
             /\ Len(matches[p]) \in Nat /\ Len(matches'[p]) = Len(matches[p]) + 1
             /\ \A i \in 1 .. Len(matches[p]) : matches'[p][i] = matches[p][i]
             /\ matches'[p][Len(matches[p]) + 1] = m
  <2>1. matches'[p] = matches[p] \o <<m>>
    BY <1>1, <1>3 DEF Types
  <2> DEFINE before == matches[p]
  <2>2. before \in Seq(Matches) /\ matches'[p] = before \o <<m>>
    BY <1>1, <2>1
  <2> HIDE DEF before
  <2>3. /\ before \o <<m>> \in Seq(Matches)
        /\ Len(before) \in Nat /\ Len(before \o <<m>>) = Len(before) + 1
        /\ \A i \in 1 .. Len(before) : (before \o <<m>>)[i] = before[i]
        /\ (before \o <<m>>)[Len(before) + 1] = m
    BY <2>2, SeqExtended
  <2> QED
    BY <2>2, <2>3 DEF before
<1>4. /\ \A q \in Processes \ {p} : matches'[q] = matches[q]
      /\ matches'[p] \in Seq(Matches) => matches' \in [Processes -> Seq(Matches)]
  BY <1>1 DEF Types
<1> QED
  BY <1>2, <1>3, <1>4 DEF Found

LEMMA MatchTypes ==
  ASSUME NEW m \in Matches
  PROVE  /\ m.topic \in Topics /\ m.existing \in Statuses
         /\ m.status \in {"Confirmed", "Candidate"}
         /\ m.confidence \in Likely
         /\ m.confidence \in Thousandths /\ m.confidence \in Int
<1>1. m.topic \in Topics /\ m.existing \in Statuses /\ m.status \in {"Confirmed", "Candidate"}
  BY DEF Matches
<1>2. m.confidence \in Likely
  BY DEF Matches
<1> DEFINE c == m.confidence
<1>3. c \in Likely => c \in Thousandths /\ c \in Int
  <2> HIDE DEF c
  <2> QED BY Scale DEF CandidateThreshold
<1> QED
  BY <1>1, <1>2, <1>3

\* The match in hand, and the others when it is dealt with.
LEMMA MatchInHand ==
  ASSUME Types, NEW p \in Processes, matches[p] # <<>>
  PROVE  /\ Head(matches[p]) = matches[p][1] /\ matches[p][1] \in Matches
         /\ Len(matches[p]) \in Nat /\ Len(matches[p]) >= 1
         /\ Tail(matches[p]) \in Seq(Matches)
         /\ Len(Tail(matches[p])) = Len(matches[p]) - 1
         /\ \A i \in 1 .. Len(Tail(matches[p])) : Tail(matches[p])[i] = matches[p][i + 1]
<1>1. matches[p] \in Seq(Matches)
  BY DEF Types
<1> QED
  BY <1>1, SeqShortened

\* The row of a match after it is stored.
LEMMA UpsertFacts ==
  ASSUME Types, InHandler, NEW p \in Processes, UpsertMatch(p)
  PROVE  LET match == matches[p][1] IN
         /\ matches[p] # <<>> /\ match \in Matches /\ match.topic \in Topics
         /\ row' = [row EXCEPT ![match.topic] = Membership(match.topic, match)]
         /\ Membership(match.topic, match) \in Rows
         /\ Membership(match.topic, match).status = match.status
         /\ Membership(match.topic, match).relevance >= match.confidence
         /\ Membership(match.topic, match).relevance >= row[match.topic].relevance
<1> DEFINE match == matches[p][1]
<1>1. /\ matches[p] # <<>> /\ match \in Matches
      /\ row' = [row EXCEPT ![match.topic] = Membership(match.topic, match)]
  BY MatchInHand DEF UpsertMatch, Storing
<1>2. /\ match.topic \in Topics /\ match.confidence \in Thousandths
      /\ match.status \in {"Confirmed", "Candidate"}
  BY <1>1, MatchTypes
<1> HIDE DEF match
<1>3. row[match.topic] \in Rows
  BY <1>2 DEF Types
<1>4. row[match.topic].relevance \in Thousandths
  BY <1>3 DEF Rows
<1> DEFINE x == row[match.topic].relevance
           y == match.confidence
<1>5. x \in Thousandths /\ y \in Thousandths
  BY <1>2, <1>4
<1> HIDE DEF x, y
<1>6. Max({x, y}) \in Thousandths /\ Max({x, y}) >= x /\ Max({x, y}) >= y
  <2>1. x \in Int /\ y \in Int
    BY Scale, <1>5
  <2>2. Max({x, y}) \in {x, y} /\ Max({x, y}) >= x /\ Max({x, y}) >= y
    BY <2>1, MaxOfTwo
  <2> QED
    BY <1>5, <2>2
<1>7. Membership(match.topic, match) = [status |-> match.status, relevance |-> Max({x, y})]
  BY DEF Membership, x, y
<1>8. Membership(match.topic, match) \in Rows
  BY <1>2, <1>6, <1>7 DEF Rows, Statuses
<1>9. Membership(match.topic, match).status = match.status
  BY <1>7
<1>10. Membership(match.topic, match).relevance = Max({x, y})
  BY <1>7
<1> QED
  BY <1>1, <1>2, <1>6, <1>8, <1>9, <1>10 DEF match, x, y

\* The matched edit that is produced.
Produced(p) ==
    [topic |-> matches[p][1].topic, offset |-> position[p] - 1,
     confidence |-> matches[p][1].confidence]

LEMMA ProducedFacts ==
  ASSUME Loop!IInv, Types, InHandler, NEW p \in Processes, stage[p] = "produce"
  PROVE  /\ matches[p] # <<>> /\ matches[p][1] \in Matches
         /\ Published(p) = published \cup {Produced(p)}
         /\ Produced(p) \in MatchedEdits
<1>1. matches[p] # <<>> /\ pc[p] = "handle"
  BY DEF InHandler
<1>2. Head(matches[p]) = matches[p][1] /\ matches[p][1] \in Matches
  BY <1>1, MatchInHand
<1>3. position[p] - 1 \in Nat
  BY <1>1, LoopFacts
<1>4. Published(p) = published \cup {Produced(p)}
  BY <1>2 DEF Published, Produced
<1>5. Produced(p) \in MatchedEdits
  BY <1>2, <1>3, MatchTypes DEF Produced, MatchedEdits
<1> QED
  BY <1>1, <1>2, <1>4, <1>5

LEMMA StepTypes == Loop!IInv /\ Types /\ InHandler /\ [Next]_vars => Types'
<1> SUFFICES ASSUME Loop!IInv, Types, InHandler, [Next]_vars PROVE Types'
  OBVIOUS
<1> USE DEF Types
<1>1. ASSUME NEW title \in Titles, EditPage(title) PROVE Types'
  <2>1. log' \in Seq(Titles)
    BY <1>1 DEF EditPage
  <2> QED
    BY <1>1, <2>1 DEF EditPage, wikiVars, handlerVars, tableVars
<1>2. CASE Recategorize
  BY <1>2 DEF Recategorize, handlerVars, tableVars
<1>3. ASSUME NEW t \in Topics, NEW status \in {"Confirmed", "Rejected", "Excluded"},
             Review(t, status)
      PROVE  Types'
  <2>1. row' = [row EXCEPT ![t] = [row[t] EXCEPT !.status = status]]
    BY <1>3 DEF Review
  <2>2. row[t] \in Rows
    OBVIOUS
  <2>3. [row[t] EXCEPT !.status = status] \in Rows
    BY <2>2 DEF Rows, Statuses
  <2>4. row' \in [Topics -> Rows]
    BY <2>1, <2>3
  <2> QED
    BY <1>3, <2>4 DEF Review, wikiVars, handlerVars
<1>4. ASSUME NEW p \in Processes, Consume(p) PROVE Types'
  BY <1>4 DEF Consume, wikiVars, tableVars
<1>5. ASSUME NEW p \in Processes,
             SkipExcludedTitle(p) \/ MatchByTitle(p) \/ MatchByCategories(p)
      PROVE  Types'
  <2>1. PICK found : Visit(p, found) /\ Found(visited[p] + 1, position[p] - 1, found)
    BY <1>5, VisitFinds
  <2>2. visited[p] + 1 \in Topics /\ visited[p] \in Nat
    BY <1>5, VisitFinds
  <2>3. matches' \in [Processes -> Seq(Matches)]
    BY <2>1, <2>2, VisitMatches
  <2>4. visited' \in [Processes -> 0 .. NumTopics]
    BY <2>1, <2>2 DEF Visit, Topics
  <2>5. /\ fetched' \in [Processes -> CategorySets \cup {NoCategories, NotCached}]
        /\ known' \in [Processes -> CategorySets \cup {NotCached}]
    BY <1>5, VisitFinds
  <2> QED
    BY <2>1, <2>3, <2>4, <2>5 DEF Visit, wikiVars, tableVars
<1>6. ASSUME NEW p \in Processes, UpsertMatch(p) PROVE Types'
  <2>1. row' \in [Topics -> Rows]
    BY <1>6, UpsertFacts
  <2>2. Tail(matches[p]) \in Seq(Matches)
    BY <1>6, MatchInHand DEF UpsertMatch, Storing
  <2>3. matches' \in [Processes -> Seq(Matches)]
    BY <1>6, <2>2 DEF UpsertMatch
  <2>4. stage' \in [Processes -> {"idle", "match", "produce"}]
    BY <1>6 DEF UpsertMatch
  <2> QED
    BY <1>6, <2>1, <2>3, <2>4 DEF UpsertMatch, wikiVars
<1>7. ASSUME NEW p \in Processes, ProduceMatch(p) PROVE Types'
  <2>1. stage[p] = "produce" /\ published' = Published(p)
    BY <1>7 DEF ProduceMatch
  <2>2. Tail(matches[p]) \in Seq(Matches) /\ published' \in SUBSET MatchedEdits
    BY <2>1, ProducedFacts, MatchInHand
  <2> QED
    BY <1>7, <2>2 DEF ProduceMatch, wikiVars, tableVars
<1>8. ASSUME NEW p \in Processes, Leave(p), UNCHANGED <<log, wikiVars, tableVars>>,
             known' \in [Processes -> CategorySets \cup {NotCached}],
             \/ published' = published
             \/ stage[p] = "produce" /\ published' = Published(p)
      PROVE  Types'
  <2>1. published' \in SUBSET MatchedEdits
    BY <1>8, ProducedFacts
  <2>2. <<>> \in Seq(Matches)
    OBVIOUS
  <2>3. 0 \in 0 .. NumTopics
    BY BoundsAssumption
  <2> QED
    BY <1>8, <2>1, <2>2, <2>3 DEF Leave, wikiVars, tableVars
<1>9. ASSUME NEW p \in Processes, HandlerReturns(p) \/ HandlerThrows(p) PROVE Types'
  BY <1>8, <1>9 DEF HandlerReturns, HandlerThrows
<1>10. ASSUME NEW p \in Processes, Die(p) PROVE Types'
  BY <1>8, <1>10 DEF Die
<1>11. ASSUME NEW p \in Processes, CommitOffset(p) \/ GroupMembership(p) PROVE Types'
  BY <1>11 DEF CommitOffset, GroupMembership, wikiVars, handlerVars, tableVars
<1>12. ASSUME NEW p \in Processes, CacheExpires(p) PROVE Types'
  BY <1>12 DEF CacheExpires, wikiVars, handlerVars, tableVars
<1>13. CASE UNCHANGED vars
  BY <1>13 DEF vars, wikiVars, handlerVars, tableVars
<1> QED
  BY <1>1, <1>2, <1>3, <1>4, <1>5, <1>6, <1>7, <1>9, <1>10, <1>11, <1>12, <1>13
     DEF Next, Handle

LEMMA StepInHandler == Loop!IInv /\ Types /\ InHandler /\ [Next]_vars => InHandler'
<1> SUFFICES ASSUME Loop!IInv, Types, InHandler, [Next]_vars PROVE InHandler'
  OBVIOUS
<1> pc \in [Processes -> {"poll", "handle", "commit", "down"}]
  BY LoopFacts
<1> USE DEF Types, InHandler
<1>1. CASE UNCHANGED <<stage, pc, visited, matches>>
  BY <1>1
<1>2. CASE \/ \E title \in Titles : EditPage(title)
           \/ Recategorize
           \/ \E t \in Topics, status \in {"Confirmed", "Rejected", "Excluded"} : Review(t, status)
           \/ \E p \in Processes : CacheExpires(p)
           \/ UNCHANGED vars
  BY <1>1, <1>2 DEF EditPage, Loop!Append, Recategorize, Review, CacheExpires, loopVars,
     handlerVars, vars
<1>3. ASSUME NEW p \in Processes, Consume(p) PROVE InHandler'
  BY <1>3 DEF Consume, Loop!Consume, Loop!Goto
<1>4. ASSUME NEW p \in Processes,
             SkipExcludedTitle(p) \/ MatchByTitle(p) \/ MatchByCategories(p)
      PROVE  InHandler'
  <2>1. PICK found : Visit(p, found) /\ Found(visited[p] + 1, position[p] - 1, found)
    BY <1>4, VisitFinds
  <2>2. visited[p] + 1 \in Topics /\ stage[p] = "match"
    BY <1>4, VisitFinds
  <2>3. \A q \in Processes \ {p} : matches'[q] = matches[q] /\ visited'[q] = visited[q]
    BY <2>1, <2>2, VisitMatches DEF Visit
  <2> QED
    BY <2>1, <2>2, <2>3 DEF Visit, loopVars
<1>5. ASSUME NEW p \in Processes, UpsertMatch(p) PROVE InHandler'
  <2>1. matches[p] # <<>> /\ stage[p] = "match"
    BY <1>5 DEF UpsertMatch, Storing
  <2> QED
    BY <1>5, <2>1 DEF UpsertMatch, loopVars
<1>6. ASSUME NEW p \in Processes, ProduceMatch(p) PROVE InHandler'
  BY <1>6 DEF ProduceMatch, loopVars
<1>7. ASSUME NEW p \in Processes, Leave(p), NEW place \in {"poll", "commit", "down"},
             pc' = [pc EXCEPT ![p] = place]
      PROVE  InHandler'
  BY <1>7 DEF Leave
<1>8. ASSUME NEW p \in Processes, HandlerReturns(p) \/ HandlerThrows(p) \/ Die(p)
      PROVE  InHandler'
  BY <1>7, <1>8 DEF HandlerReturns, HandlerThrows, Die, Loop!HandlerReturns,
     Loop!HandlerThrows, Loop!Stop, Loop!Crash, Loop!Goto
<1>9. ASSUME NEW p \in Processes, CommitOffset(p) \/ GroupMembership(p) PROVE InHandler'
  <2>1. UNCHANGED <<stage, visited, matches>>
    BY <1>9 DEF CommitOffset, GroupMembership, handlerVars
  <2>2. \A q \in Processes : pc'[q] = "handle" <=> pc[q] = "handle"
    BY <1>9 DEF CommitOffset, GroupMembership, Loop!Commit, Loop!CommitThrows,
       Loop!CommitFenced, Loop!Assign, Loop!Revoke, Loop!Expire, Loop!Restart, Loop!Goto
  <2> QED
    BY <2>1, <2>2
<1> QED
  BY <1>2, <1>3, <1>4, <1>5, <1>6, <1>8, <1>9 DEF Next, Handle

---------------------------------------------------------------------------
(* The table of memberships.                                               *)

\* Who writes the table.
LEMMA RowSteps ==
  [Next]_vars =>
    \/ \E t \in Topics, status \in {"Confirmed", "Rejected", "Excluded"} : Review(t, status)
    \/ \E p \in Processes : UpsertMatch(p)
    \/ UNCHANGED <<row, decided>>
<1>1. CASE \/ \E title \in Titles : EditPage(title)
           \/ Recategorize
           \/ UNCHANGED vars
  BY <1>1 DEF EditPage, Recategorize, vars, tableVars
<1>2. ASSUME NEW p \in Processes,
             \/ Consume(p) \/ CommitOffset(p) \/ GroupMembership(p) \/ Die(p)
             \/ CacheExpires(p) \/ HandlerReturns(p) \/ HandlerThrows(p) \/ ProduceMatch(p)
             \/ SkipExcludedTitle(p) \/ MatchByTitle(p) \/ MatchByCategories(p)
      PROVE  UNCHANGED <<row, decided>>
  BY <1>2 DEF Consume, CommitOffset, GroupMembership, Die, CacheExpires, HandlerReturns,
     HandlerThrows, ProduceMatch, SkipExcludedTitle, MatchByTitle, MatchByCategories, Visit,
     tableVars
<1> QED
  BY <1>1, <1>2 DEF Next, Handle

\* What happens to a match of a process: it was there, or a rule has just made it of
\* the row, or it comes forward when the one before is dealt with.
LEMMA MatchSteps ==
  ASSUME Loop!IInv, Types, InHandler, [Next]_vars, NEW p \in Processes,
         NEW i \in 1 .. Len(matches'[p])
  PROVE  \/ \E j \in 1 .. Len(matches[p]) : matches'[p][i] = matches[p][j]
         \/ \E m \in Matches :
               /\ matches'[p][i] = m /\ m.topic \in Topics /\ m.existing = row[m.topic].status
               /\ m.status = "Confirmed" <=> m.confidence >= ConfirmedThreshold
               /\ row[m.topic].status = "Confirmed" => m.confidence >= row[m.topic].relevance
               /\ UNCHANGED row
<1> DEFINE Kept == \E j \in 1 .. Len(matches[p]) : matches'[p][i] = matches[p][j]
<1>1. CASE matches'[p] = matches[p]
  BY <1>1
<1>2. ASSUME NEW q \in Processes, q # p, Leave(q) \/ UpsertMatch(q) \/ ProduceMatch(q)
      PROVE  Kept
  BY <1>1, <1>2 DEF Leave, UpsertMatch, ProduceMatch, Types
<1>3. CASE Leave(p)
  BY <1>3 DEF Leave, Types
<1>4. CASE UpsertMatch(p) \/ ProduceMatch(p)
  <2>1. matches[p] # <<>>
    BY <1>4 DEF UpsertMatch, ProduceMatch, Storing, InHandler
  <2>2. CASE matches' = matches
    BY <1>1, <2>2
  <2>3. CASE matches' = [matches EXCEPT ![p] = Tail(@)]
    <3>1. matches'[p] = Tail(matches[p])
      BY <2>3 DEF Types
    <3>2. /\ Len(matches[p]) \in Nat /\ Len(matches'[p]) = Len(matches[p]) - 1
          /\ matches'[p][i] = matches[p][i + 1]
      BY <2>1, <3>1, MatchInHand
    <3> QED
      BY <3>2
  <2> QED
    BY <1>4, <2>2, <2>3 DEF UpsertMatch, ProduceMatch
<1>5. ASSUME NEW q \in Processes,
             SkipExcludedTitle(q) \/ MatchByTitle(q) \/ MatchByCategories(q)
      PROVE  \/ Kept
             \/ \E m \in Matches :
                   /\ matches'[p][i] = m /\ m.topic \in Topics /\ m.existing = row[m.topic].status
                   /\ m.status = "Confirmed" <=> m.confidence >= ConfirmedThreshold
                   /\ row[m.topic].status = "Confirmed" => m.confidence >= row[m.topic].relevance
                   /\ UNCHANGED row
  <2>1. PICK found : Visit(q, found) /\ Found(visited[q] + 1, position[q] - 1, found)
    BY <1>5, VisitFinds
  <2> DEFINE t == visited[q] + 1
  <2>2. t \in Topics
    BY <1>5, VisitFinds
  <2>3. row' = row
    BY <2>1 DEF Visit, tableVars
  <2> HIDE DEF t
  <2>4. Found(t, position[q] - 1, found)
    BY <2>1 DEF t
  <2>5. CASE q # p \/ found = <<>>
    <3>1. q # p => matches'[p] = matches[p]
      BY <2>1, <2>2, <2>4, VisitMatches
    <3>2. found = <<>> => matches' = matches
      BY <2>1 DEF Visit, Types
    <3> QED
      BY <1>1, <2>5, <3>1, <3>2
  <2>6. ASSUME q = p, found # <<>>
        PROVE  \/ Kept
               \/ \E m \in Matches :
                     /\ found = <<m>> /\ matches'[p][i] = m
    <3>1. PICK m \in Matches :
             /\ found = <<m>> /\ Len(matches'[p]) = Len(matches[p]) + 1
             /\ matches'[p][Len(matches[p]) + 1] = m
      BY <2>1, <2>2, <2>4, <2>6, VisitMatches
    <3>2. /\ Len(matches[p]) \in Nat
          /\ \A j \in 1 .. Len(matches[p]) : matches'[p][j] = matches[p][j]
      BY <2>1, <2>2, <2>4, <2>6, VisitMatches
    <3>3. CASE i \in 1 .. Len(matches[p])
      BY <3>2, <3>3
    <3>4. CASE i = Len(matches[p]) + 1
      BY <3>1, <3>4
    <3> QED
      BY <3>1, <3>2, <3>3, <3>4
  <2>7. ASSUME found # <<>>
        PROVE  \A m \in Matches : found = <<m>> =>
                  /\ m.topic = t /\ m.existing = row[t].status
                  /\ m.status = "Confirmed" <=> m.confidence >= ConfirmedThreshold
                  /\ row[t].status = "Confirmed" => m.confidence >= row[t].relevance
    BY <2>4, <2>7 DEF Found
  <2> QED
    BY <2>2, <2>3, <2>5, <2>6, <2>7
<1>6. CASE \/ \E title \in Titles : EditPage(title)
           \/ Recategorize
           \/ \E t \in Topics, status \in {"Confirmed", "Rejected", "Excluded"} : Review(t, status)
           \/ \E q \in Processes :
                 Consume(q) \/ CommitOffset(q) \/ GroupMembership(q) \/ CacheExpires(q)
           \/ UNCHANGED vars
  <2>1. matches' = matches
    BY <1>6 DEF EditPage, Recategorize, Review, Consume, CommitOffset, GroupMembership,
       CacheExpires, handlerVars, vars
  <2> QED
    BY <1>1, <2>1
<1>7. ASSUME NEW q \in Processes, HandlerReturns(q) \/ HandlerThrows(q) \/ Die(q)
      PROVE  Leave(q)
  BY <1>7 DEF HandlerReturns, HandlerThrows, Die
<1> QED
  BY <1>2, <1>3, <1>4, <1>5, <1>6, <1>7 DEF Next, Handle

\* What a step does to a row: it stays, is decided by hand, or takes a match.
LEMMA RowEffect ==
  ASSUME Types, InHandler, [Next]_vars, NEW t \in Topics
  PROVE  /\ row[t].status # "none" => row'[t].status # "none"
         /\ row'[t].relevance \in Int /\ row'[t].relevance >= row[t].relevance
         /\ decided \subseteq decided'
         /\ \/ row'[t] = row[t]
            \/ t \in decided'
            \/ \E p \in Processes :
                  /\ UpsertMatch(p) /\ matches[p] # <<>> /\ matches[p][1].topic = t
                  /\ row'[t].status = matches[p][1].status
                  /\ row'[t].relevance >= matches[p][1].confidence
<1> row[t] \in Rows
  BY DEF Types
<1> row[t].relevance \in Int
  BY RowTypes
<1> row[t].relevance >= row[t].relevance
  OBVIOUS
<1>1. ASSUME NEW u \in Topics, NEW status \in {"Confirmed", "Rejected", "Excluded"},
             Review(u, status)
      PROVE  /\ row'[t].status # "none" \/ row'[t] = row[t]
             /\ row'[t].relevance = row[t].relevance
             /\ decided' = decided \cup {u} /\ (t = u \/ row'[t] = row[t])
  <2>1. row' = [row EXCEPT ![u] = [row[u] EXCEPT !.status = status]] /\ decided' = decided \cup {u}
    BY <1>1 DEF Review
  <2>2. CASE t = u
    <3>1. row'[t] = [row[t] EXCEPT !.status = status]
      BY <2>1, <2>2 DEF Types
    <3>2. row'[t].status = status /\ row'[t].relevance = row[t].relevance
      BY <3>1 DEF Rows
    <3> QED
      BY <2>1, <2>2, <3>2
  <2>3. CASE t # u
    BY <2>1, <2>3 DEF Types
  <2> QED
    BY <2>2, <2>3
<1>2. ASSUME NEW p \in Processes, UpsertMatch(p)
      PROVE  /\ matches[p] # <<>>
             /\ \/ row'[t] = row[t]
                \/ /\ matches[p][1].topic = t
                   /\ row'[t].status = matches[p][1].status
                   /\ row'[t].status # "none"
                   /\ row'[t].relevance >= matches[p][1].confidence
                   /\ row'[t].relevance \in Int /\ row'[t].relevance >= row[t].relevance
             /\ decided' = decided
  <2> DEFINE match == matches[p][1]
             after == Membership(match.topic, match)
  <2>1. /\ matches[p] # <<>> /\ match \in Matches /\ match.topic \in Topics
        /\ row' = [row EXCEPT ![match.topic] = after]
        /\ after.status = match.status
        /\ after.relevance >= match.confidence
        /\ after.relevance >= row[match.topic].relevance
        /\ after \in Rows
    BY <1>2, UpsertFacts
  <2>2. match.status # "none" /\ decided' = decided
    BY <1>2, <2>1, MatchTypes DEF UpsertMatch
  <2>4. after.relevance \in Int
    BY <2>1, RowTypes
  <2> HIDE DEF match, after
  <2>3. row'[t] = IF match.topic = t THEN after ELSE row[t]
    BY <2>1 DEF Types
  <2> QED
    BY <2>1, <2>2, <2>3, <2>4 DEF match
<1>3. CASE UNCHANGED <<row, decided>>
  BY <1>3
<1> QED
  BY <1>1, <1>2, <1>3, RowSteps

LEMMA StepConfirmedByRule ==
  /\ Types /\ InHandler /\ ConfirmedByRule /\ [Next]_vars
  /\ \A p \in Processes : MatchesByRule(p)
  => ConfirmedByRule'
<1> SUFFICES ASSUME Types, InHandler, ConfirmedByRule, [Next]_vars,
                    \A p \in Processes : MatchesByRule(p),
                    NEW t \in Topics \ decided', row'[t].status = "Confirmed"
             PROVE  row'[t].relevance >= ConfirmedThreshold
  BY DEF ConfirmedByRule
<1>1. CASE row'[t] = row[t]
  BY <1>1, RowEffect DEF ConfirmedByRule
<1>2. ASSUME NEW p \in Processes, matches[p] # <<>>, matches[p][1].status = "Confirmed",
             row'[t].relevance >= matches[p][1].confidence
      PROVE  row'[t].relevance >= ConfirmedThreshold
  <2>1. 1 \in 1 .. Len(matches[p]) /\ matches[p][1] \in Matches
    BY <1>2, MatchInHand
  <2>2. matches[p][1].confidence >= ConfirmedThreshold
    BY <1>2, <2>1 DEF MatchesByRule
  <2>4. matches[p][1].confidence \in Int
    BY <2>1, MatchTypes
  <2> QED
    BY <1>2, <2>2, <2>4, RowEffect DEF ConfirmedThreshold
<1> QED
  BY <1>1, <1>2, RowEffect

LEMMA StepMatchesByRule ==
  ASSUME Loop!IInv, Types, InHandler, ConfirmedByRule, [Next]_vars, NEW p \in Processes,
         MatchesByRule(p)
  PROVE  MatchesByRule(p)'
<1> SUFFICES ASSUME NEW i \in 1 .. Len(matches'[p])
             PROVE  LET match == matches'[p][i] IN
                    /\ match.status = "Confirmed" <=> match.confidence >= ConfirmedThreshold
                    /\ match.status # "Confirmed" /\ match.existing = "Confirmed" =>
                          match.topic \in decided'
  BY DEF MatchesByRule
<1>1. decided \subseteq decided'
  BY RowSteps DEF Review, UpsertMatch
<1>2. ASSUME NEW j \in 1 .. Len(matches[p]), matches'[p][i] = matches[p][j]
      PROVE  LET match == matches'[p][i] IN
             /\ match.status = "Confirmed" <=> match.confidence >= ConfirmedThreshold
             /\ match.status # "Confirmed" /\ match.existing = "Confirmed" =>
                   match.topic \in decided'
  BY <1>1, <1>2 DEF MatchesByRule
<1>3. ASSUME NEW m \in Matches, m.topic \in Topics, m.existing = row[m.topic].status,
             m.status = "Confirmed" <=> m.confidence >= ConfirmedThreshold,
             row[m.topic].status = "Confirmed" => m.confidence >= row[m.topic].relevance,
             m.status # "Confirmed", m.existing = "Confirmed"
      PROVE  m.topic \in decided
  <2>2. row[m.topic].relevance \in Int
    BY <1>3, RowTypes DEF Types
  <2>4. m.confidence \in Int
    BY MatchTypes
  <2> DEFINE relevance == row[m.topic].relevance
             confidence == m.confidence
  <2>5. ~(relevance >= ConfirmedThreshold)
    <3>1. relevance \in Int /\ confidence \in Int
      BY <2>2, <2>4
    <3>2. confidence >= relevance /\ ~(confidence >= ConfirmedThreshold)
      BY <1>3
    <3> HIDE DEF relevance, confidence
    <3> QED
      BY <3>1, <3>2 DEF ConfirmedThreshold
  <2> QED
    BY <1>3, <2>5 DEF ConfirmedByRule
<1> QED
  BY <1>1, <1>2, <1>3, MatchSteps

\* What is published stays; a match is published while it is in hand.
LEMMA PublishedSteps ==
  ASSUME Loop!IInv, Types, InHandler, [Next]_vars
  PROVE  \/ published' = published
         \/ \E p \in Processes :
               /\ stage[p] = "produce" /\ published' = published \cup {Produced(p)}
               /\ UNCHANGED <<row, log>>
<1>1. ASSUME NEW p \in Processes, HandlerThrows(p) \/ ProduceMatch(p)
      PROVE  \/ published' = published
             \/ stage[p] = "produce" /\ published' = Published(p) /\ UNCHANGED <<row, log>>
  BY <1>1 DEF HandlerThrows, ProduceMatch, tableVars
<1>2. ASSUME NEW p \in Processes,
             \/ Consume(p) \/ CommitOffset(p) \/ GroupMembership(p) \/ Die(p)
             \/ CacheExpires(p) \/ HandlerReturns(p) \/ UpsertMatch(p)
             \/ SkipExcludedTitle(p) \/ MatchByTitle(p) \/ MatchByCategories(p)
      PROVE  published' = published
  BY <1>2 DEF Consume, CommitOffset, GroupMembership, Die, CacheExpires, HandlerReturns,
     UpsertMatch, SkipExcludedTitle, MatchByTitle, MatchByCategories, Visit
<1>3. CASE \/ \E title \in Titles : EditPage(title)
           \/ Recategorize
           \/ \E t \in Topics, status \in {"Confirmed", "Rejected", "Excluded"} : Review(t, status)
           \/ UNCHANGED vars
  BY <1>3 DEF EditPage, Recategorize, Review, vars
<1> QED
  BY <1>1, <1>2, <1>3, ProducedFacts DEF Next, Handle

\* What a step does to the locals of a process.
LEMMA ProcessSteps ==
  ASSUME Loop!IInv, Types, InHandler, [Next]_vars, NEW p \in Processes
  PROVE  \/ /\ stage'[p] = stage[p] \/ stage'[p] # "produce"
            /\ visited'[p] = visited[p] /\ matches'[p] = matches[p]
            /\ visited[p] = 0 \/ position'[p] = position[p]
         \/ visited'[p] = 0 /\ stage'[p] = "idle"
         \/ SkipExcludedTitle(p) \/ MatchByTitle(p) \/ MatchByCategories(p)
         \/ UpsertMatch(p) \/ ProduceMatch(p)
<1> /\ pc \in [Processes -> {"poll", "handle", "commit", "down"}]
    /\ position \in [Processes -> Nat]
  BY LoopFacts
<1> USE DEF Types
<1>1. ASSUME NEW q \in Processes,
             SkipExcludedTitle(q) \/ MatchByTitle(q) \/ MatchByCategories(q)
      PROVE  q # p => UNCHANGED <<stage[p], visited[p], matches[p], position[p]>>
  BY <1>1 DEF SkipExcludedTitle, MatchByTitle, MatchByCategories, Visit, loopVars
<1>2. ASSUME NEW q \in Processes, UpsertMatch(q) \/ ProduceMatch(q)
      PROVE  q # p => UNCHANGED <<stage[p], visited[p], matches[p], position[p]>>
  BY <1>2 DEF UpsertMatch, ProduceMatch, loopVars
<1>3. ASSUME NEW q \in Processes, HandlerReturns(q) \/ HandlerThrows(q) \/ Die(q)
      PROVE  IF q = p
             THEN visited'[p] = 0 /\ stage'[p] = "idle"
             ELSE UNCHANGED <<stage[p], visited[p], matches[p], position[p]>>
  <2>1. Leave(q)
    BY <1>3 DEF HandlerReturns, HandlerThrows, Die
  <2>2. q # p => position'[p] = position[p]
    BY <1>3 DEF HandlerReturns, HandlerThrows, Die, Loop!HandlerReturns,
       Loop!HandlerThrows, Loop!Stop, Loop!Crash
  <2> QED
    BY <2>1, <2>2 DEF Leave
<1>4. ASSUME NEW q \in Processes, Consume(q)
      PROVE  /\ UNCHANGED <<visited[p], matches[p]>>
             /\ stage'[p] = stage[p] \/ stage'[p] # "produce"
             /\ visited[p] = 0 \/ position'[p] = position[p]
  BY <1>4 DEF Consume, Loop!Consume, InHandler
<1>5. ASSUME NEW q \in Processes, CommitOffset(q) \/ GroupMembership(q)
      PROVE  /\ UNCHANGED <<stage[p], visited[p], matches[p]>>
             /\ visited[p] = 0 \/ position'[p] = position[p]
  <2>1. UNCHANGED <<stage, visited, matches>>
    BY <1>5 DEF CommitOffset, GroupMembership, handlerVars
  <2>2. position'[p] = position[p] \/ pc[p] = "poll"
    BY <1>5 DEF CommitOffset, GroupMembership, Loop!Commit, Loop!CommitThrows,
       Loop!CommitFenced, Loop!Assign, Loop!Revoke, Loop!Expire, Loop!Restart
  <2> QED
    BY <2>1, <2>2 DEF InHandler
<1>6. CASE \/ \E title \in Titles : EditPage(title)
           \/ Recategorize
           \/ \E t \in Topics, status \in {"Confirmed", "Rejected", "Excluded"} : Review(t, status)
           \/ \E q \in Processes : CacheExpires(q)
           \/ UNCHANGED vars
  BY <1>6 DEF EditPage, Loop!Append, Recategorize, Review, CacheExpires, loopVars,
     handlerVars, vars
<1> QED
  BY <1>1, <1>2, <1>3, <1>4, <1>5, <1>6 DEF Next, Handle

LEMMA StepStored ==
  Loop!IInv /\ Types /\ InHandler /\ Stored /\ [Next]_vars => Stored'
<1> SUFFICES ASSUME Loop!IInv, Types, InHandler, Stored, [Next]_vars PROVE Stored'
  OBVIOUS
\* Membership lasts and its relevance does not fall.
<1>1. ASSUME NEW topic \in Topics, NEW confidence \in Int, row[topic].status # "none",
             row[topic].relevance >= confidence
      PROVE  row'[topic].status # "none" /\ row'[topic].relevance >= confidence
  <2>1. row[topic].relevance \in Int
    BY RowTypes DEF Types
  <2> QED
    BY <1>1, <2>1, RowEffect
<1>2. ASSUME NEW m \in published PROVE Member(m)'
  <2>1. m.topic \in Topics /\ m.confidence \in Likely
    BY DEF Types, MatchedEdits
  <2>2. m.confidence \in Int
    BY Scale, <2>1 DEF CandidateThreshold
  <2> QED
    BY <1>1, <2>1, <2>2 DEF Stored, Member
<1>3. ASSUME NEW p \in Processes, stage[p] = "produce", UNCHANGED row, NEW e, e = Produced(p)
      PROVE  Member(e)'
  <2>1. e.topic = matches[p][1].topic /\ e.confidence = matches[p][1].confidence
    BY <1>3 DEF Produced
  <2>2. Member(matches[p][1])
    BY <1>3 DEF Stored
  <2> QED
    BY <1>3, <2>1, <2>2 DEF Member
<1>4. ASSUME NEW p \in Processes, stage'[p] = "produce", NEW m, m = matches'[p][1]
      PROVE  Member(m)'
  <2>1. CASE stage[p] = "produce" /\ matches'[p] = matches[p]
    <3>1. m \in Matches
      BY <1>4, <2>1, ProducedFacts
    <3>2. m.topic \in Topics /\ m.confidence \in Int /\ Member(m)
      BY <1>4, <2>1, <3>1, MatchTypes DEF Stored
    <3> QED
      BY <1>1, <3>2 DEF Member
  <2>2. CASE UpsertMatch(p)
    <3>1. matches' = matches
      BY <1>4, <2>2 DEF UpsertMatch, Storing, Types
    <3>2. /\ m \in Matches /\ m.topic \in Topics
          /\ row' = [row EXCEPT ![m.topic] = Membership(m.topic, m)]
          /\ Membership(m.topic, m).status = m.status
          /\ Membership(m.topic, m).relevance >= m.confidence
      BY <1>4, <2>2, <3>1, UpsertFacts
    <3>3. row'[m.topic] = Membership(m.topic, m)
      BY <3>2 DEF Types
    <3>4. m.status # "none"
      BY <3>2, MatchTypes
    <3> QED
      BY <3>2, <3>3, <3>4, Zenon DEF Member
  <2>3. CASE SkipExcludedTitle(p) \/ MatchByTitle(p) \/ MatchByCategories(p)
    <3>1. stage[p] = "match" /\ stage' = stage
      BY <2>3, VisitFinds DEF Visit
    <3> QED
      BY <1>4, <3>1
  <2>4. CASE ProduceMatch(p)
    BY <1>4, <2>4 DEF ProduceMatch, Types
  <2> QED
    BY <1>4, <2>1, <2>2, <2>3, <2>4, ProcessSteps
<1>5. ASSUME NEW m \in published' PROVE Member(m)'
  BY <1>2, <1>3, <1>5, PublishedSteps
<1> QED
  BY <1>4, <1>5 DEF Stored

---------------------------------------------------------------------------
(* The edits of seeds.                                                     *)

\* The partition only grows, and what is published stays.
LEMMA LogSteps == [Next]_vars => log' = log \/ \E title \in Titles : log' = Append(log, title)
<1>1. ASSUME NEW p \in Processes,
             \/ Consume(p) \/ CommitOffset(p) \/ GroupMembership(p) \/ Die(p)
             \/ CacheExpires(p) \/ HandlerReturns(p) \/ HandlerThrows(p) \/ ProduceMatch(p)
             \/ UpsertMatch(p)
             \/ SkipExcludedTitle(p) \/ MatchByTitle(p) \/ MatchByCategories(p)
      PROVE  log' = log
  BY <1>1 DEF Consume, CommitOffset, GroupMembership, Die, CacheExpires, HandlerReturns,
     HandlerThrows, ProduceMatch, UpsertMatch, SkipExcludedTitle, MatchByTitle,
     MatchByCategories, Visit
<1>2. CASE \/ \E title \in Titles : EditPage(title)
           \/ Recategorize
           \/ \E t \in Topics, status \in {"Confirmed", "Rejected", "Excluded"} : Review(t, status)
           \/ UNCHANGED vars
  BY <1>2 DEF EditPage, Recategorize, Review, vars
<1> QED
  BY <1>1, <1>2 DEF Next, Handle

LEMMA SeededKept ==
  ASSUME Types, [Next]_vars, NEW t, NEW o \in Nat, o < Len(log)
  PROVE  Seeded(t, o)' <=> Seeded(t, o)
<1>1. log \in Seq(Titles)
  BY DEF Types
<1>2. log'[o + 1] = log[o + 1]
  BY <1>1, LogSteps
<1> QED
  BY <1>2 DEF Seeded

LEMMA AnnouncedKept ==
  ASSUME Loop!IInv, Types, InHandler, [Next]_vars, NEW t, NEW o, Announced(t, o)
  PROVE  Announced(t, o)'
<1>1. published \subseteq published'
  BY PublishedSteps
<1> QED
  BY <1>1 DEF Announced

LEMMA StepSeedsCarried ==
  ASSUME Loop!IInv, Types, InHandler, [Next]_vars, NEW p \in Processes, SeedsCarried(p)
  PROVE  SeedsCarried(p)'
<1> SUFFICES ASSUME NEW t \in 1 .. visited'[p], NEW o, o = position'[p] - 1, Seeded(t, o)'
             PROVE  Waits(p, t)' \/ Announced(t, o)'
  BY DEF SeedsCarried
<1>1. visited[p] \in Nat /\ visited'[p] \in Nat
  BY StepTypes DEF Types
<1>2. ASSUME stage[p] # "idle", position'[p] = position[p]
      PROVE  o \in Nat /\ o = position[p] - 1 /\ Seeded(t, o)
  <2>1. pc[p] = "handle"
    BY <1>2 DEF InHandler
  <2>2. position[p] \in Nat /\ position[p] > 0 /\ position[p] <= Len(log)
    BY <2>1, LoopFacts
  <2>3. log \in Seq(Titles) /\ Len(log) \in Nat
    BY DEF Types
  <2>4. o \in Nat /\ o = position[p] - 1 /\ o < Len(log)
    BY <1>2, <2>2, <2>3
  <2> QED
    BY <2>4, SeededKept
<1>3. ASSUME stage[p] # "idle", position'[p] = position[p], t <= visited[p]
      PROVE  Waits(p, t) \/ Announced(t, o)'
  <2>1. o = position[p] - 1 /\ Seeded(t, o) /\ t \in 1 .. visited[p]
    BY <1>1, <1>2, <1>3
  <2>2. Waits(p, t) \/ Announced(t, o)
    BY <2>1 DEF SeedsCarried
  <2> QED
    BY <2>2, AnnouncedKept
<1>4. CASE /\ visited'[p] = visited[p] /\ matches'[p] = matches[p]
           /\ visited[p] = 0 \/ position'[p] = position[p]
  <2>1. visited[p] # 0 /\ t <= visited[p]
    BY <1>1, <1>4
  <2>2. stage[p] # "idle"
    BY <2>1 DEF InHandler
  <2>3. Waits(p, t) => Waits(p, t)'
    BY <1>4 DEF Waits
  <2> QED
    BY <1>3, <1>4, <2>1, <2>2, <2>3
<1>5. CASE visited'[p] = 0
  BY <1>5
<1>6. CASE SkipExcludedTitle(p) \/ MatchByTitle(p) \/ MatchByCategories(p)
  <2>1. PICK found : Visit(p, found) /\ Found(visited[p] + 1, position[p] - 1, found)
    BY <1>6, VisitFinds
  <2>2. stage[p] = "match" /\ visited[p] + 1 \in Topics
    BY <1>6, VisitFinds
  <2>3. position'[p] = position[p] /\ visited'[p] = visited[p] + 1
    BY <2>1 DEF Visit, loopVars, Types
  <2>4. /\ Len(matches[p]) \in Nat
        /\ \A i \in 1 .. Len(matches[p]) : matches'[p][i] = matches[p][i]
        /\ \/ found = <<>> /\ matches' = matches
           \/ \E m \in Matches :
                 /\ found = <<m>> /\ Len(matches'[p]) = Len(matches[p]) + 1
                 /\ matches'[p][Len(matches[p]) + 1] = m
    BY <2>1, <2>2, VisitMatches
  <2>5. CASE t <= visited[p]
    <3>1. Len(matches'[p]) = Len(matches[p]) \/ Len(matches'[p]) = Len(matches[p]) + 1
      BY <2>4
    <3>2. ASSUME Waits(p, t) PROVE Waits(p, t)'
      <4>1. PICK i \in 1 .. Len(matches[p]) :
               matches[p][i].topic = t /\ matches[p][i].confidence >= 950
        BY <3>2 DEF Waits
      <4>2. i \in 1 .. Len(matches'[p]) /\ matches'[p][i] = matches[p][i]
        BY <2>4, <3>1
      <4> QED
        BY <4>1, <4>2 DEF Waits
    <3> QED
      BY <1>3, <2>2, <2>3, <2>5, <3>2
  <2>6. CASE t = visited[p] + 1
    <3>1. Seeded(t, position[p] - 1)
      BY <1>2, <2>2, <2>3
    <3>2. PICK m \in Matches : found = <<m>> /\ m.topic = t /\ m.confidence >= 950
      BY <2>1, <2>6, <3>1 DEF Found
    <3>3. /\ Len(matches'[p]) = Len(matches[p]) + 1
          /\ matches'[p][Len(matches[p]) + 1] = m
      BY <2>4, <3>2
    <3>4. Len(matches[p]) + 1 \in 1 .. Len(matches'[p])
      BY <2>4, <3>3
    <3> QED
      BY <3>2, <3>3, <3>4 DEF Waits
  <2> QED
    BY <1>1, <2>3, <2>5, <2>6
<1>7. ASSUME matches[p] # <<>>, matches'[p] = Tail(matches[p]), Waits(p, t)
      PROVE  Waits(p, t)' \/ (matches[p][1].topic = t /\ matches[p][1].confidence >= 950)
  <2>1. PICK i \in 1 .. Len(matches[p]) :
           matches[p][i].topic = t /\ matches[p][i].confidence >= 950
    BY <1>7 DEF Waits
  <2>2. /\ Len(matches[p]) \in Nat /\ Len(matches'[p]) = Len(matches[p]) - 1
        /\ \A j \in 1 .. Len(matches'[p]) : matches'[p][j] = matches[p][j + 1]
    BY <1>7, MatchInHand
  <2>3. CASE i # 1
    <3>1. i - 1 \in 1 .. Len(matches'[p]) /\ i - 1 + 1 = i
      BY <2>2, <2>3
    <3>2. matches'[p][i - 1] = matches[p][i]
      BY <2>2, <3>1
    <3> QED
      BY <2>1, <3>1, <3>2 DEF Waits
  <2> QED
    BY <2>1, <2>3
<1>8. CASE UpsertMatch(p)
  <2>1. /\ stage[p] = "match" /\ matches[p] # <<>>
        /\ visited'[p] = visited[p] /\ position'[p] = position[p]
    BY <1>8 DEF UpsertMatch, Storing, loopVars
  <2>2. Waits(p, t) \/ Announced(t, o)'
    BY <1>1, <1>3, <2>1
  <2>3. CASE matches' = matches
    BY <2>2, <2>3 DEF Waits
  <2>4. CASE /\ matches' = [matches EXCEPT ![p] = Tail(@)]
             /\ Head(matches[p]).confidence < DetectorPublishThreshold
    <3>1. matches'[p] = Tail(matches[p])
      BY <2>4 DEF Types
    <3>2. matches[p][1].confidence < 500 /\ matches[p][1].confidence \in Int
      BY <2>1, <2>4, MatchInHand, MatchTypes DEF DetectorPublishThreshold
    <3>3. ~(matches[p][1].confidence >= 950)
      <4> DEFINE c == matches[p][1].confidence
      <4>1. c < 500 /\ c \in Int
        BY <3>2
      <4> HIDE DEF c
      <4>2. ~(c >= 950)
        BY <4>1
      <4> QED
        BY <4>2 DEF c
    <3> QED
      BY <1>7, <2>1, <2>2, <3>1, <3>3
  <2> QED
    BY <1>8, <2>3, <2>4 DEF UpsertMatch
<1>9. CASE ProduceMatch(p)
  <2>1. /\ stage[p] = "produce" /\ published' = Published(p)
        /\ visited'[p] = visited[p] /\ position'[p] = position[p]
        /\ matches'[p] = Tail(matches[p])
    BY <1>9 DEF ProduceMatch, loopVars, Types
  <2>2. matches[p] # <<>> /\ Produced(p) \in published'
    BY <2>1, ProducedFacts
  <2>3. Waits(p, t) \/ Announced(t, o)'
    BY <1>1, <1>3, <2>1
  <2>4. ASSUME matches[p][1].topic = t, matches[p][1].confidence >= 950
        PROVE  Announced(t, o)'
    <3>1. /\ Produced(p).topic = t /\ Produced(p).confidence >= 950
          /\ Produced(p).offset = o
      BY <1>2, <2>1, <2>4 DEF Produced
    <3> QED
      BY <2>2, <3>1 DEF Announced
  <2> QED
    BY <1>7, <2>1, <2>2, <2>3, <2>4
<1> QED
  BY <1>4, <1>5, <1>6, <1>8, <1>9, ProcessSteps

\* Who calls an edit handled.
LEMMA HandledSteps ==
  [Next]_vars => handled' = handled \/ \E p \in Processes : HandlerReturns(p)
<1>1. ASSUME NEW p \in Processes, Consume(p) \/ HandlerThrows(p) \/ Die(p) PROVE handled' = handled
  BY <1>1 DEF Consume, HandlerThrows, Die, Loop!Consume, Loop!HandlerThrows, Loop!Stop,
     Loop!Crash
<1>2. ASSUME NEW p \in Processes, CommitOffset(p) \/ GroupMembership(p) PROVE handled' = handled
  BY <1>2 DEF CommitOffset, GroupMembership, Loop!Commit, Loop!CommitThrows,
     Loop!CommitFenced, Loop!Assign, Loop!Revoke, Loop!Expire, Loop!Restart
<1>3. ASSUME NEW p \in Processes,
             \/ CacheExpires(p) \/ ProduceMatch(p) \/ UpsertMatch(p)
             \/ SkipExcludedTitle(p) \/ MatchByTitle(p) \/ MatchByCategories(p)
      PROVE  handled' = handled
  BY <1>3 DEF CacheExpires, ProduceMatch, UpsertMatch, SkipExcludedTitle, MatchByTitle,
     MatchByCategories, Visit, loopVars
<1>4. CASE \/ \E title \in Titles : EditPage(title)
           \/ Recategorize
           \/ \E t \in Topics, status \in {"Confirmed", "Rejected", "Excluded"} : Review(t, status)
           \/ UNCHANGED vars
  BY <1>4 DEF EditPage, Loop!Append, Recategorize, Review, loopVars, vars
<1> QED
  BY <1>1, <1>2, <1>3, <1>4 DEF Next, Handle

LEMMA StepHandledAnnounced ==
  /\ Loop!IInv /\ Types /\ InHandler /\ HandledAnnounced /\ [Next]_vars
  /\ \A p \in Processes : SeedsCarried(p)
  => HandledAnnounced'
<1> SUFFICES ASSUME Loop!IInv, Types, InHandler, HandledAnnounced, [Next]_vars,
                    \A p \in Processes : SeedsCarried(p),
                    NEW o \in handled', NEW t \in Topics, Seeded(t, o)'
             PROVE  Announced(t, o)'
  BY DEF HandledAnnounced
<1>1. CASE o \in handled
  <2>1. o \in Nat /\ o < Len(log)
    BY <1>1, LoopFacts
  <2> QED
    BY <1>1, <2>1, SeededKept, AnnouncedKept DEF HandledAnnounced
<1>2. ASSUME NEW p \in Processes, HandlerReturns(p), o \notin handled
      PROVE  Announced(t, o)'
  <2>1. /\ stage[p] = "match" /\ visited[p] = NumTopics /\ matches[p] = <<>>
        /\ o = position[p] - 1
    BY <1>2 DEF HandlerReturns, Loop!HandlerReturns, Loop!InHand
  <2>2. pc[p] = "handle"
    BY <2>1 DEF InHandler
  <2>3. position[p] \in Nat /\ position[p] > 0 /\ position[p] <= Len(log)
    BY <2>2, LoopFacts
  <2>4. Len(log) \in Nat
    BY DEF Types
  <2>5. o \in Nat /\ o < Len(log)
    BY <2>1, <2>3, <2>4
  <2>6. Seeded(t, position[p] - 1)
    BY <2>1, <2>5, SeededKept
  <2>7. t \in 1 .. visited[p]
    BY <2>1 DEF Topics
  <2>8. Waits(p, t) \/ Announced(t, position[p] - 1)
    BY <2>6, <2>7 DEF SeedsCarried
  <2>9. ~Waits(p, t)
    BY <2>1 DEF Waits
  <2> QED
    BY <2>1, <2>8, <2>9, AnnouncedKept
<1> QED
  BY <1>1, <1>2, HandledSteps

---------------------------------------------------------------------------
(* The theorems.                                                           *)

LEMMA InitIInv == Init => IInv
<1> SUFFICES ASSUME Init PROVE IInv
  OBVIOUS
<1>1. 0 \in 0 .. NumTopics /\ NumTopics \in Nat
  BY BoundsAssumption
<1>2. NoRow \in Rows /\ NoRow.status = "none"
  BY Scale DEF NoRow, Rows, Statuses
<1>3. <<>> \in Seq(Titles) /\ <<>> \in Seq(Matches) /\ Len(<<>>) = 0
  OBVIOUS
<1>4. Types
  BY <1>1, <1>2, <1>3 DEF Init, Types
<1>5. InHandler
  BY DEF Init, Loop!Init, InHandler
<1>6. ConfirmedByRule /\ \A p \in Processes : MatchesByRule(p)
  BY <1>2, <1>3 DEF Init, ConfirmedByRule, MatchesByRule
<1>7. Stored
  BY DEF Init, Stored
<1>8. HandledAnnounced /\ \A p \in Processes : SeedsCarried(p)
  BY DEF Init, Loop!Init, HandledAnnounced, SeedsCarried
<1> QED
  BY <1>4, <1>5, <1>6, <1>7, <1>8 DEF IInv

\* Everything the worker maintains, whatever the rules and however many processes
\* share the partition.
THEOREM Inductive == Spec => [](Loop!IInv /\ IInv)
<1>1. Loop!IInv /\ IInv /\ [Next]_vars => IInv'
  <2> SUFFICES ASSUME Loop!IInv, IInv, [Next]_vars PROVE IInv'
    OBVIOUS
  <2> /\ Types /\ InHandler /\ ConfirmedByRule /\ Stored /\ HandledAnnounced
      /\ \A p \in Processes : MatchesByRule(p) /\ SeedsCarried(p)
    BY DEF IInv
  <2>1. Types' /\ InHandler' /\ ConfirmedByRule' /\ Stored' /\ HandledAnnounced'
    BY StepTypes, StepInHandler, StepConfirmedByRule, StepStored, StepHandledAnnounced
  <2>2. \A p \in Processes : MatchesByRule(p)' /\ SeedsCarried(p)'
    BY StepMatchesByRule, StepSeedsCarried
  <2> QED
    BY <2>1, <2>2 DEF IInv
<1>2. Spec => []Loop!IInv
  BY MatcherImplementsLoop, LoopInvariant, PTL DEF ImplementsLoop
<1> QED
  BY <1>1, <1>2, InitIInv, PTL DEF Spec

\* The variables keep their types, and a handler runs exactly while the loop waits
\* for it.
THEOREM TypeCorrect == Spec => []TypeOK
<1>1. ASSUME Loop!IInv, IInv PROVE TypeOK
  <2> Types /\ InHandler
    BY <1>1 DEF IInv
  <2>1. Loop!TypeOK
    BY <1>1 DEF Loop!IInv
  <2>2. ASSUME NEW t \in Topics
        PROVE  row[t].status \in Statuses /\ row[t].relevance \in Thousandths
    BY RowTypes DEF Types
  <2>3. ASSUME NEW p \in Processes
        PROVE  /\ stage[p] \in {"idle", "match", "produce"}
               /\ stage[p] # "idle" <=> pc[p] = "handle"
               /\ visited[p] \in 0 .. NumTopics
               /\ fetched[p] \in CategorySets \cup {NoCategories, NotCached}
               /\ known[p] \in CategorySets \cup {NotCached}
    BY DEF Types, InHandler
  <2> QED
    BY <2>1, <2>2, <2>3, Zenon DEF TypeOK, Statuses, Thousandths
<1> QED
  BY <1>1, Inductive, PTL

\* An edit of a seed whose offset is passed reached the detector for every topic it
\* is a seed of, unless its handler threw: an edit that is handled is announced, and
\* what is committed is handled or failed.
THEOREM SeedsReachDetector == Spec => []SeededEditsPublished
<1>1. ASSUME Loop!IInv, IInv PROVE SeededEditsPublished
  <2> SUFFICES ASSUME NEW o \in 0 .. committed - 1, NEW t \in Topics, o \notin failed,
                      Rules[t].seedPage \/ log[o + 1] \in Rules[t].seedTitles,
                      log[o + 1] \notin Rules[t].excludeTitles
               PROVE  Announced(t, o)
    BY DEF SeededEditsPublished, Announced
  <2>1. o \in handled
    BY <1>1, LoopFacts
  <2> QED
    BY <1>1, <2>1 DEF IInv, HandledAnnounced, Seeded
<1> QED
  BY <1>1, Inductive, PTL

\* What the detector hears of is a membership the table holds, no less relevant.
THEOREM AnnouncedAreMembers == Spec => []PublishedIsMember
<1>1. ASSUME Loop!IInv, IInv PROVE PublishedIsMember
  <2>1. ASSUME NEW m \in published PROVE row[m.topic] # NoRow /\ row[m.topic].relevance >= m.confidence
    <3>1. Member(m)
      BY <1>1 DEF IInv, Stored
    <3> QED
      BY <3>1 DEF Member, NoRow
  <2> QED
    BY <2>1 DEF PublishedIsMember
<1> QED
  BY <1>1, Inductive, PTL

\* A page confirmed by the rules is demoted only by a person or by a process whose
\* handler read the row before it was confirmed: a Confirmed row that nobody decided
\* by hand is relevant enough to confirm the match it counts in.
THEOREM RulesConfirmForGood == Spec => ConfirmedSticks
<1> DEFINE Sticks == \A t \in Topics \ decided' :
                        row[t].status = "Confirmed" /\ row'[t].status # "Confirmed" =>
                           \E p \in Processes :
                              /\ Storing(p)
                              /\ Head(matches[p]).topic = t
                              /\ Head(matches[p]).existing # "Confirmed"
<1>1. ASSUME Loop!IInv, IInv, [Next]_vars PROVE Sticks
  <2> /\ Types /\ InHandler
      /\ \A p \in Processes : MatchesByRule(p)
    BY <1>1 DEF IInv
  <2> SUFFICES ASSUME NEW t \in Topics \ decided',
                      row[t].status = "Confirmed", row'[t].status # "Confirmed"
               PROVE  \E p \in Processes :
                         /\ Storing(p)
                         /\ Head(matches[p]).topic = t
                         /\ Head(matches[p]).existing # "Confirmed"
    OBVIOUS
  <2>1. PICK p \in Processes :
           /\ UpsertMatch(p) /\ matches[p] # <<>> /\ matches[p][1].topic = t
           /\ row'[t].status = matches[p][1].status
    BY <1>1, RowEffect
  <2>2. t \notin decided
    BY <1>1, RowEffect
  <2>3. Head(matches[p]) = matches[p][1] /\ 1 \in 1 .. Len(matches[p])
    BY <2>1, MatchInHand
  <2>4. matches[p][1].existing # "Confirmed"
    BY <2>1, <2>2, <2>3 DEF MatchesByRule
  <2> QED
    BY <2>1, <2>3, <2>4 DEF UpsertMatch
<1>2. Spec => [][Sticks]_vars
  BY <1>1, Inductive, PTL DEF Spec
<1> QED
  BY <1>2, PTL DEF ConfirmedSticks
=============================================================================
