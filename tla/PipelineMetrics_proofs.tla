----------------------- MODULE PipelineMetrics_proofs -----------------------
(***************************************************************************)
(* Theorems about PipelineMetrics, for any number of pages, partitions,    *)
(* records and faults.                                                     *)
(***************************************************************************)
EXTENDS PipelineMetrics, TLAPS

Results == [status : {"unread", "healthy", "catching_up", "backlog", "unavailable"},
            lag : Nat, backlog : Nat]

Requests == [pc : {"idle", "stage", "watermarks", "answer"}, stage : Stages,
             offsets : [Partitions -> Int], owed : [Partitions -> Nat],
             next : 1 .. NumPartitions + 1, current : Nat, lag : Nat, backlog : Nat,
             stages : [Stages -> Results]]

Types ==
    /\ logEnd \in [Partitions -> Nat] /\ committed \in [Partitions -> Int]
    /\ \A p \in Partitions : CommittedOffset(committed[p]) <= logEnd[p]
    /\ sample \in [Stages -> Int] /\ accounted \in [Stages -> Int]
    /\ page \in [Pages -> {"loading", "catching up", "healthy", "offline"}]
    /\ request \in [Pages -> Requests]
    /\ \A pg \in Pages : request[pg].pc = "stage" =>
          request[pg].next = 1 /\ request[pg].current = 0

---------------------------------------------------------------------------
(* The lag that is shown covers the backlog.                               *)

\* What a partition owed when the committed offsets were read it still owes to them.
Owing ==
    \A pg \in Pages : \A p \in Partitions : LET r == request[pg] IN
        IF HasGroup(r.stage)
        THEN r.owed[p] <= AtLeastZero(logEnd[p] - CommittedOffset(r.offsets[p]))
        ELSE r.owed[p] = 0

Covered(result) == result.lag >= result.backlog /\ (result.status = "healthy" => result.lag = 0)

Covering ==
    \A pg \in Pages : LET r == request[pg] IN
        r.lag >= r.backlog /\ \A s \in Stages : Covered(r.stages[s])

---------------------------------------------------------------------------
(* Rates count each message once.                                          *)

\* What a request that reads the stage now finds at the partition.
Now(s, p) == IF HasGroup(s) THEN CommittedOffset(committed[p]) ELSE logEnd[p]

\* A request knows no offset that has not been committed.
Behind ==
    \A pg \in Pages : \A p \in Partitions :
        CommittedOffset(request[pg].offsets[p]) <= CommittedOffset(committed[p])

\* The sums of what was found at the first n partitions, for each n, where nothing was
\* found that is not there any more.
SumsTo(n, s, total, sum) ==
    /\ sum \in [0 .. n -> Nat] /\ sum[0] = 0 /\ sum[n] = total
    /\ \A p \in 1 .. n : sum[p] <= sum[p - 1] + Now(s, p)

\* A request has summed up what it found at the partitions it asked about.
Summing ==
    \A pg \in Pages : LET r == request[pg] IN
        r.pc = "watermarks" => \E sum \in [0 .. r.next - 1 -> Nat] :
            SumsTo(r.next - 1, r.stage, r.current, sum)

\* A request is not behind the sums the sample was made of, and what it has still
\* to find keeps it so.
NotBehind(pg, sum) ==
    LET r == request[pg] IN
    /\ r.current >= sum[r.next - 1]
    /\ \A p \in Partitions : p >= r.next => sum[p] <= sum[p - 1] + Current(pg, p)

Sampled ==
    \A s \in Stages : sample[s] # Unset => \E sum \in [0 .. NumPartitions -> Nat] :
        /\ SumsTo(NumPartitions, s, sample[s], sum)
        /\ s \notin overlapped => \A pg \in Pages : Reading(pg, s) => NotBehind(pg, sum)

\* Two requests that read a stage at once have been noticed.
Alone ==
    \A s \in Stages \ overlapped : \A pg, other \in Pages :
        Reading(pg, s) /\ Reading(other, s) => pg = other

IInv ==
    /\ Types /\ Owing /\ Covering
    /\ Behind /\ Summing /\ Sampled /\ Alone /\ MessagesCountedOnce

---------------------------------------------------------------------------
(* What the actions do to the requests.                                    *)

\* Nothing of a stage has been read.
Cleared(r) ==
    /\ r.pc \in {"idle", "stage", "answer"}
    /\ r.offsets = NothingCommitted /\ r.owed = NothingOwed
    /\ r.next = 1 /\ r.current = 0 /\ r.lag = 0 /\ r.backlog = 0

\* r becomes t: the committed offsets of its stage are read.
Began(r, t) ==
    /\ r.pc = "stage" /\ t.pc = "watermarks" /\ t.stage = r.stage /\ t.stages = r.stages
    /\ t.next = r.next /\ t.current = r.current /\ t.lag = r.lag /\ t.backlog = r.backlog
    /\ t.offsets = IF HasGroup(r.stage) THEN committed ELSE r.offsets
    /\ t.owed = IF HasGroup(r.stage) THEN [p \in Partitions |-> Lag(p)] ELSE r.owed

\* r, of the page, becomes t: the end of the next partition is read.
Asked(pg, r, t) ==
    /\ r.pc = "watermarks" /\ r.next \in Partitions
    /\ t.pc = r.pc /\ t.stage = r.stage /\ t.stages = r.stages
    /\ t.offsets = r.offsets /\ t.owed = r.owed
    /\ t.next = r.next + 1
    /\ t.current = r.current + Current(pg, r.next)
    /\ t.lag = r.lag + AtLeastZero(logEnd[r.next] - Current(pg, r.next))
    /\ t.backlog = r.backlog + r.owed[r.next]

LEMMA Bounds ==
  ASSUME Types
  PROVE  /\ NumPartitions \in Nat /\ CatchingUp \in Nat
         /\ \A n : CommittedOffset(n) = AtLeastZero(n)
         /\ \A n \in Int : AtLeastZero(n) \in Nat /\ AtLeastZero(n) >= n
         /\ \A p \in Partitions : Lag(p) \in Nat /\ logEnd[p] \in Nat /\ committed[p] \in Int
                                  /\ CommittedOffset(committed[p]) \in Nat
         /\ \A pg \in Pages : \A p \in Partitions : Current(pg, p) \in Nat
<1>1. \A n \in Int : AtLeastZero(n) \in Nat /\ AtLeastZero(n) >= n
  BY DEF AtLeastZero
<1>2. \A p \in Partitions : logEnd[p] \in Nat /\ committed[p] \in Int
  BY DEF Types
<1>3. \A n : CommittedOffset(n) = AtLeastZero(n)
  BY DEF CommittedOffset
<1>4. \A p \in Partitions : CommittedOffset(committed[p]) \in Nat /\ Lag(p) \in Nat
  <2> SUFFICES ASSUME NEW p \in Partitions
               PROVE  CommittedOffset(committed[p]) \in Nat /\ Lag(p) \in Nat
    OBVIOUS
  <2>1. CommittedOffset(committed[p]) \in Nat
    BY <1>1, <1>2, <1>3
  <2>2. CommittedOffset(committed[p]) <= logEnd[p]
    BY DEF Types
  <2> QED
    BY <1>2, <2>1, <2>2 DEF Lag
<1>5. \A pg \in Pages : \A p \in Partitions : Current(pg, p) \in Nat
  <2> SUFFICES ASSUME NEW pg \in Pages, NEW p \in Partitions PROVE Current(pg, p) \in Nat
    OBVIOUS
  <2>1. request[pg].offsets[p] \in Int
    BY DEF Types, Requests
  <2> QED
    BY <1>1, <1>2, <1>3, <2>1 DEF Current
<1> QED
  BY <1>1, <1>2, <1>3, <1>4, <1>5, MetricsAssumption

LEMMA IdleIsCleared ==
  ASSUME NumPartitions \in Nat
  PROVE  /\ Idle \in Requests /\ Cleared(Idle) /\ Idle.pc = "idle"
         /\ \A s \in Stages : Covered(Idle.stages[s])
         /\ NothingCommitted \in [Partitions -> Int] /\ NothingOwed \in [Partitions -> Nat]
<1>1. NothingCommitted \in [Partitions -> Int] /\ NothingOwed \in [Partitions -> Nat]
  BY DEF NothingCommitted, NothingOwed, Unset
<1>2. "collector" \in Stages /\ 1 \in 1 .. NumPartitions + 1
  BY DEF Stages
<1>3. Unread \in Results
  BY DEF Unread, Results
<1>4. Covered(Unread)
  BY DEF Unread, Covered
<1> QED
  BY <1>1, <1>2, <1>3, <1>4 DEF Idle, Requests, Cleared

\* A request that goes on to the next stage or to the answer.
LEMMA Adding ==
  ASSUME Types, NEW pg \in Pages, NEW result \in Results, Add(pg, result)
  PROVE  /\ request' \in [Pages -> Requests]
         /\ \A other \in Pages \ {pg} : request'[other] = request[other]
         /\ Cleared(request'[pg])
         /\ \A s \in Stages :
               \/ request'[pg].stages[s] = result
               \/ request'[pg].stages[s] = request[pg].stages[s]
<1> DEFINE r == request[pg]
           t == [Idle EXCEPT !.pc = IF r.stage = "collector" THEN "stage" ELSE "answer",
                             !.stage = "topicmatcher",
                             !.stages = [r.stages EXCEPT ![r.stage] = result]]
<1>1. r \in Requests /\ request \in [Pages -> Requests]
  BY DEF Types
<1>2. request' = [request EXCEPT ![pg] = t]
  BY DEF Add
<1>3. /\ Idle \in Requests /\ Cleared(Idle)
      /\ NothingCommitted \in [Partitions -> Int] /\ NothingOwed \in [Partitions -> Nat]
  BY Bounds, IdleIsCleared
<1>4. [r.stages EXCEPT ![r.stage] = result] \in [Stages -> Results]
  BY <1>1 DEF Requests
<1>5. t \in Requests
  BY <1>1, <1>3, <1>4 DEF Requests, Stages
<1>6. Cleared(t)
  BY <1>3 DEF Cleared, Requests
<1>7. \A s \in Stages : t.stages[s] = result \/ t.stages[s] = r.stages[s]
  BY <1>1, <1>3 DEF Requests
<1> HIDE DEF t
<1> QED
  BY <1>1, <1>2, <1>5, <1>6, <1>7

LEMMA Beginning ==
  ASSUME Types, NEW pg \in Pages, ReadCommitted(pg)
  PROVE  /\ request' \in [Pages -> Requests]
         /\ \A other \in Pages \ {pg} : request'[other] = request[other]
         /\ Began(request[pg], request'[pg])
<1> DEFINE r == request[pg]
           offsets == IF HasGroup(r.stage) THEN committed ELSE r.offsets
           owed == IF HasGroup(r.stage) THEN [p \in Partitions |-> Lag(p)] ELSE r.owed
           t == [r EXCEPT !.pc = "watermarks", !.offsets = offsets, !.owed = owed]
<1>1. r \in Requests /\ request \in [Pages -> Requests]
  BY DEF Types
<1>2. request' = [request EXCEPT ![pg] = t] /\ r.pc = "stage"
  BY DEF ReadCommitted
<1>3. offsets \in [Partitions -> Int] /\ owed \in [Partitions -> Nat]
  BY <1>1, Bounds DEF Types, Requests
<1> HIDE DEF offsets, owed
<1>4. t \in Requests
  BY <1>1, <1>3 DEF Requests
<1>5. /\ t.pc = "watermarks" /\ t.stage = r.stage /\ t.stages = r.stages
      /\ t.next = r.next /\ t.current = r.current /\ t.lag = r.lag /\ t.backlog = r.backlog
      /\ t.offsets = offsets /\ t.owed = owed
  BY <1>1 DEF Requests
<1>6. Began(r, t)
  BY <1>2, <1>5 DEF Began, offsets, owed
<1> HIDE DEF t, r
<1>7. request'[pg] = t /\ \A other \in Pages \ {pg} : request'[other] = request[other]
  BY <1>1, <1>2
<1>8. request' \in [Pages -> Requests]
  BY <1>1, <1>2, <1>4
<1> QED
  BY <1>6, <1>7, <1>8 DEF r

LEMMA Asking ==
  ASSUME Types, NEW pg \in Pages, QueryWatermarkOffsets(pg)
  PROVE  /\ request' \in [Pages -> Requests]
         /\ \A other \in Pages \ {pg} : request'[other] = request[other]
         /\ Asked(pg, request[pg], request'[pg])
<1> DEFINE r == request[pg]
           p == r.next
           lag == AtLeastZero(logEnd[p] - Current(pg, p))
           t == [r EXCEPT !.next = p + 1, !.current = @ + Current(pg, p),
                          !.lag = @ + lag, !.backlog = @ + r.owed[p]]
<1>1. /\ r \in Requests /\ request \in [Pages -> Requests]
      /\ r.pc = "watermarks" /\ p \in Partitions
  BY DEF Types, QueryWatermarkOffsets
<1>2. request' = [request EXCEPT ![pg] = t]
  BY DEF QueryWatermarkOffsets
<1>3. /\ NumPartitions \in Nat /\ Current(pg, p) \in Nat /\ lag \in Nat /\ r.owed[p] \in Nat
      /\ r.current \in Nat /\ r.lag \in Nat /\ r.backlog \in Nat
  BY <1>1, Bounds DEF Requests
<1>4. p + 1 \in 1 .. NumPartitions + 1
  BY <1>1, <1>3 DEF Partitions
<1> HIDE DEF lag
<1>5. t \in Requests
  <2> DEFINE current == r.current + Current(pg, p)
             lags == r.lag + lag
             backlog == r.backlog + r.owed[p]
  <2>1. current \in Nat /\ lags \in Nat /\ backlog \in Nat
    BY <1>3
  <2>2. t = [r EXCEPT !.next = p + 1, !.current = current, !.lag = lags, !.backlog = backlog]
    BY <1>1 DEF Requests
  <2> HIDE DEF current, lags, backlog, t
  <2> QED
    BY <1>1, <1>4, <2>1, <2>2 DEF Requests
<1>6. /\ t.pc = r.pc /\ t.stage = r.stage /\ t.stages = r.stages
      /\ t.offsets = r.offsets /\ t.owed = r.owed
      /\ t.next = p + 1 /\ t.current = r.current + Current(pg, p)
      /\ t.lag = r.lag + lag /\ t.backlog = r.backlog + r.owed[p]
  BY <1>1 DEF Requests
<1>7. Asked(pg, r, t)
  BY <1>1, <1>6 DEF Asked, lag
<1> HIDE DEF t, r
<1>8. request'[pg] = t /\ \A other \in Pages \ {pg} : request'[other] = request[other]
  BY <1>1, <1>2
<1>9. request' \in [Pages -> Requests]
  BY <1>1, <1>2, <1>5
<1> QED
  BY <1>7, <1>8, <1>9 DEF r

\* Kafka's offsets only grow, and none is committed beyond the end.
LEMMA OffsetsGrow ==
  ASSUME Types, [Next]_vars
  PROVE  /\ logEnd' \in [Partitions -> Nat] /\ committed' \in [Partitions -> Int]
         /\ \A p \in Partitions :
               /\ logEnd[p] <= logEnd'[p] /\ CommittedOffset(committed'[p]) <= logEnd'[p]
               /\ CommittedOffset(committed[p]) <= CommittedOffset(committed'[p])
<1>0. /\ logEnd \in [Partitions -> Nat] /\ committed \in [Partitions -> Int]
      /\ \A p \in Partitions : /\ CommittedOffset(committed[p]) \in Nat
                               /\ CommittedOffset(committed[p]) <= logEnd[p]
  BY Bounds DEF Types
<1>1. ASSUME NEW p \in Partitions, Produce(p)
      PROVE  /\ logEnd' = [logEnd EXCEPT ![p] = @ + 1] /\ committed' = committed
  BY <1>1 DEF Produce
<1>2. ASSUME NEW p \in Partitions, Commit(p)
      PROVE  /\ committed' = [committed EXCEPT ![p] = CommittedOffset(committed[p]) + 1]
             /\ CommittedOffset(committed[p]) < logEnd[p] /\ logEnd' = logEnd
  BY <1>2 DEF Commit
<1>3. UNCHANGED kafka \/ \E p \in Partitions : Produce(p) \/ Commit(p)
  BY DEF Next, vars, Gateway, LoadAsync, Cancelled, ReadCommitted, QueryWatermarkOffsets,
         ReadStage, ReadStageFails, Answered, LoadFails, GatewayRestarts
<1>4. CASE UNCHANGED kafka
  BY <1>0, <1>4 DEF kafka
<1>5. ASSUME NEW q \in Partitions, Produce(q)
      PROVE  /\ logEnd' \in [Partitions -> Nat] /\ committed' = committed
             /\ \A p \in Partitions : logEnd[p] <= logEnd'[p]
  BY <1>0, <1>1, <1>5
<1>6. ASSUME NEW q \in Partitions, Commit(q)
      PROVE  /\ committed' \in [Partitions -> Int] /\ logEnd' = logEnd
             /\ \A p \in Partitions :
                   /\ CommittedOffset(committed'[p]) <= logEnd[p]
                   /\ CommittedOffset(committed[p]) <= CommittedOffset(committed'[p])
  <2> DEFINE n == CommittedOffset(committed[q]) + 1
  <2>1. /\ n \in Nat /\ n <= logEnd[q] /\ CommittedOffset(committed[q]) <= n
        /\ committed' = [committed EXCEPT ![q] = n] /\ logEnd' = logEnd
    BY <1>0, <1>2, <1>6
  <2> HIDE DEF n
  <2>2. CommittedOffset(n) = n
    BY <2>1 DEF CommittedOffset, AtLeastZero
  <2>3. committed' \in [Partitions -> Int] /\ committed'[q] = n
    BY <1>0, <2>1
  <2>4. \A p \in Partitions \ {q} : committed'[p] = committed[p]
    BY <1>0, <2>1
  <2>5. ASSUME NEW p \in Partitions
        PROVE  /\ CommittedOffset(committed'[p]) <= logEnd[p]
               /\ CommittedOffset(committed[p]) <= CommittedOffset(committed'[p])
    <3>1. CASE p = q
      BY <2>1, <2>2, <2>3, <3>1
    <3>2. CASE p # q
      <4>1. committed'[p] = committed[p]
        BY <2>4, <3>2
      <4> QED
        BY <1>0, <4>1
    <3> QED
      BY <3>1, <3>2
  <2> QED
    BY <2>1, <2>3, <2>5
<1>7. ASSUME NEW q \in Partitions, Produce(q)
      PROVE  \A p \in Partitions : CommittedOffset(committed[p]) <= logEnd'[p]
  <2> SUFFICES ASSUME NEW p \in Partitions PROVE CommittedOffset(committed[p]) <= logEnd'[p]
    OBVIOUS
  <2>1. logEnd[p] <= logEnd'[p] /\ logEnd[p] \in Nat /\ logEnd'[p] \in Nat
    BY <1>0, <1>5, <1>7
  <2> QED
    BY <1>0, <2>1
<1>8. \A p \in Partitions : logEnd[p] \in Nat
  BY <1>0
<1> QED
  BY <1>0, <1>3, <1>4, <1>5, <1>6, <1>7, <1>8

\* What a step does to the requests, all told.
LEMMA Changing ==
  ASSUME Types, [Next]_vars
  PROVE  /\ request' \in [Pages -> Requests]
         /\ \A pg \in Pages :
               \/ request'[pg] = request[pg]
               \/ Cleared(request'[pg])
               \/ ReadCommitted(pg) /\ Began(request[pg], request'[pg])
               \/ QueryWatermarkOffsets(pg) /\ Asked(pg, request[pg], request'[pg])
<1> DEFINE Goal ==
       /\ request' \in [Pages -> Requests]
       /\ \A pg \in Pages :
             \/ request'[pg] = request[pg]
             \/ Cleared(request'[pg])
             \/ ReadCommitted(pg) /\ Began(request[pg], request'[pg])
             \/ QueryWatermarkOffsets(pg) /\ Asked(pg, request[pg], request'[pg])
<1> SUFFICES Goal
  OBVIOUS
<1>0. /\ request \in [Pages -> Requests] /\ Idle \in Requests /\ Cleared(Idle)
      /\ \A pg \in Pages : request[pg] \in Requests
  BY Bounds, IdleIsCleared DEF Types
<1>1. ASSUME UNCHANGED request PROVE Goal
  BY <1>0, <1>1
<1>2. ASSUME NEW pg \in Pages, NEW r \in Requests, Cleared(r), request' = [request EXCEPT ![pg] = r]
      PROVE  Goal
  BY <1>0, <1>2
<1>3. ASSUME NEW pg \in Pages, LoadAsync(pg) PROVE Goal
  <2> DEFINE r == [Idle EXCEPT !.pc = "stage"]
  <2>1. r \in Requests /\ Cleared(r)
    BY <1>0 DEF Requests, Cleared
  <2>2. request' = [request EXCEPT ![pg] = r]
    BY <1>3 DEF LoadAsync
  <2> HIDE DEF r, Goal
  <2> QED
    BY <1>2, <2>1, <2>2
<1>4. ASSUME NEW pg \in Pages, Cancelled(pg) \/ Answered(pg) PROVE Goal
  <2>1. request' = [request EXCEPT ![pg] = Idle]
    BY <1>4 DEF Cancelled, Answered
  <2> HIDE DEF Goal
  <2> QED
    BY <1>0, <1>2, <2>1
<1>5. ASSUME NEW pg \in Pages, ReadCommitted(pg) PROVE Goal
  BY <1>5, Beginning
<1>6. ASSUME NEW pg \in Pages, QueryWatermarkOffsets(pg) PROVE Goal
  BY <1>6, Asking
<1>7. ASSUME NEW pg \in Pages, ReadStage(pg) PROVE Goal
  <2> DEFINE result == [status |-> StatusFor(request[pg].lag), lag |-> request[pg].lag,
                        backlog |-> request[pg].backlog]
  <2>1. result \in Results
    BY <1>0 DEF Requests, Results, StatusFor
  <2>2. Add(pg, result)
    BY <1>7 DEF ReadStage
  <2> HIDE DEF result
  <2> QED
    BY <2>1, <2>2, Adding
<1>8. ASSUME NEW pg \in Pages, ReadStageFails(pg) PROVE Goal
  <2> DEFINE result == [Unread EXCEPT !.status = "unavailable"]
  <2>1. result \in Results
    BY DEF Results, Unread
  <2>2. Add(pg, result)
    BY <1>8 DEF ReadStageFails
  <2> HIDE DEF result
  <2> QED
    BY <2>1, <2>2, Adding
<1>9. ASSUME GatewayRestarts PROVE Goal
  <2>1. request' = [pg \in Pages |-> Idle]
    BY <1>9 DEF GatewayRestarts
  <2> QED
    BY <1>0, <2>1
<1>10. \/ UNCHANGED request \/ GatewayRestarts
       \/ \E pg \in Pages : \/ LoadAsync(pg) \/ Cancelled(pg) \/ Answered(pg) \/ ReadCommitted(pg)
                            \/ QueryWatermarkOffsets(pg) \/ ReadStage(pg) \/ ReadStageFails(pg)
  BY DEF Next, vars, Gateway, Produce, Commit, LoadFails
<1> HIDE DEF Goal
<1> QED
  BY <1>1, <1>3, <1>4, <1>5, <1>6, <1>7, <1>8, <1>9, <1>10

LEMMA StepTypes == Types /\ [Next]_vars => Types'
<1> SUFFICES ASSUME Types, [Next]_vars PROVE Types'
  OBVIOUS
<1>0. sample \in [Stages -> Int] /\ accounted \in [Stages -> Int]
  BY DEF Types
<1>1. sample' \in [Stages -> Int] /\ accounted' \in [Stages -> Int]
  <2>1. ASSUME NEW pg \in Pages, ReadStage(pg)
        PROVE  sample' \in [Stages -> Int] /\ accounted' \in [Stages -> Int]
    <3> DEFINE s == request[pg].stage
               offset == request[pg].current
               total == IF sample[s] = Unset THEN offset
                        ELSE accounted[s] + AtLeastZero(offset - sample[s])
    <3>1. s \in Stages /\ offset \in Nat
      BY DEF Types, Requests
    <3>2. sample' = [sample EXCEPT ![s] = offset] /\ accounted' = [accounted EXCEPT ![s] = total]
      BY <1>0, <2>1, <3>1 DEF ReadStage, CalculateRate
    <3>3. total \in Int
      BY <1>0, <3>1, Bounds DEF Unset
    <3> HIDE DEF s, offset, total
    <3> QED
      BY <1>0, <3>1, <3>2, <3>3
  <2>2. CASE GatewayRestarts
    BY <2>2 DEF GatewayRestarts, NoSamples, Unset
  <2>3. CASE UNCHANGED samples
    BY <1>0, <2>3 DEF samples
  <2> QED
    BY <2>1, <2>2, <2>3
       DEF Next, vars, Gateway, Produce, Commit, LoadAsync, Cancelled, ReadCommitted,
           QueryWatermarkOffsets, ReadStageFails, Answered, LoadFails
<1>2. ASSUME NEW pg \in Pages, request'[pg].pc = "stage"
      PROVE  request'[pg].next = 1 /\ request'[pg].current = 0
  <2>1. CASE request'[pg] = request[pg]
    BY <1>2, <2>1 DEF Types
  <2>2. CASE Cleared(request'[pg])
    BY <2>2 DEF Cleared
  <2>3. Began(request[pg], request'[pg]) \/ Asked(pg, request[pg], request'[pg])
           => request'[pg].pc = "watermarks"
    BY DEF Began, Asked
  <2> QED
    BY <1>2, <2>1, <2>2, <2>3, Changing
<1>3. page' \in [Pages -> {"loading", "catching up", "healthy", "offline"}]
  <2>0. page \in [Pages -> {"loading", "catching up", "healthy", "offline"}]
    BY DEF Types
  <2>1. \A pg \in Pages : Answered(pg) => \E now \in {"catching up", "healthy"} :
           page' = [page EXCEPT ![pg] = now]
    BY DEF Answered
  <2>2. \A pgs : Offline(pgs) => page' \in [Pages -> {"loading", "catching up", "healthy", "offline"}]
    BY <2>0 DEF Offline
  <2>3. \/ UNCHANGED page \/ \E pgs : Offline(pgs)
        \/ \E pg \in Pages : Answered(pg)
    BY DEF Next, vars, Gateway, Produce, Commit, LoadAsync, Cancelled, ReadCommitted,
           QueryWatermarkOffsets, ReadStage, ReadStageFails, LoadFails, GatewayRestarts
  <2> QED
    BY <2>0, <2>1, <2>2, <2>3
<1> QED
  BY <1>1, <1>2, <1>3, Changing, OffsetsGrow DEF Types

---------------------------------------------------------------------------
(* The lag that is shown.                                                  *)

LEMMA StepOwing == Types /\ Owing /\ [Next]_vars => Owing'
<1> SUFFICES ASSUME Types, Owing, [Next]_vars, NEW pg \in Pages, NEW p \in Partitions
             PROVE  LET t == request'[pg] IN
                    IF HasGroup(t.stage)
                    THEN t.owed[p] <= AtLeastZero(logEnd'[p] - CommittedOffset(t.offsets[p]))
                    ELSE t.owed[p] = 0
  BY DEF Owing
<1> DEFINE r == request[pg]
           t == request'[pg]
<1>0. /\ r \in Requests /\ t \in Requests /\ r.offsets[p] \in Int /\ r.owed[p] \in Nat
      /\ logEnd[p] \in Nat /\ logEnd'[p] \in Nat /\ logEnd[p] <= logEnd'[p]
      /\ CommittedOffset(r.offsets[p]) \in Nat
  <2>1. r \in Requests /\ t \in Requests
    BY Changing DEF Types
  <2>2. r.offsets[p] \in Int /\ r.owed[p] \in Nat
    BY <2>1 DEF Requests
  <2> QED
    BY <2>1, <2>2, Bounds, OffsetsGrow
<1>1. /\ HasGroup(r.stage) =>
            r.owed[p] <= AtLeastZero(logEnd[p] - CommittedOffset(r.offsets[p]))
      /\ ~HasGroup(r.stage) => r.owed[p] = 0
  BY DEF Owing
<1>2. CASE t.stage = r.stage /\ t.offsets = r.offsets /\ t.owed = r.owed
  <2>1. AtLeastZero(logEnd[p] - CommittedOffset(r.offsets[p]))
           <= AtLeastZero(logEnd'[p] - CommittedOffset(r.offsets[p]))
    BY <1>0 DEF AtLeastZero
  <2>2. /\ AtLeastZero(logEnd[p] - CommittedOffset(r.offsets[p])) \in Nat
        /\ AtLeastZero(logEnd'[p] - CommittedOffset(r.offsets[p])) \in Nat
    BY <1>0 DEF AtLeastZero
  <2> QED
    BY <1>0, <1>1, <1>2, <2>1, <2>2
<1>3. CASE Cleared(t)
  <2>1. t.owed[p] = 0 /\ t.offsets[p] = Unset
    BY <1>3 DEF Cleared, NothingOwed, NothingCommitted
  <2>2. AtLeastZero(logEnd'[p] - CommittedOffset(Unset)) \in Nat
    BY <1>0 DEF AtLeastZero, CommittedOffset, Unset
  <2> QED
    BY <2>1, <2>2
<1>4. CASE ReadCommitted(pg) /\ Began(r, t) /\ HasGroup(r.stage)
  <2>1. t.stage = r.stage /\ t.owed[p] = Lag(p) /\ t.offsets[p] = committed[p]
    BY <1>4 DEF Began
  <2>2. logEnd' = logEnd
    BY <1>4 DEF ReadCommitted, kafka
  <2>3. Lag(p) = logEnd[p] - CommittedOffset(committed[p]) /\ Lag(p) \in Nat
    BY Bounds DEF Lag
  <2>4. Lag(p) <= AtLeastZero(logEnd[p] - CommittedOffset(committed[p]))
    BY <2>3 DEF AtLeastZero
  <2> QED
    BY <1>4, <2>1, <2>2, <2>4
<1>5. Began(r, t) /\ ~HasGroup(r.stage) =>
         t.stage = r.stage /\ t.offsets = r.offsets /\ t.owed = r.owed
  BY DEF Began
<1>6. Asked(pg, r, t) => t.stage = r.stage /\ t.offsets = r.offsets /\ t.owed = r.owed
  BY DEF Asked
<1> QED
  BY <1>2, <1>3, <1>4, <1>5, <1>6, Changing

\* What a step does to the stages a request has read.
LEMMA Reporting ==
  ASSUME Types, Covering, [Next]_vars, NEW pg \in Pages, NEW s \in Stages
  PROVE  Covered(request'[pg].stages[s])
<1> DEFINE Goal == Covered(request'[pg].stages[s])
<1>0. /\ request \in [Pages -> Requests] /\ request[pg] \in Requests
      /\ Covered(request[pg].stages[s]) /\ Covered(Idle.stages[s])
      /\ Idle \in Requests
  BY Bounds, IdleIsCleared DEF Types, Covering
<1>1. ASSUME NEW other \in Pages, NEW result \in Results, Covered(result), Add(other, result)
      PROVE  Goal
  <2>1. CASE other = pg
    BY <1>0, <1>1, <2>1, Adding
  <2>2. CASE other # pg
    BY <1>0, <1>1, <2>2, Adding
  <2> QED
    BY <2>1, <2>2
<1>2. ASSUME NEW other \in Pages, ReadStage(other) PROVE Goal
  <2> DEFINE r == request[other]
             result == [status |-> StatusFor(r.lag), lag |-> r.lag, backlog |-> r.backlog]
  <2>1. r.lag \in Nat /\ r.backlog \in Nat /\ r.lag >= r.backlog
    BY DEF Types, Requests, Covering
  <2>2. result \in Results
    BY <2>1 DEF Results, StatusFor
  <2>3. Covered(result)
    BY <2>1 DEF Covered, StatusFor
  <2>4. Add(other, result)
    BY <1>2 DEF ReadStage
  <2> HIDE DEF result, Goal
  <2> QED
    BY <1>1, <2>2, <2>3, <2>4
<1>3. ASSUME NEW other \in Pages, ReadStageFails(other) PROVE Goal
  <2> DEFINE result == [Unread EXCEPT !.status = "unavailable"]
  <2>1. result \in Results /\ Covered(result)
    BY DEF Results, Unread, Covered
  <2>2. Add(other, result)
    BY <1>3 DEF ReadStageFails
  <2> HIDE DEF result, Goal
  <2> QED
    BY <1>1, <2>1, <2>2
<1>4. ASSUME NEW other \in Pages, LoadAsync(other) \/ Cancelled(other) \/ Answered(other)
      PROVE  Goal
  <2>1. PICK t \in {Idle, [Idle EXCEPT !.pc = "stage"]} : request' = [request EXCEPT ![other] = t]
    BY <1>4 DEF LoadAsync, Cancelled, Answered
  <2>2. t.stages = Idle.stages
    BY <1>0 DEF Requests
  <2>3. request'[pg] = IF pg = other THEN t ELSE request[pg]
    BY <1>0, <2>1
  <2> QED
    BY <1>0, <2>2, <2>3
<1>5. ASSUME NEW other \in Pages, ReadCommitted(other) PROVE Goal
  <2>1. CASE other = pg
    BY <1>0, <1>5, <2>1, Beginning DEF Began
  <2>2. CASE other # pg
    BY <1>0, <1>5, <2>2, Beginning
  <2> QED
    BY <2>1, <2>2
<1>6. ASSUME NEW other \in Pages, QueryWatermarkOffsets(other) PROVE Goal
  <2>1. CASE other = pg
    BY <1>0, <1>6, <2>1, Asking DEF Asked
  <2>2. CASE other # pg
    BY <1>0, <1>6, <2>2, Asking
  <2> QED
    BY <2>1, <2>2
<1>7. ASSUME GatewayRestarts PROVE Goal
  <2>1. request'[pg] = Idle
    BY <1>7 DEF GatewayRestarts
  <2> QED
    BY <1>0, <2>1
<1>8. ASSUME UNCHANGED request PROVE Goal
  BY <1>0, <1>8
<1> HIDE DEF Goal
<1>9. \/ UNCHANGED request \/ GatewayRestarts
      \/ \E other \in Pages :
            \/ LoadAsync(other) \/ Cancelled(other) \/ Answered(other) \/ ReadCommitted(other)
            \/ QueryWatermarkOffsets(other) \/ ReadStage(other) \/ ReadStageFails(other)
  BY DEF Next, vars, Gateway, Produce, Commit, LoadFails
<1>10. Goal
  BY <1>2, <1>3, <1>4, <1>5, <1>6, <1>7, <1>8, <1>9
<1> QED
  BY <1>10 DEF Goal

LEMMA StepCovering == Types /\ Owing /\ Covering /\ [Next]_vars => Covering'
<1> SUFFICES ASSUME Types, Owing, Covering, [Next]_vars, NEW pg \in Pages
             PROVE  request'[pg].lag >= request'[pg].backlog
  BY Reporting DEF Covering
<1> DEFINE r == request[pg]
           t == request'[pg]
<1>0. r \in Requests /\ r.lag \in Nat /\ r.backlog \in Nat /\ r.lag >= r.backlog
  BY DEF Types, Requests, Covering
<1>1. CASE Cleared(t)
  BY <1>1 DEF Cleared
<1>2. CASE Asked(pg, r, t)
  <2> DEFINE p == r.next
             more == AtLeastZero(logEnd[p] - Current(pg, p))
  <2>1. /\ p \in Partitions /\ t.lag = r.lag + more /\ t.backlog = r.backlog + r.owed[p]
    BY <1>2 DEF Asked
  <2>2. logEnd[p] \in Nat /\ Current(pg, p) \in Nat /\ r.owed[p] \in Nat /\ more \in Nat
    BY <1>0, <2>1, Bounds DEF Requests
  <2>3. r.owed[p] <= more
    <3>1. CASE HasGroup(r.stage)
      BY <2>1, <3>1 DEF Owing, Current
    <3>2. CASE ~HasGroup(r.stage)
      BY <2>1, <2>2, <3>2 DEF Owing
    <3> QED
      BY <3>1, <3>2
  <2> HIDE DEF more, p, r, t
  <2> QED
    BY <1>0, <2>1, <2>2, <2>3 DEF r, t
<1>3. Began(r, t) => t.lag = r.lag /\ t.backlog = r.backlog
  BY DEF Began
<1> QED
  BY <1>0, <1>1, <1>2, <1>3, Changing

---------------------------------------------------------------------------
(* Rates.                                                                  *)

LEMMA StepBehind == Types /\ Behind /\ [Next]_vars => Behind'
<1> SUFFICES ASSUME Types, Behind, [Next]_vars, NEW pg \in Pages, NEW p \in Partitions
             PROVE  CommittedOffset(request'[pg].offsets[p]) <= CommittedOffset(committed'[p])
  BY DEF Behind
<1> DEFINE r == request[pg]
           t == request'[pg]
<1>0. /\ r.offsets[p] \in Int /\ committed[p] \in Int /\ committed'[p] \in Int
      /\ CommittedOffset(r.offsets[p]) \in Nat /\ CommittedOffset(committed[p]) \in Nat
      /\ CommittedOffset(committed'[p]) \in Nat
      /\ CommittedOffset(r.offsets[p]) <= CommittedOffset(committed[p])
      /\ CommittedOffset(committed[p]) <= CommittedOffset(committed'[p])
  <2>1. r.offsets[p] \in Int /\ committed[p] \in Int /\ committed'[p] \in Int
    BY OffsetsGrow DEF Types, Requests
  <2> QED
    BY <2>1, Bounds, OffsetsGrow DEF Behind
<1>1. CASE t.offsets[p] = r.offsets[p] \/ t.offsets[p] = committed[p]
  <2> HIDE DEF r, t
  <2> QED
    BY <1>0, <1>1 DEF t
<1>2. CASE Cleared(t)
  <2>1. CommittedOffset(t.offsets[p]) = 0
    BY <1>2 DEF Cleared, NothingCommitted, CommittedOffset, AtLeastZero, Unset
  <2> QED
    BY <1>0, <2>1
<1>3. Began(r, t) \/ Asked(pg, r, t) =>
         t.offsets[p] = r.offsets[p] \/ t.offsets[p] = committed[p]
  BY DEF Began, Asked
<1> QED
  BY <1>1, <1>2, <1>3, Changing

\* Who reads a stage after a step read it before, or began to.
LEMMA StillReading ==
  ASSUME Types, [Next]_vars, NEW pg \in Pages, NEW s \in Stages, Reading(pg, s)'
  PROVE  \/ Reading(pg, s) /\ request'[pg] = request[pg]
         \/ Reading(pg, s) /\ QueryWatermarkOffsets(pg) /\ Asked(pg, request[pg], request'[pg])
         \/ /\ ReadCommitted(pg) /\ Began(request[pg], request'[pg]) /\ request[pg].stage = s
            /\ request[pg].next = 1 /\ request[pg].current = 0
<1>1. ~Cleared(request'[pg])
  BY DEF Reading, Cleared
<1>2. request[pg].pc = "stage" => request[pg].next = 1 /\ request[pg].current = 0
  BY DEF Types
<1> QED
  BY <1>1, <1>2, Changing DEF Reading, Began, Asked

\* What was noticed stays noticed, until a gateway is started that knows no request.
LEMMA Noticing ==
  ASSUME Types, [Next]_vars
  PROVE  \/ overlapped \subseteq overlapped'
         \/ GatewayRestarts
<1>1. \A pg \in Pages : ReadCommitted(pg) => overlapped \subseteq overlapped'
  BY DEF ReadCommitted
<1> QED
  BY <1>1
     DEF Next, vars, Gateway, Produce, Commit, LoadAsync, Cancelled, QueryWatermarkOffsets,
         ReadStage, ReadStageFails, Answered, LoadFails

LEMMA NobodyReadsAfterRestart ==
  ASSUME GatewayRestarts, NEW pg \in Pages, NEW s \in Stages
  PROVE  ~Reading(pg, s)'
BY DEF GatewayRestarts, Reading, Idle

LEMMA StepAlone == Types /\ Alone /\ [Next]_vars => Alone'
<1> SUFFICES ASSUME Types, Alone, [Next]_vars, NEW s \in Stages, s \notin overlapped',
                    NEW pg \in Pages, NEW other \in Pages,
                    Reading(pg, s)', Reading(other, s)', pg # other
             PROVE  FALSE
  BY DEF Alone
<1>1. overlapped \subseteq overlapped'
  BY Noticing, NobodyReadsAfterRestart
<1>2. ~(Reading(pg, s) /\ Reading(other, s))
  BY <1>1 DEF Alone
<1>3. ASSUME NEW a \in Pages, NEW b \in Pages, a # b, Reading(b, s)',
             ReadCommitted(a), request[a].stage = s
      PROVE  FALSE
  <2>1. request'[b] = request[b]
    BY <1>3, Beginning
  <2>2. Reading(b, s)
    BY <1>3, <2>1 DEF Reading
  <2> QED
    BY <1>3, <2>2 DEF ReadCommitted
<1> QED
  BY <1>2, <1>3, StillReading

\* A partition never holds less than it did.
LEMMA NowGrows ==
  ASSUME Types, [Next]_vars, NEW s \in Stages, NEW p \in Partitions
  PROVE  Now(s, p) \in Nat /\ Now(s, p)' \in Nat /\ Now(s, p) <= Now(s, p)'
<1>1. /\ committed'[p] \in Int /\ logEnd[p] \in Nat /\ logEnd'[p] \in Nat
      /\ CommittedOffset(committed[p]) \in Nat
  BY Bounds, OffsetsGrow
<1>2. CommittedOffset(committed'[p]) \in Nat
  BY <1>1, Bounds
<1> QED
  BY <1>1, <1>2, OffsetsGrow DEF Now

LEMMA SumsStay ==
  ASSUME Types, [Next]_vars, NEW n \in 0 .. NumPartitions, NEW s \in Stages,
         NEW total, NEW sum, SumsTo(n, s, total, sum)
  PROVE  SumsTo(n, s, total, sum)'
<1> SUFFICES ASSUME NEW p \in 1 .. n PROVE sum[p] <= sum[p - 1] + Now(s, p)'
  BY DEF SumsTo
<1>1. /\ sum[p] \in Nat /\ sum[p - 1] \in Nat /\ sum[p] <= sum[p - 1] + Now(s, p)
      /\ p \in Partitions
  <2>1. NumPartitions \in Nat /\ n \in Nat /\ p \in 0 .. n /\ p - 1 \in 0 .. n
    BY Bounds
  <2> QED
    BY <2>1 DEF SumsTo, Partitions
<1>2. Now(s, p) \in Nat /\ Now(s, p)' \in Nat /\ Now(s, p) <= Now(s, p)'
  BY <1>1, NowGrows
<1> QED
  BY <1>1, <1>2

\* What a request finds at a partition is what was committed, or the end, at most.
LEMMA FindsNoMore ==
  ASSUME Types, Behind, NEW pg \in Pages, NEW p \in Partitions
  PROVE  Current(pg, p) <= Now(request[pg].stage, p)
<1>1. logEnd[p] \in Nat
  BY Bounds
<1> QED
  BY <1>1 DEF Current, Now, Behind

LEMMA StepSumming == Types /\ Behind /\ Summing /\ [Next]_vars => Summing'
<1> SUFFICES ASSUME Types, Behind, Summing, [Next]_vars, NEW pg \in Pages,
                    request'[pg].pc = "watermarks",
                    NEW n, n = request'[pg].next - 1,
                    NEW s, s = request'[pg].stage,
                    NEW total, total = request'[pg].current
             PROVE  \E sum \in [0 .. n -> Nat] : SumsTo(n, s, total, sum)'
  BY DEF Summing, SumsTo
<1> DEFINE r == request[pg]
           t == request'[pg]
<1>0. /\ r \in Requests /\ t \in Requests /\ NumPartitions \in Nat
      /\ r.next \in 1 .. NumPartitions + 1 /\ r.stage \in Stages /\ r.current \in Nat
      /\ s \in Stages /\ n \in 0 .. NumPartitions /\ total \in Nat
  <2>1. r \in Requests /\ t \in Requests /\ NumPartitions \in Nat
    BY Changing, Bounds DEF Types
  <2> QED
    BY <2>1 DEF Requests
<1>r. Reading(pg, s)'
  BY DEF Reading
<1>1. CASE r.pc = "watermarks" /\ t = r
  <2>1. PICK sum \in [0 .. n -> Nat] : SumsTo(n, s, total, sum)
    BY <1>1 DEF Summing
  <2>2. SumsTo(n, s, total, sum)'
    BY <1>0, <2>1, SumsStay
  <2> QED
    BY <2>1, <2>2
<1>2. CASE Began(r, t) /\ r.next = 1 /\ r.current = 0
  <2> DEFINE sum == [i \in {0} |-> 0]
  <2>1. n = 0 /\ total = 0 /\ 0 .. 0 = {0} /\ 1 .. 0 = {}
    BY <1>2 DEF Began
  <2>2. sum \in [0 .. n -> Nat] /\ SumsTo(n, s, total, sum)'
    BY <2>1 DEF SumsTo
  <2> HIDE DEF sum
  <2> QED
    BY <2>2
<1>3. CASE r.pc = "watermarks" /\ QueryWatermarkOffsets(pg) /\ Asked(pg, r, t)
  <2>0. PICK before \in Nat : before = r.current
    BY <1>0
  <2>1. PICK sum \in [0 .. r.next - 1 -> Nat] : SumsTo(r.next - 1, r.stage, r.current, sum)
    BY <1>3 DEF Summing
  <2>2. /\ r.next = n /\ r.stage = s /\ before \in Nat
        /\ n \in Partitions /\ n \in 1 .. NumPartitions /\ n - 1 \in 0 .. NumPartitions
        /\ total = before + Current(pg, n)
    BY <1>0, <1>3, <2>0 DEF Asked, Partitions
  <2>3. /\ Current(pg, n) \in Nat /\ Current(pg, n) <= Now(s, n)
        /\ Now(s, n) \in Nat /\ Now(s, n)' \in Nat /\ Now(s, n) <= Now(s, n)'
    BY <1>0, <2>2, Bounds, FindsNoMore, NowGrows
  <2>4. total \in Nat /\ before <= total /\ total <= before + Now(s, n)'
    BY <2>2, <2>3
  <2>5. sum \in [0 .. n - 1 -> Nat] /\ SumsTo(n - 1, s, before, sum)
    BY <2>0, <2>1, <2>2
  <2>6. SumsTo(n - 1, s, before, sum)'
    BY <1>0, <2>2, <2>5, SumsStay
  <2>7. /\ sum[0] = 0 /\ sum[n - 1] = before /\ \A i \in 0 .. n - 1 : sum[i] \in Nat
        /\ \A i \in 1 .. n - 1 : sum[i] <= sum[i - 1] + Now(s, i)'
    BY <2>6 DEF SumsTo
  <2> DEFINE longer == [i \in 0 .. n |-> IF i < n THEN sum[i] ELSE total]
  <2>8. /\ longer \in [0 .. n -> Nat] /\ longer[0] = 0 /\ longer[n] = total
        /\ \A i \in 0 .. n - 1 : longer[i] = sum[i]
    BY <2>2, <2>4, <2>7
  <2> HIDE DEF longer
  <2>9. ASSUME NEW i \in 1 .. n PROVE longer[i] <= longer[i - 1] + Now(s, i)'
    <3>1. CASE i = n
      <4>1. longer[n - 1] = before
        BY <2>2, <2>7, <2>8
      <4> QED
        BY <2>4, <2>8, <3>1, <4>1
    <3>2. CASE i # n
      <4>1. i \in 1 .. n - 1 /\ i \in 0 .. n - 1 /\ i - 1 \in 0 .. n - 1
        BY <2>2, <3>2
      <4>2. longer[i] = sum[i] /\ longer[i - 1] = sum[i - 1]
        BY <2>8, <4>1
      <4> QED
        BY <2>7, <4>1, <4>2
    <3> QED
      BY <3>1, <3>2
  <2>10. SumsTo(n, s, total, longer)'
    BY <2>8, <2>9 DEF SumsTo
  <2> QED
    BY <2>8, <2>10
<1> QED
  BY <1>0, <1>1, <1>2, <1>3, <1>r, StillReading DEF Reading

\* A sample changes only when a request has read the stage.
LEMMA Sampling ==
  ASSUME Types, [Next]_vars, NEW s \in Stages
  PROVE  \/ /\ sample'[s] = sample[s] /\ accounted'[s] = accounted[s]
         \/ /\ sample'[s] = Unset /\ accounted'[s] = Unset
         \/ \E pg \in Pages :
               /\ ReadStage(pg) /\ request[pg].stage = s
               /\ request[pg].next = NumPartitions + 1
               /\ sample'[s] = request[pg].current
               /\ accounted'[s] = IF sample[s] = Unset THEN request[pg].current
                                  ELSE accounted[s] + AtLeastZero(request[pg].current - sample[s])
<1>0. sample \in [Stages -> Int] /\ accounted \in [Stages -> Int]
  BY DEF Types
<1>1. ASSUME NEW pg \in Pages, ReadStage(pg)
      PROVE  /\ request[pg].next = NumPartitions + 1
             /\ CalculateRate(request[pg].stage, request[pg].current)
  <2>1. request[pg].next \in 1 .. NumPartitions + 1 /\ NumPartitions \in Nat
    BY Bounds DEF Types, Requests
  <2> QED
    BY <1>1, <2>1 DEF ReadStage, Partitions
<1>2. ASSUME NEW pg \in Pages, ReadStage(pg), request[pg].stage # s
      PROVE  sample'[s] = sample[s] /\ accounted'[s] = accounted[s]
  BY <1>0, <1>1, <1>2 DEF CalculateRate
<1>3. ASSUME NEW pg \in Pages, ReadStage(pg), request[pg].stage = s
      PROVE  /\ sample'[s] = request[pg].current
             /\ accounted'[s] = IF sample[s] = Unset THEN request[pg].current
                                ELSE accounted[s] + AtLeastZero(request[pg].current - sample[s])
  BY <1>0, <1>1, <1>3 DEF CalculateRate
<1>4. GatewayRestarts => sample'[s] = Unset /\ accounted'[s] = Unset
  BY DEF GatewayRestarts, NoSamples
<1>5. \/ UNCHANGED samples \/ GatewayRestarts \/ \E pg \in Pages : ReadStage(pg)
  BY DEF Next, vars, Gateway, Produce, Commit, LoadAsync, Cancelled, ReadCommitted,
         QueryWatermarkOffsets, ReadStageFails, Answered, LoadFails
<1> QED
  BY <1>1, <1>2, <1>3, <1>4, <1>5 DEF samples

\* What a request has still to find only grows while it is waited for.
LEMMA FindsGrow ==
  ASSUME Types, [Next]_vars, NEW pg \in Pages, NEW p \in Partitions,
         request'[pg].stage = request[pg].stage, request'[pg].offsets = request[pg].offsets
  PROVE  Current(pg, p) \in Nat /\ Current(pg, p)' \in Nat /\ Current(pg, p) <= Current(pg, p)'
<1>1. logEnd[p] \in Nat /\ logEnd'[p] \in Nat /\ logEnd[p] <= logEnd'[p]
  BY Bounds, OffsetsGrow
<1>2. Current(pg, p) \in Nat
  BY Bounds
<1> QED
  BY <1>1, <1>2 DEF Current

\* A sample that is not replaced stays behind every request that reads its stage.
LEMMA NotBehindStays ==
  ASSUME Types, Alone, [Next]_vars, NEW s \in Stages, s \notin overlapped',
         NEW sum \in [0 .. NumPartitions -> Nat], SumsTo(NumPartitions, s, sample[s], sum),
         s \notin overlapped => \A q \in Pages : Reading(q, s) => NotBehind(q, sum),
         NEW pg \in Pages, Reading(pg, s)'
  PROVE  NotBehind(pg, sum)'
<1> DEFINE r == request[pg]
           t == request'[pg]
<1>0. /\ NumPartitions \in Nat /\ r \in Requests /\ t \in Requests
      /\ r.next \in 1 .. NumPartitions + 1 /\ r.current \in Nat /\ t.stage = s
      /\ \A i \in 0 .. NumPartitions : sum[i] \in Nat
  BY Bounds, Changing DEF Types, Requests, Reading
<1>1. s \notin overlapped
  BY Noticing, NobodyReadsAfterRestart
<1>2. CASE Reading(pg, s) /\ t = r
  <2>1. r.current >= sum[r.next - 1] /\ NotBehind(pg, sum)
    BY <1>1, <1>2 DEF NotBehind
  <2>2. ASSUME NEW p \in Partitions, p >= r.next PROVE sum[p] <= sum[p - 1] + Current(pg, p)'
    <3>1. sum[p] \in Nat /\ sum[p - 1] \in Nat
      BY <1>0 DEF Partitions
    <3>2. sum[p] <= sum[p - 1] + Current(pg, p)
      BY <2>1, <2>2 DEF NotBehind
    <3>3. Current(pg, p) \in Nat /\ Current(pg, p)' \in Nat /\ Current(pg, p) <= Current(pg, p)'
      BY <1>2, FindsGrow
    <3> QED
      BY <3>1, <3>2, <3>3
  <2> QED
    BY <1>2, <2>1, <2>2 DEF NotBehind
<1>3. CASE Reading(pg, s) /\ QueryWatermarkOffsets(pg) /\ Asked(pg, r, t)
  <2>1. PICK n \in 1 .. NumPartitions : n = r.next
    BY <1>3 DEF Asked, Partitions
  <2>2. PICK before \in Nat : before = r.current
    BY <1>0
  <2>3. NotBehind(pg, sum)
    BY <1>1, <1>3
  <2>4. /\ t.next = n + 1 /\ t.current = before + Current(pg, n) /\ n \in Partitions
        /\ t.stage = r.stage /\ t.offsets = r.offsets
    BY <1>3, <2>1, <2>2 DEF Asked
  <2>5. before >= sum[n - 1] /\ sum[n] <= sum[n - 1] + Current(pg, n)
    <3>1. n >= n
      BY <2>1
    <3> QED
      BY <2>1, <2>2, <2>3, <2>4, <3>1 DEF NotBehind
  <2>6. sum[n] \in Nat /\ sum[n - 1] \in Nat /\ Current(pg, n) \in Nat
    <3>1. n \in 0 .. NumPartitions /\ n - 1 \in 0 .. NumPartitions
      BY <1>0, <2>1
    <3> QED
      BY <1>0, <2>4, <3>1, Bounds
  <2>7. t.current >= sum[n] /\ t.next - 1 = n
    BY <2>1, <2>2, <2>4, <2>5, <2>6, SMTT(30)
  <2>8. ASSUME NEW p \in Partitions, p >= n + 1 PROVE sum[p] <= sum[p - 1] + Current(pg, p)'
    <3>1. sum[p] \in Nat /\ sum[p - 1] \in Nat /\ p >= n
      BY <1>0, <2>1, <2>8 DEF Partitions
    <3>2. sum[p] <= sum[p - 1] + Current(pg, p)
      BY <2>1, <2>3, <3>1 DEF NotBehind
    <3>3. Current(pg, p) \in Nat /\ Current(pg, p)' \in Nat /\ Current(pg, p) <= Current(pg, p)'
      BY <2>4, FindsGrow
    <3> QED
      BY <3>1, <3>2, <3>3
  <2> QED
    BY <2>4, <2>7, <2>8 DEF NotBehind
<1>4. CASE ReadCommitted(pg) /\ Began(r, t) /\ r.stage = s /\ r.next = 1 /\ r.current = 0
  <2>1. t.next = 1 /\ t.current = 0 /\ t.stage = s /\ sum[0] = 0
    BY <1>4 DEF Began, SumsTo
  <2>2. ASSUME NEW p \in Partitions PROVE sum[p] <= sum[p - 1] + Current(pg, p)'
    <3>1. sum[p] <= sum[p - 1] + Now(s, p)
      BY DEF SumsTo, Partitions
    <3>2. Current(pg, p)' = Now(s, p)
      <4>1. logEnd' = logEnd /\ committed' = committed
        BY <1>4 DEF ReadCommitted, kafka
      <4>2. HasGroup(s) => t.offsets = committed
        BY <1>4 DEF Began
      <4> QED
        BY <2>1, <4>1, <4>2 DEF Current, Now
    <3> QED
      BY <3>1, <3>2
  <2> QED
    BY <2>1, <2>2 DEF NotBehind
<1> QED
  BY <1>2, <1>3, <1>4, StillReading

LEMMA StepSampled ==
  Types /\ Behind /\ Summing /\ Sampled /\ Alone /\ [Next]_vars => Sampled'
<1> SUFFICES ASSUME Types, Behind, Summing, Sampled, Alone, [Next]_vars,
                    NEW s \in Stages, NEW total, total = sample'[s], total # Unset
             PROVE  \E sum \in [0 .. NumPartitions -> Nat] :
                       /\ SumsTo(NumPartitions, s, total, sum)'
                       /\ s \notin overlapped' =>
                             \A pg \in Pages : Reading(pg, s)' => NotBehind(pg, sum)'
  BY DEF Sampled, SumsTo
<1>0. NumPartitions \in Nat /\ NumPartitions \in 0 .. NumPartitions
  BY Bounds
<1>1. CASE total = sample[s]
  <2>1. PICK sum \in [0 .. NumPartitions -> Nat] :
           /\ SumsTo(NumPartitions, s, sample[s], sum)
           /\ s \notin overlapped => \A pg \in Pages : Reading(pg, s) => NotBehind(pg, sum)
    BY <1>1 DEF Sampled
  <2>2. SumsTo(NumPartitions, s, total, sum)'
    BY <1>0, <1>1, <2>1, SumsStay
  <2>3. s \notin overlapped' => \A pg \in Pages : Reading(pg, s)' => NotBehind(pg, sum)'
    BY <2>1, NotBehindStays
  <2> QED
    BY <2>2, <2>3
<1>2. ASSUME NEW pg \in Pages, ReadStage(pg), request[pg].stage = s,
             request[pg].next = NumPartitions + 1, total = request[pg].current
      PROVE  \E sum \in [0 .. NumPartitions -> Nat] :
                /\ SumsTo(NumPartitions, s, total, sum)'
                /\ s \notin overlapped' =>
                      \A q \in Pages : Reading(q, s)' => NotBehind(q, sum)'
  <2>1. Reading(pg, s) /\ request[pg].next - 1 = NumPartitions
    BY <1>0, <1>2 DEF ReadStage, Reading
  <2>2. PICK sum \in [0 .. NumPartitions -> Nat] : SumsTo(NumPartitions, s, total, sum)
    BY <1>2, <2>1 DEF Summing, Reading
  <2>3. SumsTo(NumPartitions, s, total, sum)'
    BY <1>0, <2>2, SumsStay
  <2>4. ASSUME NEW q \in Pages, Reading(q, s)', s \notin overlapped' PROVE FALSE
    <3>1. Cleared(request'[pg]) /\ \A other \in Pages \ {pg} : request'[other] = request[other]
      <4> DEFINE result == [status |-> StatusFor(request[pg].lag), lag |-> request[pg].lag,
                            backlog |-> request[pg].backlog]
      <4>1. result \in Results
        BY DEF Types, Requests, Results, StatusFor
      <4>2. Add(pg, result)
        BY <1>2 DEF ReadStage
      <4> HIDE DEF result
      <4> QED
        BY <4>1, <4>2, Adding
    <3>2. q # pg
      BY <2>4, <3>1 DEF Reading, Cleared
    <3>3. Reading(q, s)
      BY <2>4, <3>1, <3>2 DEF Reading
    <3>4. overlapped' = overlapped
      BY <1>2 DEF ReadStage
    <3> QED
      BY <2>1, <2>4, <3>2, <3>3, <3>4 DEF Alone
  <2> QED
    BY <2>3, <2>4
<1> QED
  BY <1>1, <1>2, Sampling

LEMMA StepCounted ==
  Types /\ Sampled /\ MessagesCountedOnce /\ [Next]_vars => MessagesCountedOnce'
<1> SUFFICES ASSUME Types, Sampled, MessagesCountedOnce, [Next]_vars, NEW s \in Stages
             PROVE  /\ accounted'[s] >= sample'[s]
                    /\ s \notin overlapped' => accounted'[s] = sample'[s]
  BY DEF MessagesCountedOnce
<1>0. /\ sample[s] \in Int /\ accounted[s] \in Int
      /\ accounted[s] >= sample[s] /\ (s \notin overlapped => accounted[s] = sample[s])
  BY DEF Types, MessagesCountedOnce
<1>1. CASE sample'[s] = Unset /\ accounted'[s] = Unset
  BY <1>1 DEF Unset
<1>2. CASE ~GatewayRestarts /\ sample'[s] = sample[s] /\ accounted'[s] = accounted[s]
  <2>1. overlapped \subseteq overlapped'
    BY <1>2, Noticing
  <2> QED
    BY <1>0, <1>2, <2>1
<1>3. GatewayRestarts => sample'[s] = Unset /\ accounted'[s] = Unset
  BY DEF GatewayRestarts, NoSamples
<1>4. ASSUME NEW pg \in Pages, ReadStage(pg), request[pg].stage = s,
             request[pg].next = NumPartitions + 1, sample'[s] = request[pg].current,
             accounted'[s] = IF sample[s] = Unset THEN request[pg].current
                             ELSE accounted[s] + AtLeastZero(request[pg].current - sample[s])
      PROVE  /\ accounted'[s] >= sample'[s]
             /\ s \notin overlapped' => accounted'[s] = sample'[s]
  <2>1. PICK offset \in Nat : offset = request[pg].current
    BY DEF Types, Requests
  <2>2. overlapped' = overlapped
    BY <1>4 DEF ReadStage
  <2>3. CASE sample[s] = Unset
    BY <1>4, <2>1, <2>3
  <2>4. CASE sample[s] # Unset
    <3>1. accounted'[s] = accounted[s] + AtLeastZero(offset - sample[s]) /\ sample'[s] = offset
      BY <1>4, <2>1, <2>4
    <3>2. s \notin overlapped => offset >= sample[s]
      <4> SUFFICES ASSUME s \notin overlapped PROVE offset >= sample[s]
        OBVIOUS
      <4>1. Reading(pg, s) /\ request[pg].next - 1 = NumPartitions
        BY <1>4, Bounds DEF ReadStage, Reading
      <4>2. PICK sum \in [0 .. NumPartitions -> Nat] :
               SumsTo(NumPartitions, s, sample[s], sum) /\ NotBehind(pg, sum)
        BY <2>4, <4>1 DEF Sampled
      <4> QED
        BY <2>1, <4>1, <4>2 DEF SumsTo, NotBehind
    <3> QED
      BY <1>0, <2>2, <3>1, <3>2 DEF AtLeastZero
  <2> QED
    BY <2>3, <2>4
<1> QED
  BY <1>1, <1>2, <1>3, <1>4, Sampling

---------------------------------------------------------------------------
(* Theorems.                                                               *)

LEMMA InitIInv == Init => IInv
<1> SUFFICES ASSUME Init PROVE IInv
  OBVIOUS
<1>0. /\ NumPartitions \in Nat /\ Idle \in Requests /\ Cleared(Idle) /\ Idle.pc = "idle"
      /\ \A s \in Stages : Covered(Idle.stages[s])
      /\ NothingCommitted \in [Partitions -> Int]
      /\ \A pg \in Pages : request[pg] = Idle
      /\ \A p \in Partitions : logEnd[p] = 0 /\ committed[p] = Unset
      /\ CommittedOffset(Unset) = 0
      /\ \A p \in Partitions : Idle.offsets[p] = Unset /\ Idle.owed[p] = 0
  BY MetricsAssumption, IdleIsCleared
     DEF Init, Cleared, NothingCommitted, NothingOwed, CommittedOffset, AtLeastZero, Unset
<1>1. Types
  BY <1>0 DEF Init, Types, NoSamples, Unset
<1>2. Owing /\ Covering
  BY <1>0 DEF Owing, Covering, Cleared, AtLeastZero
<1>3. Behind /\ Summing /\ Alone
  BY <1>0 DEF Behind, Summing, Alone, Reading
<1>4. Sampled /\ MessagesCountedOnce
  BY DEF Init, NoSamples, Sampled, MessagesCountedOnce, Unset
<1> QED
  BY <1>1, <1>2, <1>3, <1>4 DEF IInv

\* The inductive invariant, for any number of pages whose requests overlap.
THEOREM Inductive == Spec => []IInv
<1>1. IInv /\ [Next]_vars => IInv'
  BY StepTypes, StepOwing, StepCovering, StepBehind, StepSumming, StepSampled, StepAlone,
     StepCounted DEF IInv
<1> QED
  BY <1>1, InitIInv, PTL DEF Spec

\* The rates together count what went through a stage since its first sample, each message
\* once unless requests that read the stage at once made them, whatever fails between.
THEOREM RatesCountOnce == Spec => []MessagesCountedOnce
<1>1. IInv => MessagesCountedOnce
  BY DEF IInv
<1> QED
  BY <1>1, Inductive, PTL

\* A page that says "healthy" shows stages that were drained at one moment, each on all its
\* partitions, or could not be read.
THEOREM HealthyMeansDrained == Spec => HealthyWasDrained
<1>1. ASSUME IInv, NEW pg \in Pages, Answered(pg), NEW s \in Stages
      PROVE  LET shown == request[pg].stages[s] IN
             \/ shown.status = "unavailable"
             \/ /\ shown.lag >= shown.backlog
                /\ "healthy" \in {shown.status, page'[pg]} => shown.backlog = 0
  <2> DEFINE stages == request[pg].stages
             shown == stages[s]
  <2>1. /\ stages \in [Stages -> Results] /\ Covered(shown)
        /\ page \in [Pages -> {"loading", "catching up", "healthy", "offline"}]
    BY <1>1 DEF IInv, Types, Requests, Covering
  <2>2. /\ stages["collector"].lag \in Nat /\ stages["topicmatcher"].lag \in Nat
        /\ shown.lag \in Nat /\ shown.backlog \in Nat
        /\ shown = stages["collector"] \/ shown = stages["topicmatcher"]
    BY <2>1 DEF Stages, Results
  <2>3. page'[pg] = IF stages["collector"].lag + stages["topicmatcher"].lag > 0
                    THEN "catching up" ELSE "healthy"
    BY <1>1, <2>1 DEF Answered
  <2>4. shown.lag >= shown.backlog /\ (shown.status = "healthy" => shown.lag = 0)
    BY <2>1 DEF Covered
  <2> HIDE DEF stages, shown
  <2>5. page'[pg] = "healthy" => shown.lag = 0
    <3>1. ASSUME page'[pg] = "healthy"
          PROVE  stages["collector"].lag = 0 /\ stages["topicmatcher"].lag = 0
      <4>1. \A a, b \in Nat : ~(a + b > 0) => a = 0 /\ b = 0
        OBVIOUS
      <4>2. ~(stages["collector"].lag + stages["topicmatcher"].lag > 0)
        BY <2>3, <3>1
      <4> QED
        BY <2>2, <4>1, <4>2
    <3> QED
      BY <2>2, <3>1
  <2>6. shown.lag = 0 => shown.backlog = 0
    BY <2>2, <2>4
  <2> QED
    BY <2>4, <2>5, <2>6 DEF stages, shown
<1>2. IInv => \A pg \in Pages : Answered(pg) => \A s \in Stages :
         LET shown == request[pg].stages[s] IN
         \/ shown.status = "unavailable"
         \/ /\ shown.lag >= shown.backlog
            /\ "healthy" \in {shown.status, page'[pg]} => shown.backlog = 0
  BY <1>1
<1> QED
  BY <1>2, Inductive, PTL DEF HealthyWasDrained
=============================================================================
