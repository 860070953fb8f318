-------------------------- MODULE PipelineMetrics --------------------------
(***************************************************************************)
(* ThreeRevertWatch.Gateway/Services/PipelineMetricsService.cs, polled by  *)
(* the page Pipeline.razor: offsets are read stage by stage, one call      *)
(* after another, while the pipeline goes on and other pages do the same;  *)
(* the samples rates are computed from belong to all requests.             *)
(*                                                                         *)
(* Two of the six stages, both over raw-edits: "collector", which has no   *)
(* consumer group, and "topicmatcher", which the other four are like.  A   *)
(* rate is represented by the messages it counts; the time it divides them *)
(* by is left out.  A page has one request, and begins the next when the   *)
(* one it gave up is over: how requests overlap is shown by several pages. *)
(***************************************************************************)
EXTENDS Integers

CONSTANTS
    Pages,          \* open Pipeline pages
    NumPartitions,  \* of raw-edits, in the order of the metadata
    CatchingUp,     \* the lag up to which a stage is "catching_up"
    MaxRecords,     \* bound: records per partition
    MaxFaults       \* bound: failed reads, lost answers, gateway restarts

ASSUME MetricsAssumption == {NumPartitions, CatchingUp, MaxRecords, MaxFaults} \subseteq Nat

Partitions == 1 .. NumPartitions
Stages == {"collector", "topicmatcher"}
HasGroup(s) == s = "topicmatcher"

VARIABLES
    logEnd,         \* Kafka: end of each partition
    committed,      \* Kafka: committed offset of the matcher's group, or Unset
    sample,         \* _previousSamples: offset by stage, or Unset
    request,        \* per page: its request at the gateway
    waiting,        \* pages that wait for the answer of their request
    page,           \* per page: _state
    accounted,      \* history: the first sample and what all rates since have counted
    overlapped,     \* history: stages that two requests have read at once
    faults

kafka == <<logEnd, committed>>
samples == <<sample, accounted>>
vars == <<kafka, samples, request, waiting, page, overlapped, faults>>

Unset == -1
AtLeastZero(n) == IF n > 0 THEN n ELSE 0

NothingCommitted == [p \in Partitions |-> Unset]
NothingOwed == [p \in Partitions |-> 0]

\* What a request knows of a stage; backlog is a ghost, the true lag at the
\* moment the committed offsets were read: the sum of what every partition owed
\* then.
Unread == [status |-> "unread", lag |-> 0, backlog |-> 0]
Idle == [pc |-> "idle", stage |-> "collector", offsets |-> NothingCommitted, owed |-> NothingOwed,
         next |-> 1, current |-> 0, lag |-> 0, backlog |-> 0,
         stages |-> [s \in Stages |-> Unread]]

NoSamples == [s \in Stages |-> Unset]

Init ==
    /\ logEnd = [p \in Partitions |-> 0]
    /\ committed = NothingCommitted
    /\ sample = NoSamples /\ accounted = NoSamples /\ overlapped = {}
    /\ request = [pg \in Pages |-> Idle] /\ waiting = {}
    /\ page = [pg \in Pages |-> "loading"]
    /\ faults = 0

Fault == faults < MaxFaults /\ faults' = faults + 1

---------------------------------------------------------------------------
(* The pipeline.                                                           *)

\* GetValueOrDefault and Unset both count as 0.
CommittedOffset(o) == AtLeastZero(o)

Produce(p) ==
    /\ logEnd[p] < MaxRecords
    /\ logEnd' = [logEnd EXCEPT ![p] = @ + 1]
    /\ UNCHANGED <<committed, samples, request, waiting, page, overlapped, faults>>

Commit(p) ==
    /\ CommittedOffset(committed[p]) < logEnd[p]
    /\ committed' = [committed EXCEPT ![p] = CommittedOffset(@) + 1]
    /\ UNCHANGED <<logEnd, samples, request, waiting, page, overlapped, faults>>

Lag(p) == logEnd[p] - CommittedOffset(committed[p])

---------------------------------------------------------------------------
(* GetAsync and ReadStage.                                                 *)

\* LoadAsync: the first time, and at a tick of the timer.
LoadAsync(pg) ==
    /\ request[pg].pc = "idle"
    /\ request' = [request EXCEPT ![pg] = [Idle EXCEPT !.pc = "stage"]]
    /\ waiting' = waiting \cup {pg}
    /\ UNCHANGED <<kafka, samples, page, overlapped, faults>>

\* ThrowIfCancellationRequested, if the gateway has noticed that nobody waits for
\* the answer any more; an answer to nobody is dropped.
Cancelled(pg) ==
    /\ request[pg].pc \in {"stage", "answer"} /\ pg \notin waiting
    /\ request' = [request EXCEPT ![pg] = Idle]
    /\ UNCHANGED <<kafka, samples, waiting, page, overlapped, faults>>

Reading(pg, s) == request[pg].pc = "watermarks" /\ request[pg].stage = s

\* GetPartitions and Committed: the offsets of all partitions at once.
ReadCommitted(pg) ==
    LET s == request[pg].stage IN
    /\ request[pg].pc = "stage"
    /\ request' = [request EXCEPT
          ![pg].pc = "watermarks",
          ![pg].offsets = IF HasGroup(s) THEN committed ELSE @,
          ![pg].owed = IF HasGroup(s) THEN [p \in Partitions |-> Lag(p)] ELSE @]
    /\ overlapped' = overlapped \cup {t \in {s} : \E other \in Pages : Reading(other, t)}
    /\ UNCHANGED <<kafka, samples, waiting, page, faults>>

\* Mutant: the committed offset is asked for together with the watermark.
CurrentAskedLater(pg, p) ==
    IF HasGroup(request[pg].stage) THEN CommittedOffset(committed[p]) ELSE logEnd[p]

\* Without a group the end of the partition stands for the offset, so that
\* throughputOffset is the sum of these in either case.
Current(pg, p) ==
    IF HasGroup(request[pg].stage) THEN CommittedOffset(request[pg].offsets[p]) ELSE logEnd[p]

QueryWatermarkOffsets(pg) ==
    LET p == request[pg].next IN
    /\ request[pg].pc = "watermarks" /\ p \in Partitions
    /\ request' = [request EXCEPT
          ![pg].next = p + 1,
          ![pg].current = @ + Current(pg, p),
          ![pg].lag = @ + AtLeastZero(logEnd[p] - Current(pg, p)),
          ![pg].backlog = @ + request[pg].owed[p]]
    /\ UNCHANGED <<kafka, samples, waiting, page, overlapped, faults>>

StatusFor(lag) ==
    CASE lag = 0 -> "healthy"
      [] lag \in 1 .. CatchingUp -> "catching_up"
      [] OTHER -> "backlog"

\* Mutant: the sample of the first request is kept.
CalculateRateFromFirst(s, offset) ==
    /\ sample' = [sample EXCEPT ![s] = IF @ = Unset THEN offset ELSE @]
    /\ accounted' = [accounted EXCEPT ![s] =
          IF sample[s] = Unset THEN offset ELSE @ + AtLeastZero(offset - sample[s])]

\* Under the lock.
CalculateRate(s, offset) ==
    /\ sample' = [sample EXCEPT ![s] = offset]
    /\ accounted' = [accounted EXCEPT ![s] =
          IF sample[s] = Unset THEN offset ELSE @ + AtLeastZero(offset - sample[s])]

\* The stage is read, as result; GetAsync goes on to the next.
Add(pg, result) ==
    LET s == request[pg].stage IN
    request' = [request EXCEPT ![pg] = [Idle EXCEPT
        !.pc = IF s = "collector" THEN "stage" ELSE "answer",
        !.stage = "topicmatcher",
        !.stages = [request[pg].stages EXCEPT ![s] = result]]]

ReadStage(pg) ==
    LET r == request[pg] IN
    /\ r.pc = "watermarks" /\ r.next \notin Partitions
    /\ CalculateRate(r.stage, r.current)
    /\ Add(pg, [status |-> StatusFor(r.lag), lag |-> r.lag, backlog |-> r.backlog])
    /\ UNCHANGED <<kafka, waiting, page, overlapped, faults>>

\* A call to Kafka throws: the stage is reported without numbers.
ReadStageFails(pg) ==
    /\ Fault
    /\ \/ request[pg].pc = "stage"
       \/ request[pg].pc = "watermarks" /\ request[pg].next \in Partitions
    /\ Add(pg, [Unread EXCEPT !.status = "unavailable"])
    /\ UNCHANGED <<kafka, samples, waiting, page, overlapped>>

---------------------------------------------------------------------------
(* The page.                                                               *)

Answered(pg) ==
    LET stages == request[pg].stages
        TotalLag == stages["collector"].lag + stages["topicmatcher"].lag
    IN
    /\ request[pg].pc = "answer" /\ pg \in waiting
    /\ page' = [page EXCEPT ![pg] = IF TotalLag > 0 THEN "catching up" ELSE "healthy"]
    /\ request' = [request EXCEPT ![pg] = Idle]
    /\ waiting' = waiting \ {pg}
    /\ UNCHANGED <<kafka, samples, overlapped, faults>>

Offline(pgs) ==
    page' = [pg \in Pages |-> IF pg \in pgs THEN "offline" ELSE page[pg]]

\* The page's call times out or its connection breaks; the gateway reads on.
LoadFails(pg) ==
    /\ Fault
    /\ pg \in waiting
    /\ waiting' = waiting \ {pg}
    /\ Offline({pg})
    /\ UNCHANGED <<kafka, samples, request, overlapped>>

\* A new gateway has taken no sample.
GatewayRestarts ==
    /\ Fault
    /\ sample' = NoSamples /\ accounted' = NoSamples /\ overlapped' = {}
    /\ request' = [pg \in Pages |-> Idle]
    /\ Offline(waiting) /\ waiting' = {}
    /\ UNCHANGED kafka

Gateway(pg) ==
    Cancelled(pg) \/ ReadCommitted(pg) \/ QueryWatermarkOffsets(pg) \/ ReadStage(pg)

Next ==
    \/ \E p \in Partitions : Produce(p) \/ Commit(p)
    \/ \E pg \in Pages :
          LoadAsync(pg) \/ Gateway(pg) \/ ReadStageFails(pg) \/ Answered(pg) \/ LoadFails(pg)
    \/ GatewayRestarts

Spec == Init /\ [][Next]_vars

---------------------------------------------------------------------------
(* Properties.                                                             *)

\* A page that says "healthy" shows stages that were drained, each on all its
\* partitions at one moment of the request, or could not be read: the lag of a stage
\* covers the backlog it had when its committed offsets were read, although the ends
\* are read later and one by one.
HealthyWasDrained ==
    [][\A pg \in Pages : Answered(pg) => \A s \in Stages :
        LET shown == request[pg].stages[s] IN
        \/ shown.status = "unavailable"
        \/ /\ shown.lag >= shown.backlog
           /\ "healthy" \in {shown.status, page'[pg]} => shown.backlog = 0]_vars

\* The rates together count what went through a stage since its first sample, each
\* message once, although samples are shared and reads may fail between them; what
\* requests that read the stage at once may do is count a message again.
MessagesCountedOnce ==
    \A s \in Stages :
        /\ accounted[s] >= sample[s]
        /\ s \notin overlapped => accounted[s] = sample[s]
=============================================================================
