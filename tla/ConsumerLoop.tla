--------------------------- MODULE ConsumerLoop ---------------------------
(***************************************************************************)
(* ThreeRevertWatch.Infrastructure/Kafka/KafkaConsumerLoop.cs: the loop    *)
(* every worker runs (TopicMatcher, ConflictDetector, Aggregator, the two  *)
(* Gateway broadcasters), seen on one partition of one topic.  Consumers   *)
(* are the processes of one consumer group.  EnableAutoCommit is FALSE in  *)
(* every deployment of the repository and is not a parameter here.         *)
(*                                                                         *)
(* Broker behaviour (append, assignment, fencing) is external: it is what  *)
(* Subscribe, Consume, Commit and Close of Confluent.Kafka offer the loop. *)
(***************************************************************************)
EXTENDS Naturals

CONSTANTS
    Consumers,      \* processes of the group
    Nobody,         \* the partition is assigned to no process
    MaxRecords,     \* bound: records appended to the partition
    MaxFaults       \* bound: failures, crashes and rebalances of one behaviour

ASSUME NobodyAssumption == Nobody \notin Consumers
ASSUME BoundsAssumption == MaxRecords \in Nat /\ MaxFaults \in Nat

VARIABLES
    logEnd,         \* broker: next offset to be appended
    malformed,      \* broker: offsets whose bytes the deserializer rejects
    committed,      \* broker: the group's committed offset
    owner,          \* broker: the process the partition is assigned to
    pc,             \* process: where it stands in the while loop
    position,       \* process: offset the next Consume returns
    handled,        \* history: offsets some handler call completed
    failed,         \* history: offsets the handler or the deserializer threw on
    faults          \* number of faults so far

vars == <<logEnd, malformed, committed, owner, pc, position, handled, failed, faults>>

Places == {"poll", "handle", "commit", "down"}

settled == handled \cup failed

\* The record a process has in hand while in "handle" or "commit".
InHand(c) == position[c] - 1

Init ==
    /\ logEnd = 0
    /\ malformed = {}
    /\ committed = 0                        \* AutoOffsetReset = earliest
    /\ owner = Nobody
    /\ pc = [c \in Consumers |-> "poll"]
    /\ position = [c \in Consumers |-> 0]
    /\ handled = {}
    /\ failed = {}
    /\ faults = 0

Fault ==
    /\ faults < MaxFaults
    /\ faults' = faults + 1

Goto(c, place) == pc' = [pc EXCEPT ![c] = place]

---------------------------------------------------------------------------
(* The broker.                                                             *)

\* A producer appends a record, well formed or not.
Append ==
    /\ logEnd < MaxRecords
    /\ logEnd' = logEnd + 1
    /\ malformed' \in {malformed, malformed \cup {logEnd}}
    /\ UNCHANGED <<committed, owner, pc, position, handled, failed, faults>>

\* A free partition goes to a process that polls; it reads from the
\* committed offset.
Assign(c) ==
    /\ owner = Nobody
    /\ pc[c] = "poll"
    /\ owner' = c
    /\ position' = [position EXCEPT ![c] = committed]
    /\ UNCHANGED <<logEnd, malformed, committed, pc, handled, failed, faults>>

\* A rebalance, or a handler slower than max.poll.interval: the process
\* loses the partition wherever it stands, and the loop is not told.
Revoke(c) ==
    /\ owner = c
    /\ pc[c] # "down"
    /\ Fault
    /\ owner' = Nobody
    /\ UNCHANGED <<logEnd, malformed, committed, pc, position, handled, failed>>

\* The session of a crashed process times out.
Expire(c) ==
    /\ owner = c
    /\ pc[c] = "down"
    /\ owner' = Nobody
    /\ UNCHANGED <<logEnd, malformed, committed, pc, position, handled, failed, faults>>

---------------------------------------------------------------------------
(* The loop.                                                               *)

\* Mutant: the offset is committed before the handler runs.
ConsumeAndCommit(c) ==
    /\ pc[c] = "poll"
    /\ owner = c
    /\ position[c] < logEnd
    /\ position[c] \notin malformed
    /\ position' = [position EXCEPT ![c] = @ + 1]
    /\ committed' = position[c] + 1
    /\ Goto(c, "handle")
    /\ UNCHANGED <<logEnd, malformed, owner, handled, failed, faults>>

\* Consume returns the next record; the position moves past it.
Consume(c) ==
    /\ pc[c] = "poll"
    /\ owner = c
    /\ position[c] < logEnd
    /\ position[c] \notin malformed
    /\ position' = [position EXCEPT ![c] = @ + 1]
    /\ Goto(c, "handle")
    /\ UNCHANGED <<logEnd, malformed, committed, owner, handled, failed, faults>>

\* Mutant: a record that cannot be deserialized is offered again.
PoisonBlocks(c) ==
    /\ pc[c] = "poll"
    /\ owner = c
    /\ position[c] < logEnd
    /\ position[c] \in malformed
    /\ UNCHANGED vars

\* Consume throws on a record it cannot deserialize: caught, logged, and the
\* position is past the record all the same.
Poison(c) ==
    /\ pc[c] = "poll"
    /\ owner = c
    /\ position[c] < logEnd
    /\ position[c] \in malformed
    /\ failed' = failed \cup {position[c]}
    /\ position' = [position EXCEPT ![c] = @ + 1]
    /\ UNCHANGED <<logEnd, malformed, committed, owner, pc, handled, faults>>

HandlerReturns(c) ==
    /\ pc[c] = "handle"
    /\ handled' = handled \cup {InHand(c)}
    /\ Goto(c, "commit")
    /\ UNCHANGED <<logEnd, malformed, committed, owner, position, failed, faults>>

\* The handler throws: the catch block logs, delays and loops, without Seek
\* and without Commit.
HandlerThrows(c) ==
    /\ pc[c] = "handle"
    /\ Fault
    /\ failed' = failed \cup {InHand(c)}
    /\ Goto(c, "poll")
    /\ UNCHANGED <<logEnd, malformed, committed, owner, position, handled>>

\* Mutant: the offset is incremented before Commit, which increments it again.
CommitPastNext(c) ==
    /\ pc[c] = "commit"
    /\ owner = c
    /\ committed' = position[c] + 1
    /\ Goto(c, "poll")
    /\ UNCHANGED <<logEnd, malformed, owner, position, handled, failed, faults>>

\* Mutant: everything fetched so far is committed, not the record handled.
CommitFetched(c) ==
    /\ pc[c] = "commit"
    /\ owner = c
    /\ committed' = logEnd
    /\ Goto(c, "poll")
    /\ UNCHANGED <<logEnd, malformed, owner, position, handled, failed, faults>>

Commit(c) ==
    /\ pc[c] = "commit"
    /\ owner = c
    /\ committed' = position[c]
    /\ Goto(c, "poll")
    /\ UNCHANGED <<logEnd, malformed, owner, position, handled, failed, faults>>

\* Commit throws while the process holds the partition (broker unreachable).
CommitThrows(c) ==
    /\ pc[c] = "commit"
    /\ owner = c
    /\ Fault
    /\ Goto(c, "poll")
    /\ UNCHANGED <<logEnd, malformed, committed, owner, position, handled, failed>>

\* Commit throws because the process does not hold the partition.  External: the
\* loop registers no rebalance handlers, and that the broker refuses such a commit
\* is taken for granted.  A client that lost the partition and was given it back
\* in the background, before it commits what it consumed first, is not modelled.
CommitFenced(c) ==
    /\ pc[c] = "commit"
    /\ owner # c
    /\ Goto(c, "poll")
    /\ UNCHANGED <<logEnd, malformed, committed, owner, position, handled, failed, faults>>

---------------------------------------------------------------------------
(* The process.                                                            *)

\* Mutant: Close commits what was consumed (EnableAutoCommit).
StopCommits(c) ==
    /\ pc[c] # "down"
    /\ Fault
    /\ Goto(c, "down")
    /\ owner' = IF owner = c THEN Nobody ELSE owner
    /\ committed' = IF owner = c THEN position[c] ELSE committed
    /\ position' = [position EXCEPT ![c] = 0]
    /\ UNCHANGED <<logEnd, malformed, handled, failed>>

\* Cancellation: break, Close, leave the group.
Stop(c) ==
    /\ pc[c] # "down"
    /\ Fault
    /\ Goto(c, "down")
    /\ owner' = IF owner = c THEN Nobody ELSE owner
    /\ position' = [position EXCEPT ![c] = 0]
    /\ UNCHANGED <<logEnd, malformed, committed, handled, failed>>

\* The process dies; the broker notices later (Expire).
Crash(c) ==
    /\ pc[c] # "down"
    /\ Fault
    /\ Goto(c, "down")
    /\ position' = [position EXCEPT ![c] = 0]
    /\ UNCHANGED <<logEnd, malformed, committed, owner, handled, failed>>

\* restart: unless-stopped; the new process joins once the old member is gone.
Restart(c) ==
    /\ pc[c] = "down"
    /\ owner # c
    /\ Goto(c, "poll")
    /\ UNCHANGED <<logEnd, malformed, committed, owner, position, handled, failed, faults>>

Loop(c) ==
    \/ Consume(c)
    \/ Poison(c)
    \/ HandlerReturns(c)
    \/ HandlerThrows(c)
    \/ Commit(c)
    \/ CommitThrows(c)
    \/ CommitFenced(c)

Environment(c) ==
    \/ Assign(c)
    \/ Revoke(c)
    \/ Expire(c)
    \/ Stop(c)
    \/ Crash(c)
    \/ Restart(c)

Next == Append \/ \E c \in Consumers : Loop(c) \/ Environment(c)

Spec == Init /\ [][Next]_vars

\* The scheduling the code and the deployment give: a polling process is
\* assigned a free partition, a running loop goes on (HttpClient, Npgsql and
\* librdkafka calls all time out), a dead session expires, a dead container
\* is restarted.  Nothing forces a new record or a fault.
Fairness ==
    \A c \in Consumers :
        /\ WF_vars(Assign(c))
        /\ WF_vars(Loop(c))
        /\ WF_vars(Expire(c))
        /\ WF_vars(Restart(c))

FairSpec == Spec /\ Fairness

---------------------------------------------------------------------------
(* Properties.                                                             *)

TypeOK ==
    /\ logEnd \in Nat
    /\ malformed \in SUBSET Nat
    /\ committed \in Nat
    /\ owner \in Consumers \cup {Nobody}
    /\ pc \in [Consumers -> Places]
    /\ position \in [Consumers -> Nat]
    /\ handled \in SUBSET Nat
    /\ failed \in SUBSET Nat
    /\ faults \in Nat

\* Nobody reads, settles or commits past the end of the partition.
WithinLog ==
    /\ logEnd <= MaxRecords /\ faults <= MaxFaults
    /\ committed <= logEnd
    /\ \A c \in Consumers : position[c] <= logEnd
    /\ \A o \in settled : o < logEnd

\* Settled records form a prefix of the partition.
SettledIsPrefix == \A p \in settled : \A o \in 0 .. p - 1 : o \in settled

\* Everything a process has read is settled, but for the record in hand.
ReadIsSettled ==
    \A c \in Consumers : \A o \in 0 .. position[c] - 1 :
        o \in settled \/ (pc[c] = "handle" /\ o = InHand(c))

\* A process between Consume and the end of Commit has a record in hand, and
\* the process that holds the partition is not behind the group's offset.
OwnerNotBehind ==
    \A c \in Consumers :
        /\ pc[c] \in {"handle", "commit"} => position[c] > 0
        /\ owner = c /\ pc[c] = "poll" => position[c] >= committed
        /\ owner = c /\ pc[c] \in {"handle", "commit"} => position[c] > committed

\* No record is lost in silence: an offset the group will never read again
\* was handled by some process, or some process saw it fail.  (A crash, a
\* rebalance or a refused commit alone never loses a record.)
NoSilentLoss == \A o \in 0 .. committed - 1 : o \in settled

\* The strengthening that is inductive.
IInv ==
    /\ TypeOK
    /\ WithinLog
    /\ SettledIsPrefix
    /\ ReadIsSettled
    /\ OwnerNotBehind
    /\ NoSilentLoss

\* A record is handled for the first time after a later one only if it had
\* failed before: neither two processes of the group nor a restart reorder
\* the edits of a page, only the skip-on-failure of the catch block does.
ReorderedOnlyAfterFailure ==
    [][\A o \in handled' \ handled, p \in handled : o < p => o \in failed]_vars

\* Only the process that holds the partition moves the group's offset, and it
\* moves it forward: a fenced process that comes back late cannot rewind it, as
\* far as the broker refuses its commit (CommitFenced).
CommitOnlyForward ==
    [][committed' # committed =>
         /\ committed' > committed
         /\ owner \in Consumers /\ pc[owner] = "commit"]_vars

\* A record that fails never blocks the partition: every appended record is
\* eventually settled, whatever crashes and rebalances happen on the way.
EveryRecordSettles ==
    \A o \in 0 .. MaxRecords - 1 : (logEnd > o) ~> (o \in settled)

\* ConsumerLoop implements the contract of PartitionDelivery.
Contract == INSTANCE PartitionDelivery
ImplementsContract == Contract!Spec
=============================================================================
