------------------------ MODULE ConsumerLoop_proofs ------------------------
(***************************************************************************)
(* Proofs about ConsumerLoop, for every set of processes and every bound.  *)
(* The inductive invariant is IInv: the settled offsets are a prefix of    *)
(* the partition, every process has settled what it read but for the       *)
(* record in hand, and the owner reads at or after the committed offset.   *)
(***************************************************************************)
EXTENDS ConsumerLoop, TLAPS

LEMMA InitIInv == Init => IInv
  BY BoundsAssumption DEF Init, IInv, TypeOK, WithinLog, Places, SettledIsPrefix,
     ReadIsSettled, OwnerNotBehind, NoSilentLoss, settled, InHand

\* Type correctness is inductive given what is in hand.
LEMMA StepTypeOK == IInv /\ [Next]_vars => TypeOK'
<1> SUFFICES ASSUME IInv, [Next]_vars PROVE TypeOK'
  OBVIOUS
<1> USE DEF IInv, TypeOK, Places
<1> USE BoundsAssumption, NobodyAssumption
<1>1. CASE Append
  BY <1>1 DEF Append
<1>2. ASSUME NEW c \in Consumers, Loop(c) PROVE TypeOK'
  <2>1. CASE Consume(c)
    BY <2>1 DEF Consume, Goto
  <2>2. CASE Poison(c)
    <3>1. position[c] \in Nat /\ position'[c] \in Nat
      BY <2>2 DEF Poison
    <3>2. failed' \in SUBSET Nat
      BY <2>2, <3>1 DEF Poison
    <3>3. position' \in [Consumers -> Nat]
      BY <2>2, <3>1 DEF Poison
    <3> QED
      BY <2>2, <3>2, <3>3 DEF Poison
  <2>3. CASE HandlerReturns(c)
    <3>1. InHand(c) \in Nat
      BY <2>3 DEF HandlerReturns, InHand, OwnerNotBehind
    <3>2. handled' \in SUBSET Nat
      BY <2>3, <3>1 DEF HandlerReturns
    <3> QED
      BY <2>3, <3>2 DEF HandlerReturns, Goto
  <2>4. CASE HandlerThrows(c)
    <3>1. InHand(c) \in Nat
      BY <2>4 DEF HandlerThrows, InHand, OwnerNotBehind
    <3>2. failed' \in SUBSET Nat
      BY <2>4, <3>1 DEF HandlerThrows
    <3> QED
      BY <2>4, <3>2 DEF HandlerThrows, Goto, Fault
  <2>5. CASE Commit(c)
    BY <2>5 DEF Commit, Goto
  <2>6. CASE CommitThrows(c)
    BY <2>6 DEF CommitThrows, Goto, Fault
  <2>7. CASE CommitFenced(c)
    BY <2>7 DEF CommitFenced, Goto
  <2> QED
    BY <1>2, <2>1, <2>2, <2>3, <2>4, <2>5, <2>6, <2>7 DEF Loop
<1>3. ASSUME NEW c \in Consumers, Environment(c) PROVE TypeOK'
  <2>1. CASE Assign(c)
    BY <2>1 DEF Assign
  <2>2. CASE Revoke(c)
    BY <2>2 DEF Revoke, Fault
  <2>3. CASE Expire(c)
    BY <2>3 DEF Expire
  <2>4. CASE Stop(c)
    BY <2>4 DEF Stop, Goto, Fault
  <2>5. CASE Crash(c)
    BY <2>5 DEF Crash, Goto, Fault
  <2>6. CASE Restart(c)
    BY <2>6 DEF Restart, Goto
  <2> QED
    BY <1>3, <2>1, <2>2, <2>3, <2>4, <2>5, <2>6 DEF Environment
<1>4. CASE UNCHANGED vars
  BY <1>4 DEF vars
<1> QED
  BY <1>1, <1>2, <1>3, <1>4 DEF Next

\* A step leaves the settled offsets alone, or settles one record whose
\* predecessors are all settled; the partition does not grow in that step.
SettlesOne(o) ==
    /\ o \in Nat /\ o < logEnd
    /\ \A q \in 0 .. o - 1 : q \in settled
    /\ settled' = settled \cup {o}
    /\ UNCHANGED <<logEnd, committed>>

LEMMA StepSettles ==
  ASSUME IInv, [Next]_vars
  PROVE  settled' = settled \/ \E o \in Nat : SettlesOne(o)
<1> USE DEF settled
<1>1. CASE Append
  BY <1>1 DEF Append
<1>2. ASSUME NEW c \in Consumers, Loop(c)
      PROVE  settled' = settled \/ \E o \in Nat : SettlesOne(o)
  <2> /\ position[c] \in Nat /\ position[c] <= logEnd /\ logEnd \in Nat
      /\ pc[c] = "handle" => position[c] > 0
    BY DEF IInv, TypeOK, WithinLog, OwnerNotBehind
  <2>1. CASE Poison(c)
    <3>1. \A q \in 0 .. position[c] - 1 : q \in settled
      BY <2>1 DEF Poison, IInv, ReadIsSettled
    <3>2. settled' = settled \cup {position[c]}
      BY <2>1 DEF Poison
    <3>3. SettlesOne(position[c])
      BY <2>1, <3>1, <3>2 DEF Poison, SettlesOne
    <3> QED
      BY <3>3
  <2>2. ASSUME HandlerReturns(c) \/ HandlerThrows(c)
        PROVE  \E o \in Nat : SettlesOne(o)
    <3>1. /\ InHand(c) \in Nat /\ InHand(c) < logEnd
          /\ \A q \in 0 .. InHand(c) - 1 : q \in 0 .. position[c] - 1 /\ q # InHand(c)
      BY <2>2 DEF HandlerReturns, HandlerThrows, InHand
    <3>2. \A q \in 0 .. InHand(c) - 1 : q \in settled
      BY <3>1 DEF IInv, ReadIsSettled
    <3>3. settled' = settled \cup {InHand(c)} /\ UNCHANGED <<logEnd, committed>>
      BY <2>2 DEF HandlerReturns, HandlerThrows
    <3>4. SettlesOne(InHand(c))
      BY <3>1, <3>2, <3>3 DEF SettlesOne
    <3> QED
      BY <3>1, <3>4
  <2>3. CASE Consume(c) \/ Commit(c) \/ CommitThrows(c) \/ CommitFenced(c)
    BY <2>3 DEF Consume, Commit, CommitThrows, CommitFenced
  <2> QED
    BY <1>2, <2>1, <2>2, <2>3 DEF Loop
<1>3. ASSUME NEW c \in Consumers, Environment(c) PROVE settled' = settled
  BY <1>3 DEF Environment, Assign, Revoke, Expire, Stop, Crash, Restart
<1>4. CASE UNCHANGED vars
  BY <1>4 DEF vars
<1> QED
  BY <1>1, <1>2, <1>3, <1>4 DEF Next

LEMMA SettledGrows == IInv /\ [Next]_vars => settled \subseteq settled'
  BY StepSettles DEF SettlesOne

LEMMA StepSettledIsPrefix == IInv /\ [Next]_vars => SettledIsPrefix'
<1> SUFFICES ASSUME IInv, [Next]_vars PROVE SettledIsPrefix'
  OBVIOUS
<1>1. CASE settled' = settled
  BY <1>1 DEF IInv, SettledIsPrefix
<1>2. ASSUME NEW o \in Nat, SettlesOne(o) PROVE SettledIsPrefix'
  BY <1>2 DEF SettlesOne, IInv, SettledIsPrefix
<1> QED
  BY <1>1, <1>2, StepSettles

LEMMA StepWithinLog == IInv /\ [Next]_vars => WithinLog'
<1> SUFFICES ASSUME IInv, [Next]_vars PROVE WithinLog'
  OBVIOUS
<1> USE DEF IInv, TypeOK, WithinLog
<1>1. \A o \in settled' : o < logEnd'
  <2>1. logEnd' >= logEnd
    BY DEF Next, Append, Loop, Environment, Consume, Poison, HandlerReturns,
       HandlerThrows, Commit, CommitThrows, CommitFenced, Assign, Revoke,
       Expire, Stop, Crash, Restart, vars
  <2>2. logEnd' \in Nat /\ settled \subseteq Nat
    BY StepTypeOK DEF settled
  <2>3. CASE settled' = settled
    BY <2>1, <2>2, <2>3
  <2>4. ASSUME NEW o \in Nat, SettlesOne(o) PROVE \A q \in settled' : q < logEnd'
    BY <2>4 DEF SettlesOne
  <2> QED
    BY <2>3, <2>4, StepSettles DEF IInv
<1> DEFINE Bounded ==
      /\ logEnd <= MaxRecords /\ faults <= MaxFaults /\ committed <= logEnd
      /\ \A d \in Consumers : position[d] <= logEnd
<1>2. Bounded'
  <2> USE BoundsAssumption
  <2>1. CASE Append
    BY <2>1 DEF Append
  <2>2. ASSUME NEW c \in Consumers, Loop(c) PROVE Bounded'
    <3>1. CASE Consume(c)
      BY <3>1 DEF Consume
    <3>2. CASE Poison(c)
      BY <3>2 DEF Poison
    <3>3. CASE HandlerReturns(c)
      BY <3>3 DEF HandlerReturns
    <3>4. CASE HandlerThrows(c)
      BY <3>4 DEF HandlerThrows, Fault
    <3>5. CASE Commit(c)
      BY <3>5 DEF Commit
    <3>6. CASE CommitThrows(c)
      BY <3>6 DEF CommitThrows, Fault
    <3>7. CASE CommitFenced(c)
      BY <3>7 DEF CommitFenced
    <3> QED
      BY <2>2, <3>1, <3>2, <3>3, <3>4, <3>5, <3>6, <3>7 DEF Loop
  <2>3. ASSUME NEW c \in Consumers, Environment(c) PROVE Bounded'
    <3>1. CASE Assign(c)
      BY <3>1 DEF Assign
    <3>2. CASE Revoke(c)
      BY <3>2 DEF Revoke, Fault
    <3>3. CASE Expire(c)
      BY <3>3 DEF Expire
    <3>4. CASE Stop(c)
      BY <3>4 DEF Stop, Fault
    <3>5. CASE Crash(c)
      BY <3>5 DEF Crash, Fault
    <3>6. CASE Restart(c)
      BY <3>6 DEF Restart
    <3> QED
      BY <2>3, <3>1, <3>2, <3>3, <3>4, <3>5, <3>6 DEF Environment
  <2>4. CASE UNCHANGED vars
    BY <2>4 DEF vars
  <2> QED
    BY <2>1, <2>2, <2>3, <2>4 DEF Next
<1> QED
  BY <1>1, <1>2

LEMMA StepReadIsSettled == IInv /\ [Next]_vars => ReadIsSettled'
<1> SUFFICES ASSUME IInv, [Next]_vars PROVE ReadIsSettled'
  OBVIOUS
<1> USE DEF IInv, TypeOK, ReadIsSettled, InHand
<1>0. settled \subseteq settled'
  BY SettledGrows DEF IInv
<1>1. CASE Append
  BY <1>0, <1>1 DEF Append
<1>2. ASSUME NEW c \in Consumers, Loop(c) PROVE ReadIsSettled'
  <2>1. CASE Consume(c)
    BY <1>0, <2>1 DEF Consume, Goto, Places
  <2>2. CASE Poison(c)
    <3>1. position[c] \in settled'
      BY <2>2 DEF Poison, settled
    <3> QED
      BY <1>0, <2>2, <3>1 DEF Poison
  <2>3. ASSUME HandlerReturns(c) \/ HandlerThrows(c) PROVE ReadIsSettled'
    <3>1. InHand(c) \in settled'
      BY <2>3 DEF HandlerReturns, HandlerThrows, settled
    <3>2. position' = position /\ \A d \in Consumers \ {c} : pc'[d] = pc[d]
      BY <2>3 DEF HandlerReturns, HandlerThrows, Goto
    <3> QED
      BY <1>0, <3>1, <3>2
  <2>4. ASSUME Commit(c) \/ CommitThrows(c) \/ CommitFenced(c)
        PROVE  ReadIsSettled'
    <3>1. /\ position' = position /\ pc[c] = "commit"
          /\ \A d \in Consumers \ {c} : pc'[d] = pc[d]
      BY <2>4 DEF Commit, CommitThrows, CommitFenced, Goto
    <3> QED
      BY <1>0, <3>1
  <2> QED
    BY <1>2, <2>1, <2>2, <2>3, <2>4 DEF Loop
<1>3. ASSUME NEW c \in Consumers, Environment(c) PROVE ReadIsSettled'
  <2>1. CASE Assign(c)
    <3>1. /\ position'[c] = committed /\ pc' = pc
          /\ \A d \in Consumers \ {c} : position'[d] = position[d]
      BY <2>1 DEF Assign
    <3> QED
      BY <1>0, <3>1 DEF NoSilentLoss
  <2>2. CASE Revoke(c)
    BY <1>0, <2>2 DEF Revoke
  <2>3. CASE Expire(c)
    BY <1>0, <2>3 DEF Expire
  <2>4. ASSUME Stop(c) \/ Crash(c) PROVE ReadIsSettled'
    <3>1. /\ position'[c] = 0
          /\ \A d \in Consumers \ {c} : position'[d] = position[d] /\ pc'[d] = pc[d]
      BY <2>4 DEF Stop, Crash, Goto
    <3> QED
      BY <1>0, <3>1
  <2>5. CASE Restart(c)
    BY <1>0, <2>5 DEF Restart, Goto
  <2> QED
    BY <1>3, <2>1, <2>2, <2>3, <2>4, <2>5 DEF Environment
<1>4. CASE UNCHANGED vars
  BY <1>0, <1>4 DEF vars
<1> QED
  BY <1>1, <1>2, <1>3, <1>4 DEF Next

LEMMA StepOwnerNotBehind == IInv /\ [Next]_vars => OwnerNotBehind'
<1> SUFFICES ASSUME IInv, [Next]_vars PROVE OwnerNotBehind'
  OBVIOUS
<1> USE DEF IInv, TypeOK, OwnerNotBehind
<1> USE NobodyAssumption
<1>1. CASE Append
  BY <1>1 DEF Append
<1>2. ASSUME NEW c \in Consumers, Loop(c) PROVE OwnerNotBehind'
  <2>1. CASE Consume(c)
    BY <2>1 DEF Consume, Goto
  <2>2. CASE Poison(c)
    BY <2>2 DEF Poison
  <2>3. CASE HandlerReturns(c)
    BY <2>3 DEF HandlerReturns, Goto
  <2>4. CASE HandlerThrows(c)
    BY <2>4 DEF HandlerThrows, Goto
  <2>5. CASE Commit(c)
    BY <2>5 DEF Commit, Goto
  <2>6. CASE CommitThrows(c)
    BY <2>6 DEF CommitThrows, Goto
  <2>7. CASE CommitFenced(c)
    BY <2>7 DEF CommitFenced, Goto
  <2> QED
    BY <1>2, <2>1, <2>2, <2>3, <2>4, <2>5, <2>6, <2>7 DEF Loop
<1>3. ASSUME NEW c \in Consumers, Environment(c) PROVE OwnerNotBehind'
  <2>1. CASE Assign(c)
    BY <2>1 DEF Assign
  <2>2. CASE Revoke(c)
    BY <2>2 DEF Revoke
  <2>3. CASE Expire(c)
    BY <2>3 DEF Expire
  <2>4. CASE Stop(c)
    BY <2>4 DEF Stop, Goto
  <2>5. CASE Crash(c)
    BY <2>5 DEF Crash, Goto
  <2>6. CASE Restart(c)
    BY <2>6 DEF Restart, Goto
  <2> QED
    BY <1>3, <2>1, <2>2, <2>3, <2>4, <2>5, <2>6 DEF Environment
<1>4. CASE UNCHANGED vars
  BY <1>4 DEF vars
<1> QED
  BY <1>1, <1>2, <1>3, <1>4 DEF Next

\* Only Commit moves the group's offset: forward, and over settled records.
LEMMA StepCommit ==
  ASSUME IInv, [Next]_vars, committed' # committed
  PROVE  /\ owner \in Consumers /\ pc[owner] = "commit"
         /\ committed' = position[owner] /\ committed' > committed
         /\ UNCHANGED <<logEnd, settled>>
<1>1. PICK c \in Consumers : Commit(c)
  BY DEF Next, Append, Loop, Environment, Consume, Poison, HandlerReturns,
     HandlerThrows, CommitThrows, CommitFenced, Assign, Revoke, Expire, Stop,
     Crash, Restart, vars
<1> QED
  BY <1>1 DEF Commit, IInv, TypeOK, OwnerNotBehind, settled

LEMMA StepNoSilentLoss == IInv /\ [Next]_vars => NoSilentLoss'
<1> SUFFICES ASSUME IInv, [Next]_vars PROVE NoSilentLoss'
  OBVIOUS
<1>1. CASE committed' = committed
  BY <1>1, SettledGrows DEF IInv, NoSilentLoss
<1>2. CASE committed' # committed
  BY <1>2, StepCommit DEF IInv, NoSilentLoss, ReadIsSettled
<1> QED
  BY <1>1, <1>2

\* IInv holds in every reachable state: the argument behind every result.
THEOREM Inductive == Spec => []IInv
<1>1. Init => IInv
  BY InitIInv
<1>2. IInv /\ [Next]_vars => IInv'
  <2> SUFFICES ASSUME IInv, [Next]_vars PROVE IInv'
    OBVIOUS
  <2>1. TypeOK' /\ WithinLog' /\ SettledIsPrefix'
    BY StepTypeOK, StepWithinLog, StepSettledIsPrefix
  <2>2. ReadIsSettled' /\ OwnerNotBehind' /\ NoSilentLoss'
    BY StepReadIsSettled, StepOwnerNotBehind, StepNoSilentLoss
  <2> QED
    BY <2>1, <2>2 DEF IInv
<1> QED
  BY <1>1, <1>2, PTL DEF Spec

\* Every variable of the loop keeps its type, for every group and bound.
THEOREM TypeCorrect == Spec => []TypeOK
<1>1. IInv => TypeOK
  BY DEF IInv
<1> QED
  BY <1>1, Inductive, PTL

\* Whatever crashes, rebalances and refused commits happen, the group never
\* passes a record that no process handled or saw fail.
THEOREM NothingLostInSilence == Spec => []NoSilentLoss
<1>1. IInv => NoSilentLoss
  BY DEF IInv
<1> QED
  BY <1>1, Inductive, PTL

\* The group's offset moves forward only, by the process that holds the
\* partition: a fenced process cannot rewind it.
THEOREM CommitsForward == Spec => CommitOnlyForward
<1>1. IInv /\ [Next]_vars =>
        [committed' # committed =>
           /\ committed' > committed
           /\ owner \in Consumers /\ pc[owner] = "commit"]_vars
  BY StepCommit
<1> QED
  BY <1>1, Inductive, PTL DEF Spec, CommitOnlyForward

\* Records of a partition are first handled out of order only when the
\* earlier one had failed.
THEOREM OrderLostOnlyByFailure == Spec => ReorderedOnlyAfterFailure
<1> DEFINE Ordered == \A o \in handled' \ handled, p \in handled : o < p => o \in failed
<1>1. IInv /\ [Next]_vars => [Ordered]_vars
  <2> SUFFICES ASSUME IInv, NEW o \in handled' \ handled, NEW p \in handled, o < p,
                      [Next]_vars, TypeOK'
               PROVE  o \in failed
    BY StepTypeOK
  <2>1. o \in 0 .. p - 1
    BY DEF IInv, TypeOK
  <2>2. o \in settled
    BY <2>1 DEF IInv, SettledIsPrefix, settled
  <2> QED
    BY <2>2 DEF settled
<1> QED
  BY <1>1, Inductive, PTL DEF Spec, ReorderedOnlyAfterFailure

\* The loop implements the contract of PartitionDelivery.
THEOREM LoopImplementsContract == Spec => ImplementsContract
<1>1. Init => Contract!Init
  BY DEF Init, Contract!Init, settled
<1>2. IInv /\ [Next]_vars => [Contract!Next]_(Contract!vars)
  <2> SUFFICES ASSUME IInv, [Next]_vars PROVE [Contract!Next]_(Contract!vars)
    OBVIOUS
  <2> USE DEF Contract!vars, Contract!Next, Contract!Offsets
  <2>1. ASSUME NEW o \in Nat, SettlesOne(o) PROVE Contract!Next
    <3>1. o \in 0 .. logEnd - 1 /\ logEnd \in Nat
      BY <2>1 DEF SettlesOne, IInv, TypeOK
    <3>2. Contract!Settle(o)
      BY <2>1, <3>1 DEF SettlesOne, Contract!Settle
    <3> QED
      BY <3>1, <3>2
  <2>2. CASE committed' # committed
    <3>1. committed' \in 1 .. logEnd /\ committed < committed'
      BY <2>2, StepCommit DEF IInv, TypeOK, WithinLog
    <3>2. 0 .. committed' - 1 \subseteq settled
      BY <2>2, StepCommit, StepNoSilentLoss DEF NoSilentLoss
    <3>3. Contract!Advance(committed')
      BY <2>2, <3>1, <3>2, StepCommit DEF Contract!Advance
    <3> QED
      BY <3>1, <3>3
  <2>3. CASE settled' = settled /\ committed' = committed
    <3>1. logEnd' = logEnd \/ Append
      BY DEF Next, Loop, Environment, Consume, Poison, HandlerReturns,
         HandlerThrows, Commit, CommitThrows, CommitFenced, Assign, Revoke,
         Expire, Stop, Crash, Restart, vars
    <3> QED
      BY <2>3, <3>1 DEF Append, Contract!Append
  <2> QED
    BY <2>1, <2>2, <2>3, StepSettles
<1> QED
  BY <1>1, <1>2, Inductive, PTL DEF Spec, ImplementsContract, Contract!Spec
=============================================================================
