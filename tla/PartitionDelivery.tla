------------------------- MODULE PartitionDelivery -------------------------
(***************************************************************************)
(* What one Kafka partition promises a worker of Three Revert Watch,       *)
(* whatever the consumer group does: records are settled (handled, or      *)
(* given up after a failure) in log order, and the committed offset moves  *)
(* forward over settled records only.  ConsumerLoop implements this.       *)
(***************************************************************************)
EXTENDS Naturals

VARIABLES
    logEnd,     \* number of records appended to the partition
    settled,    \* offsets some handler call has finished with, well or badly
    committed   \* the group's next offset to read after a restart

vars == <<logEnd, settled, committed>>

Offsets(n) == 0 .. n - 1

Init == logEnd = 0 /\ settled = {} /\ committed = 0

Append ==
    /\ logEnd' = logEnd + 1
    /\ UNCHANGED <<settled, committed>>

\* A record is settled only once every record before it is.
Settle(o) ==
    /\ o \in Offsets(logEnd)
    /\ Offsets(o) \subseteq settled
    /\ settled' = settled \cup {o}
    /\ UNCHANGED <<logEnd, committed>>

\* The group's offset only advances, and never over an unsettled record.
Advance(n) ==
    /\ n \in Nat
    /\ committed < n
    /\ Offsets(n) \subseteq settled
    /\ committed' = n
    /\ UNCHANGED <<logEnd, settled>>

Next ==
    \/ Append
    \/ \E o \in Offsets(logEnd) : Settle(o)
    \/ \E n \in 1 .. logEnd : Advance(n)

Spec == Init /\ [][Next]_vars
=============================================================================
