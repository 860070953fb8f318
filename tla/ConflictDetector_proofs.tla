---------------------- MODULE ConflictDetector_proofs ----------------------
(***************************************************************************)
(* Theorems about ConflictDetector, for any processes, revisions, contents *)
(* and windows and any bounds.                                             *)
(***************************************************************************)
EXTENDS ConflictDetector, FiniteSetTheorems, WellFoundedInduction, TLAPS

\* What is proved of the consumer loop holds of the loop of this worker.
LoopProofs == INSTANCE ConsumerLoop_proofs WITH
                  Consumers <- Processes, MaxRecords <- MaxRevisions + MaxReplays,
                  logEnd <- Len(log), malformed <- {}

LEMMA SameLoop ==
  /\ Loop!Init => LoopProofs!Init
  /\ [Loop!Next]_(Loop!vars) => [LoopProofs!Next]_(LoopProofs!vars)
  /\ LoopProofs!IInv => Loop!IInv
<1> USE DEF Loop!Goto, LoopProofs!Goto, Loop!Fault, LoopProofs!Fault, Loop!InHand,
        LoopProofs!InHand, Loop!settled, LoopProofs!settled, Loop!Places, LoopProofs!Places
<1>1. Loop!Init => LoopProofs!Init
  BY DEF Loop!Init, LoopProofs!Init
<1>2. Loop!Append => LoopProofs!Append
  BY DEF Loop!Append, LoopProofs!Append
<1>3. ASSUME NEW p \in Processes PROVE Loop!Loop(p) => LoopProofs!Loop(p)
  BY DEF Loop!Loop, Loop!Consume, Loop!Poison, Loop!HandlerReturns, Loop!HandlerThrows,
     Loop!Commit, Loop!CommitThrows, Loop!CommitFenced,
     LoopProofs!Loop, LoopProofs!Consume, LoopProofs!Poison, LoopProofs!HandlerReturns,
     LoopProofs!HandlerThrows, LoopProofs!Commit, LoopProofs!CommitThrows,
     LoopProofs!CommitFenced
<1>4. ASSUME NEW p \in Processes PROVE Loop!Environment(p) => LoopProofs!Environment(p)
  BY DEF Loop!Environment, Loop!Assign, Loop!Revoke, Loop!Expire, Loop!Stop, Loop!Crash,
     Loop!Restart,
     LoopProofs!Environment, LoopProofs!Assign, LoopProofs!Revoke, LoopProofs!Expire,
     LoopProofs!Stop, LoopProofs!Crash, LoopProofs!Restart
<1>5. LoopProofs!IInv => Loop!IInv
  BY DEF Loop!IInv, Loop!TypeOK, Loop!WithinLog, Loop!SettledIsPrefix, Loop!ReadIsSettled,
     Loop!OwnerNotBehind, Loop!NoSilentLoss,
     LoopProofs!IInv, LoopProofs!TypeOK, LoopProofs!WithinLog, LoopProofs!SettledIsPrefix,
     LoopProofs!ReadIsSettled, LoopProofs!OwnerNotBehind, LoopProofs!NoSilentLoss
<1> QED
  BY <1>1, <1>2, <1>3, <1>4, <1>5 DEF Loop!Next, LoopProofs!Next, Loop!vars, LoopProofs!vars

LEMMA LoopInvariant == Loop!Spec => []Loop!IInv
<1>1. LoopProofs!NobodyAssumption /\ LoopProofs!BoundsAssumption
  BY ProcessesAssumption, BoundsAssumption
     DEF LoopProofs!NobodyAssumption, LoopProofs!BoundsAssumption
<1>2. LoopProofs!Spec => []LoopProofs!IInv
  BY <1>1, LoopProofs!Inductive, PTL
<1> QED
  BY <1>2, SameLoop, PTL DEF Loop!Spec, LoopProofs!Spec

---------------------------------------------------------------------------
(* The steps, by what they do to the loop.                                 *)

\* A step of the worker is a step of its loop, or none.
LEMMA StepLoop == [Next]_vars => [Loop!Next]_(Loop!vars)
<1> SUFFICES ASSUME [Next]_vars PROVE [Loop!Next]_(Loop!vars)
  OBVIOUS
<1>1. CASE Upstream
  BY <1>1 DEF Upstream, SaveRevision, Replay, Loop!Next
<1>2. ASSUME NEW p \in Processes,
             \/ Consume(p) \/ SaveThrows(p) \/ Publish(p) \/ PublishThrows(p)
             \/ CommitOffset(p) \/ Membership(p) \/ Die(p)
      PROVE  Loop!Loop(p) \/ Loop!Environment(p)
  BY <1>2 DEF Consume, SaveThrows, Publish, PublishThrows, CommitOffset, Membership, Die,
     Loop!Loop, Loop!Environment
<1>3. ASSUME UNCHANGED <<log, loopVars>> PROVE UNCHANGED Loop!vars
  BY <1>3 DEF loopVars, Loop!vars
<1>4. ASSUME NEW p \in Processes,
             ResolveRevision(p) \/ ResolveFallsBack(p) \/ ClassifyAndApply(p) \/ Save(p)
      PROVE  UNCHANGED <<log, loopVars>>
  BY <1>4 DEF ResolveRevision, ResolveFallsBack, ClassifyAndApply, Save
<1>5. CASE UNCHANGED vars
  BY <1>3, <1>5 DEF vars
<1> QED
  BY <1>1, <1>2, <1>3, <1>4, <1>5 DEF Next, Handle, Loop!Next

\* The worker of the detector is an instance of the consumer loop (the fairness of
\* ImplementsLoop is left to model checking).
THEOREM DetectorImplementsLoop == Spec => Loop!Spec
<1>1. Init => Loop!Init
  BY DEF Init
<1> QED
  BY <1>1, StepLoop, PTL DEF Spec, Loop!Spec

---------------------------------------------------------------------------
(* The invariant.                                                          *)

Page == [id : Nat, user : Users, sha : Shas \cup {NoSha}, time : Nat, signals : SignalSets]

\* A sequence of whatever.
IsASeq(s) == \E S : s \in Seq(S)

Types ==
    /\ page \in Seq(Page) /\ log \in Seq(Nat) /\ updates \in Seq(Nat) /\ IsASeq(editRows)
    /\ stage \in [Processes -> {"idle", "resolve", "apply", "save", "publish"}]
    /\ DOMAIN revision = Processes /\ DOMAIN work = Processes
    /\ DOMAIN memory = Processes /\ DOMAIN applied = Processes

\* The page holds its revisions by id, the partition those ids.
Upstreams ==
    /\ \A i \in 1 .. Len(page) : page[i].id = i
    /\ \A i \in 1 .. Len(log) : log[i] \in 1 .. Len(page)

\* The handler runs while the loop waits for it, and works on the record in hand.
InHandler ==
    \A p \in Processes :
        /\ stage[p] # "idle" <=> pc[p] = "handle"
        /\ stage[p] \in {"apply", "save", "publish"} => revision[p].id = log[position[p]]
        /\ stage[p] \in {"save", "publish"} => work[p].edit.id = log[position[p]]

\* Everything stored and published was asked for.
Asked == Ids(editRows) \cup ToSet(updates) \subseteq ToSet(log)

\* What is about to be published is stored; what is handled is both.
StoredFirst ==
    /\ \A p \in Processes : stage[p] = "publish" => work[p].edit.id \in Ids(editRows)
    /\ \A o \in handled : log[o + 1] \in Ids(editRows) \cap ToSet(updates)

RowCopies(rows, id) == Cardinality({i \in DOMAIN rows : rows[i].id = id})

\* The processes that have stored an edit and not published it yet.
Publishing(id) == {p \in Processes : stage[p] = "publish" /\ work[p].edit.id = id}

\* Every publication, made or to be made, has a row of its own.
RowForEach ==
    \A id \in Nat : Copies(updates, id) + Cardinality(Publishing(id)) <= RowCopies(editRows, id)

\* A process remembers what it has applied, or its window is full.
Remembers ==
    \A p \in Processes :
        /\ IsASeq(memory[p].edits) /\ IsASeq(applied[p])
        /\ \/ ToSet(applied[p]) \subseteq Ids(memory[p].edits)
           \/ RecentEditWindow > 0 /\ Len(memory[p].edits) = RecentEditWindow

IInv == Types /\ Upstreams /\ InHandler /\ Asked /\ StoredFirst /\ RowForEach /\ Remembers

---------------------------------------------------------------------------
(* Sequences, and how often something is in one.                           *)

LEMMA Appended ==
  ASSUME NEW s, IsASeq(s), NEW x
  PROVE  /\ Len(s) \in Nat /\ DOMAIN s = 1 .. Len(s)
         /\ IsASeq(Append(s, x)) /\ DOMAIN Append(s, x) = 1 .. Len(s) + 1
         /\ \A i \in 1 .. Len(s) : Append(s, x)[i] = s[i]
         /\ Append(s, x)[Len(s) + 1] = x
<1>1. PICK S : s \in Seq(S)
  BY DEF IsASeq
<1>2. s \in Seq(S \cup {x}) /\ x \in S \cup {x}
  BY <1>1
<1>3. Append(s, x) \in Seq(S \cup {x})
  BY <1>2
<1> QED
  BY <1>1, <1>2, <1>3 DEF IsASeq

LEMMA ElementsAppended ==
  ASSUME NEW s, IsASeq(s), NEW x
  PROVE  ToSet(Append(s, x)) = ToSet(s) \cup {x} /\ Ids(Append(s, x)) = Ids(s) \cup {x.id}
<1>1. /\ Len(s) \in Nat /\ DOMAIN s = 1 .. Len(s) /\ DOMAIN Append(s, x) = 1 .. Len(s) + 1
      /\ \A i \in 1 .. Len(s) : Append(s, x)[i] = s[i]
      /\ Append(s, x)[Len(s) + 1] = x
  BY Appended
<1> DEFINE t == Append(s, x)
           n == Len(s)
<1> HIDE DEF t, n
<1>2. ToSet(t) = ToSet(s) \cup {x}
  BY <1>1 DEF ToSet, t, n
<1>3. Ids(t) = Ids(s) \cup {x.id}
  BY <1>1 DEF Ids, t, n
<1> QED
  BY <1>2, <1>3 DEF t

LEMMA CopiesAppended ==
  ASSUME NEW s, IsASeq(s), NEW x, NEW id
  PROVE  /\ Copies(s, id) \in Nat /\ RowCopies(s, id) \in Nat
         /\ Copies(Append(s, x), id) = IF x = id THEN Copies(s, id) + 1 ELSE Copies(s, id)
         /\ RowCopies(Append(s, x), id) =
               IF x.id = id THEN RowCopies(s, id) + 1 ELSE RowCopies(s, id)
<1>1. /\ Len(s) \in Nat /\ DOMAIN s = 1 .. Len(s) /\ DOMAIN Append(s, x) = 1 .. Len(s) + 1
      /\ \A i \in 1 .. Len(s) : Append(s, x)[i] = s[i]
      /\ Append(s, x)[Len(s) + 1] = x
  BY Appended
<1>2. IsFiniteSet(1 .. Len(s))
  BY <1>1, FS_Interval
<1>3. ASSUME NEW A, A \subseteq 1 .. Len(s)
      PROVE  /\ IsFiniteSet(A) /\ Cardinality(A) \in Nat
             /\ Cardinality(A \cup {Len(s) + 1}) = Cardinality(A) + 1
  <2>1. IsFiniteSet(A)
    BY <1>2, <1>3, FS_Subset
  <2>2. Len(s) + 1 \notin A
    BY <1>1, <1>3
  <2> QED
    BY <2>1, <2>2, FS_CardinalityType, FS_AddElement
<1> DEFINE t == Append(s, x)
           n == Len(s)
<1> HIDE DEF t, n
<1>4. DOMAIN s = 1 .. n /\ DOMAIN t = 1 .. n + 1 /\ n \in Nat /\ t[n + 1] = x
  BY <1>1 DEF t, n
<1>5. \A i \in 1 .. n : t[i] = s[i]
  BY <1>1 DEF t, n
<1>6. ASSUME NEW A, A \subseteq 1 .. n
      PROVE  Cardinality(A) \in Nat /\ Cardinality(A \cup {n + 1}) = Cardinality(A) + 1
  BY <1>3, <1>6 DEF n
<1>7. /\ Copies(s, id) \in Nat
      /\ Copies(t, id) = IF x = id THEN Copies(s, id) + 1 ELSE Copies(s, id)
  <2> DEFINE A == {i \in DOMAIN s : s[i] = id}
             B == {i \in DOMAIN t : t[i] = id}
  <2>1. A \subseteq 1 .. n
    BY <1>4
  <2>2. B = IF x = id THEN A \cup {n + 1} ELSE A
    BY <1>4, <1>5
  <2>3. Copies(s, id) = Cardinality(A) /\ Copies(t, id) = Cardinality(B)
    BY DEF Copies
  <2> HIDE DEF A, B
  <2> QED
    BY <1>6, <2>1, <2>2, <2>3
<1>8. /\ RowCopies(s, id) \in Nat
      /\ RowCopies(t, id) = IF x.id = id THEN RowCopies(s, id) + 1 ELSE RowCopies(s, id)
  <2> DEFINE A == {i \in DOMAIN s : s[i].id = id}
             B == {i \in DOMAIN t : t[i].id = id}
  <2>1. A \subseteq 1 .. n
    BY <1>4
  <2>2. B = IF x.id = id THEN A \cup {n + 1} ELSE A
    BY <1>4, <1>5
  <2>3. RowCopies(s, id) = Cardinality(A) /\ RowCopies(t, id) = Cardinality(B)
    BY DEF RowCopies
  <2> HIDE DEF A, B
  <2> QED
    BY <1>6, <2>1, <2>2, <2>3
<1> QED
  BY <1>7, <1>8 DEF t

\* A window is the sequence itself, or full.
LEMMA Trimmed ==
  ASSUME NEW s, IsASeq(s), NEW n \in Int
  PROVE  /\ IsASeq(Trim(s, n))
         /\ \/ Trim(s, n) = s /\ (n <= 0 \/ Len(s) <= n)
            \/ n > 0 /\ Len(Trim(s, n)) = n
<1>1. PICK S : s \in Seq(S)
  BY DEF IsASeq
<1>2. CASE n <= 0 \/ Len(s) <= n
  BY <1>2 DEF Trim
<1>3. CASE n > 0 /\ Len(s) > n
  <2>1. Trim(s, n) = SubSeq(s, Len(s) - n + 1, Len(s))
    BY <1>1, <1>3 DEF Trim
  <2>2. /\ SubSeq(s, Len(s) - n + 1, Len(s)) \in Seq(S)
        /\ Len(SubSeq(s, Len(s) - n + 1, Len(s))) = n
    BY <1>1, <1>3
  <2> QED
    BY <1>3, <2>1, <2>2 DEF IsASeq
<1> QED
  BY <1>1, <1>2, <1>3

---------------------------------------------------------------------------
(* What a step changes.                                                    *)

\* What the invariant of the loop says of the record in hand.
LEMMA LoopFacts ==
  ASSUME Loop!IInv
  PROVE  /\ pc \in [Processes -> {"poll", "handle", "commit", "down"}]
         /\ position \in [Processes -> Nat] /\ committed \in Nat
         /\ handled \in SUBSET Nat /\ failed \in SUBSET Nat
         /\ \A o \in handled : o < Len(log)
         /\ \A o \in 0 .. committed - 1 : o \in handled \cup failed
         /\ \A p \in Processes :
               /\ position[p] <= Len(log)
               /\ pc[p] = "handle" => position[p] > 0
  BY DEF Loop!IInv, Loop!TypeOK, Loop!Places, Loop!WithinLog, Loop!settled,
     Loop!NoSilentLoss, Loop!OwnerNotBehind

LEMMA RecordInHand ==
  ASSUME Loop!IInv, Types, Upstreams, InHandler, NEW p \in Processes, stage[p] # "idle"
  PROVE  /\ position[p] \in 1 .. Len(log) /\ Len(log) \in Nat
         /\ log[position[p]] \in Nat /\ log[position[p]] \in 1 .. Len(page)
         /\ log[position[p]] \in ToSet(log)
         /\ RawEdit(p).id = log[position[p]]
<1>1. position[p] \in 1 .. Len(log) /\ Len(log) \in Nat
  BY LoopFacts DEF InHandler, Types
<1>2. log[position[p]] \in Nat /\ log[position[p]] \in 1 .. Len(page)
  BY <1>1 DEF Upstreams, Types
<1>3. log[position[p]] \in ToSet(log)
  BY <1>1 DEF ToSet, Types
<1> QED
  BY <1>1, <1>2, <1>3 DEF RawEdit, Upstreams

\* The partition only grows.
LEMMA LogKept ==
  ASSUME Types, [Next]_vars
  PROVE  /\ Len(log) \in Nat /\ \A i \in 1 .. Len(log) : log'[i] = log[i]
         /\ ToSet(log) \subseteq ToSet(log')
<1>1. ASSUME NEW x, log' = Append(log, x)
      PROVE  Len(log) \in Nat /\ ToSet(log) \subseteq ToSet(log') /\ \A i \in 1 .. Len(log) : log'[i] = log[i]
  BY <1>1, Appended, ElementsAppended, SMTT(30) DEF IsASeq, Types
<1>2. CASE log' = log
  BY <1>2 DEF Types
<1>3. CASE Upstream
  BY <1>1, <1>3 DEF Upstream, SaveRevision, Replay
<1>4. ASSUME NEW p \in Processes,
             Consume(p) \/ Handle(p) \/ CommitOffset(p) \/ Membership(p) \/ Die(p)
      PROVE  log' = log
  BY <1>4 DEF Consume, Handle, ResolveRevision, ResolveFallsBack, ClassifyAndApply, Save,
     SaveThrows, Publish, PublishThrows, CommitOffset, Membership, Die
<1> QED
  BY <1>2, <1>3, <1>4 DEF Next, vars

\* The steps that are none of the handler's.
LEMMA OutsideHandler ==
  ASSUME NEW p \in Processes,
         Upstream \/ Consume(p) \/ CommitOffset(p) \/ Membership(p) \/ UNCHANGED vars
  PROVE  UNCHANGED <<revision, work, memory, applied, editRows, snapshotRow, updates, handled>>
<1>1. CASE Upstream \/ UNCHANGED vars
  BY <1>1 DEF Upstream, SaveRevision, Replay, Loop!Append, vars, loopVars, handlerVars,
     stateVars, tables
<1>2. CASE Consume(p)
  BY <1>2 DEF Consume, Loop!Consume, stateVars, tables
<1>3. CASE CommitOffset(p) \/ Membership(p)
  <2>1. handled' = handled
    BY <1>3 DEF CommitOffset, Membership, Loop!Commit, Loop!CommitThrows,
       Loop!CommitFenced, Loop!Assign, Loop!Revoke, Loop!Expire, Loop!Restart
  <2> QED
    BY <1>3, <2>1 DEF CommitOffset, Membership, handlerVars, stateVars, tables
<1> QED
  BY <1>1, <1>2, <1>3

\* What the steps of the handler do to what they do not write.
LEMMA HandlerFrames ==
  ASSUME NEW p \in Processes
  PROVE  /\ ResolveRevision(p) \/ ResolveFallsBack(p) \/ ClassifyAndApply(p) \/ Save(p) =>
               UNCHANGED <<log, page, loopVars>>
         /\ SaveThrows(p) \/ Publish(p) \/ PublishThrows(p) \/ Die(p) =>
               UNCHANGED <<log, page>> /\ Leave(p)
         /\ \/ ResolveRevision(p) \/ ResolveFallsBack(p) \/ ClassifyAndApply(p)
            \/ Save(p) \/ SaveThrows(p) \/ Die(p)
            => UNCHANGED <<updates, handled>>
         /\ \/ ResolveRevision(p) \/ ResolveFallsBack(p) \/ ClassifyAndApply(p)
            \/ Publish(p) \/ PublishThrows(p) \/ Die(p)
            => UNCHANGED <<editRows, snapshotRow>>
         /\ \/ ResolveRevision(p) \/ ResolveFallsBack(p)
            \/ Save(p) \/ SaveThrows(p) \/ Publish(p) \/ PublishThrows(p)
            => UNCHANGED <<memory, applied>>
         /\ ResolveRevision(p) \/ ResolveFallsBack(p) \/ Save(p) => work' = work
         /\ SaveThrows(p) \/ PublishThrows(p) => handled' = handled
<1>1. ASSUME ResolveRevision(p) \/ ResolveFallsBack(p)
      PROVE  /\ UNCHANGED <<log, page, loopVars, updates, handled, editRows, snapshotRow>>
             /\ UNCHANGED <<memory, applied, work>>
  BY <1>1 DEF ResolveRevision, ResolveFallsBack, loopVars, stateVars, tables
<1>2. ASSUME ClassifyAndApply(p)
      PROVE  UNCHANGED <<log, page, loopVars, updates, handled, editRows, snapshotRow>>
  BY <1>2 DEF ClassifyAndApply, loopVars, tables
<1>3. ASSUME Save(p)
      PROVE  UNCHANGED <<log, page, loopVars, updates, handled, memory, applied, work>>
  BY <1>3 DEF Save, loopVars, stateVars
<1>4. ASSUME SaveThrows(p)
      PROVE  UNCHANGED <<log, page, updates, handled, memory, applied>> /\ Leave(p)
  BY <1>4 DEF SaveThrows, Loop!HandlerThrows, stateVars
<1>5. ASSUME Publish(p) \/ PublishThrows(p)
      PROVE  UNCHANGED <<log, page, editRows, snapshotRow, memory, applied>> /\ Leave(p)
  BY <1>5 DEF Publish, PublishThrows, stateVars, tables
<1>6. ASSUME Die(p)
      PROVE  UNCHANGED <<log, page, updates, handled, editRows, snapshotRow>> /\ Leave(p)
  BY <1>6 DEF Die, Loop!Stop, Loop!Crash, tables
<1>7. PublishThrows(p) => handled' = handled
  BY DEF PublishThrows, Loop!HandlerThrows
<1> QED
  BY <1>1, <1>2, <1>3, <1>4, <1>5, <1>6, <1>7

LEMMA UpdateFacts ==
  ASSUME Loop!IInv, Types, Upstreams, InHandler, NEW p \in Processes,
         stage[p] \in {"save", "publish"}
  PROVE  work[p].edit.id = log[position[p]] /\ Update(p) = log[position[p]] /\ Update(p) \in Nat
<1>1. work[p].edit.id = log[position[p]]
  BY DEF InHandler
<1>2. log[position[p]] \in Nat
  BY RecordInHand
<1> QED
  BY <1>1, <1>2 DEF Update

---------------------------------------------------------------------------
(* Every step keeps the invariant.                                         *)

LEMMA StepTypes ==
  Loop!IInv /\ Types /\ Upstreams /\ InHandler /\ [Next]_vars => Types'
<1> SUFFICES ASSUME Loop!IInv, Types, Upstreams, InHandler, [Next]_vars PROVE Types'
  OBVIOUS
<1> DEFINE SameUpstream == UNCHANGED <<page, log>>
<1>1. ASSUME NEW u \in Users, NEW s \in Shas, NEW signals \in SignalSets,
             SaveRevision(u, s, signals)
      PROVE  Types'
  <2> DEFINE id == Len(page) + 1
             new == [id |-> id, user |-> u, sha |-> s, time |-> id, signals |-> signals]
  <2>1. page' = Append(page, new) /\ log' = Append(log, id)
    BY <1>1 DEF SaveRevision
  <2>2. id \in Nat
    BY DEF Types
  <2>3. new \in Page
    BY <2>2 DEF Page
  <2> HIDE DEF new, id
  <2>4. page' \in Seq(Page) /\ log' \in Seq(Nat)
    BY <2>1, <2>2, <2>3 DEF Types
  <2> QED
    BY <1>1, <2>4 DEF Types, SaveRevision, handlerVars, stateVars, tables
<1>2. ASSUME NEW id \in 1 .. Len(page), Replay(id) PROVE Types'
  <2>1. log' \in Seq(Nat)
    BY <1>2 DEF Replay, Types
  <2> QED
    BY <1>2, <2>1 DEF Types, Replay, handlerVars, stateVars, tables
<1>3. ASSUME NEW p \in Processes,
             Consume(p) \/ ResolveRevision(p) \/ ResolveFallsBack(p) \/ ClassifyAndApply(p)
      PROVE  Types'
  BY <1>3 DEF Types, Consume, ResolveRevision, ResolveFallsBack, ClassifyAndApply, Goto,
     stateVars, tables
<1>4. ASSUME NEW p \in Processes, Persist(p) PROVE IsASeq(editRows')
  BY <1>4, Appended DEF Persist, Types
<1>5. ASSUME NEW p \in Processes, Save(p) PROVE Types'
  BY <1>4, <1>5 DEF Types, Save, Goto, stateVars
<1>6. ASSUME NEW p \in Processes, Leave(p), UNCHANGED <<page, log>>,
             DOMAIN memory' = Processes, DOMAIN applied' = Processes,
             updates' \in Seq(Nat), IsASeq(editRows')
      PROVE  Types'
  BY <1>6 DEF Types, Leave, Goto
<1>7. ASSUME NEW p \in Processes, SaveThrows(p) PROVE Types'
  <2>1. IsASeq(editRows')
    BY <1>4, <1>7 DEF SaveThrows, tables, Types
  <2> QED
    BY <1>6, <1>7, <2>1, HandlerFrames DEF Types
<1>8. ASSUME NEW p \in Processes, Publish(p) \/ PublishThrows(p) PROVE Types'
  <2>1. Update(p) \in Nat
    BY <1>8, UpdateFacts DEF Publish, PublishThrows
  <2>2. updates' = updates \/ updates' = Append(updates, Update(p))
    BY <1>8 DEF Publish, PublishThrows
  <2>3. updates' \in Seq(Nat)
    <3>1. updates \in Seq(Nat)
      BY DEF Types
    <3>2. Append(updates, Update(p)) \in Seq(Nat)
      BY <2>1, <3>1
    <3> QED
      BY <2>2, <3>1, <3>2
  <2> QED
    BY <1>6, <1>8, <2>3, HandlerFrames DEF Types
<1>9. ASSUME NEW p \in Processes, Die(p) PROVE Types'
  <2>1. DOMAIN memory' = Processes /\ DOMAIN applied' = Processes
    BY <1>9 DEF Die, Types
  <2> QED
    BY <1>6, <1>9, <2>1, HandlerFrames DEF Types
<1>10. ASSUME NEW p \in Processes, CommitOffset(p) \/ Membership(p) PROVE Types'
  BY <1>10 DEF Types, CommitOffset, Membership, handlerVars, stateVars, tables
<1>11. CASE UNCHANGED vars
  BY <1>11 DEF Types, vars, handlerVars, stateVars, tables
<1> QED
  BY <1>1, <1>2, <1>3, <1>5, <1>7, <1>8, <1>9, <1>10, <1>11 DEF Next, Upstream, Handle

LEMMA StepUpstreams == Types /\ Upstreams /\ [Next]_vars => Upstreams'
<1> SUFFICES ASSUME Types, Upstreams, [Next]_vars PROVE Upstreams'
  OBVIOUS
<1>1. ASSUME NEW u \in Users, NEW s \in Shas, NEW signals \in SignalSets,
             SaveRevision(u, s, signals)
      PROVE  Upstreams'
  <2> DEFINE id == Len(page) + 1
             new == [id |-> id, user |-> u, sha |-> s, time |-> id, signals |-> signals]
  <2>1. page' = Append(page, new) /\ log' = Append(log, id) /\ new.id = id
    BY <1>1 DEF SaveRevision
  <2> HIDE DEF new
  <2>2. page \in Seq(Page) /\ log \in Seq(Nat)
    BY DEF Types
  <2>3. \A i \in 1 .. Len(page') : page'[i].id = i
    BY <2>1, <2>2 DEF Upstreams
  <2>4. \A i \in 1 .. Len(log') : log'[i] \in 1 .. Len(page')
    BY <2>1, <2>2 DEF Upstreams
  <2> QED
    BY <2>3, <2>4 DEF Upstreams
<1>2. ASSUME NEW id \in 1 .. Len(page), Replay(id) PROVE Upstreams'
  BY <1>2 DEF Replay, Types, Upstreams
<1>3. ASSUME NEW p \in Processes,
             Consume(p) \/ Handle(p) \/ CommitOffset(p) \/ Membership(p) \/ Die(p)
      PROVE  UNCHANGED <<page, log>>
  BY <1>3, HandlerFrames DEF Consume, Handle, CommitOffset, Membership
<1>4. CASE UNCHANGED <<page, log>>
  BY <1>4 DEF Upstreams
<1> QED
  BY <1>1, <1>2, <1>3, <1>4 DEF Next, Upstream, vars

LEMMA StepInHandler ==
  Loop!IInv /\ Types /\ Upstreams /\ InHandler /\ [Next]_vars => InHandler'
<1> SUFFICES ASSUME Loop!IInv, Types, Upstreams, InHandler, [Next]_vars PROVE InHandler'
  OBVIOUS
<1> /\ pc \in [Processes -> {"poll", "handle", "commit", "down"}]
    /\ position \in [Processes -> Nat]
  BY LoopFacts
<1>1. ASSUME NEW q \in Processes, UNCHANGED <<stage[q], revision[q], work[q]>>,
             pc'[q] = "handle" <=> pc[q] = "handle",
             position'[q] = position[q] \/ pc[q] # "handle"
      PROVE  /\ stage'[q] # "idle" <=> pc'[q] = "handle"
             /\ stage'[q] \in {"apply", "save", "publish"} => revision'[q].id = log'[position'[q]]
             /\ stage'[q] \in {"save", "publish"} => work'[q].edit.id = log'[position'[q]]
  <2>1. CASE stage[q] = "idle"
    BY <1>1, <2>1 DEF InHandler
  <2>2. CASE stage[q] # "idle"
    <3>1. pc[q] = "handle" /\ position[q] \in 1 .. Len(log)
      BY <2>2, RecordInHand DEF InHandler
    <3>2. log'[position'[q]] = log[position[q]]
      BY <1>1, <3>1, LogKept
    <3> QED
      BY <1>1, <3>2 DEF InHandler
  <2> QED
    BY <2>1, <2>2
<1>2. CASE Upstream \/ UNCHANGED vars
  BY <1>1, <1>2 DEF Upstream, SaveRevision, Replay, Loop!Append, handlerVars, loopVars, vars,
     InHandler
<1>3. ASSUME NEW p \in Processes, Consume(p) PROVE InHandler'
  <2>1. ASSUME NEW q \in Processes \ {p}
        PROVE  UNCHANGED <<stage[q], revision[q], work[q], pc[q], position[q]>>
    BY <1>3 DEF Consume, Loop!Consume, Loop!Goto, Goto, Types
  <2>2. stage'[p] = "resolve" /\ pc'[p] = "handle"
    BY <1>3 DEF Consume, Loop!Consume, Loop!Goto, Goto, Types
  <2> QED
    BY <1>1, <2>1, <2>2 DEF InHandler
<1>4. ASSUME NEW p \in Processes, ResolveRevision(p) \/ ResolveFallsBack(p) PROVE InHandler'
  <2>1. stage[p] = "resolve" /\ stage' = [stage EXCEPT ![p] = "apply"] /\ work' = work
    BY <1>4 DEF ResolveRevision, ResolveFallsBack, Goto
  <2>2. UNCHANGED <<log, pc, position>>
    BY <1>4, HandlerFrames DEF loopVars
  <2>3. \A q \in Processes \ {p} : UNCHANGED <<stage[q], revision[q], work[q]>>
    BY <1>4, <2>1 DEF ResolveRevision, ResolveFallsBack, Types
  <2>4. revision'[p].id = RawEdit(p).id
    <3>1. CASE ResolveRevision(p)
      BY <3>1 DEF ResolveRevision, Types
    <3>2. CASE ResolveFallsBack(p)
      <4>1. revision'[p] = [RawEdit(p) EXCEPT !.sha = NoSha]
        BY <3>2 DEF ResolveFallsBack, Types
      <4>2. RawEdit(p) \in Page
        BY <2>1, RecordInHand, SMTT(30) DEF RawEdit, Types
      <4> QED
        BY <4>1, <4>2 DEF Page
    <3> QED
      BY <1>4, <3>1, <3>2
  <2>5. RawEdit(p).id = log[position[p]] /\ pc[p] = "handle" /\ stage'[p] = "apply"
    BY <2>1, RecordInHand DEF InHandler, Types
  <2> QED
    BY <1>1, <2>2, <2>3, <2>4, <2>5 DEF InHandler
<1>5. ASSUME NEW p \in Processes, ClassifyAndApply(p) PROVE InHandler'
  <2>1. /\ stage[p] = "apply" /\ stage' = [stage EXCEPT ![p] = "save"] /\ revision' = revision
        /\ work' = [work EXCEPT ![p] =
                      [edit |-> Classify(revision[p], memory[p]),
                       edges |-> NewEdges(Classify(revision[p], memory[p]), memory[p].revisions)]]
    BY <1>5 DEF ClassifyAndApply, Goto
  <2>2. Classify(revision[p], memory[p]).id = revision[p].id
    BY DEF Classify
  <2>3. work'[p].edit.id = revision[p].id /\ stage'[p] = "save"
    BY <2>1, <2>2 DEF Types
  <2>4. UNCHANGED <<log, pc, position>>
    BY <1>5, HandlerFrames DEF loopVars
  <2>5. \A q \in Processes \ {p} : UNCHANGED <<stage[q], revision[q], work[q]>>
    BY <2>1 DEF Types
  <2> QED
    BY <1>1, <2>1, <2>3, <2>4, <2>5 DEF InHandler
<1>6. ASSUME NEW p \in Processes, Save(p) PROVE InHandler'
  <2>1. /\ stage[p] = "save" /\ stage' = [stage EXCEPT ![p] = "publish"]
        /\ UNCHANGED <<revision, work>>
    BY <1>6 DEF Save, Goto
  <2>2. UNCHANGED <<log, pc, position>>
    BY <1>6, HandlerFrames DEF loopVars
  <2> QED
    BY <2>1, <2>2 DEF InHandler, Types
<1>7. ASSUME NEW p \in Processes, SaveThrows(p) \/ Publish(p) \/ PublishThrows(p) \/ Die(p)
      PROVE  InHandler'
  <2>1. Leave(p)
    BY <1>7, HandlerFrames
  <2>2. /\ pc'[p] # "handle"
        /\ \A q \in Processes \ {p} : UNCHANGED <<pc[q], position[q]>>
    BY <1>7 DEF SaveThrows, Publish, PublishThrows, Die, Loop!HandlerReturns,
       Loop!HandlerThrows, Loop!Stop, Loop!Crash, Loop!Goto
  <2>3. \A q \in Processes \ {p} : UNCHANGED <<stage[q], revision[q], work[q]>>
    BY <2>1 DEF Leave, Goto, Types
  <2>4. stage'[p] = "idle"
    BY <2>1 DEF Leave, Goto, Types
  <2> QED
    BY <1>1, <2>2, <2>3, <2>4 DEF InHandler
<1>8. ASSUME NEW p \in Processes, CommitOffset(p) \/ Membership(p) PROVE InHandler'
  <2>1. UNCHANGED <<stage, revision, work>>
    BY <1>8 DEF CommitOffset, Membership, handlerVars
  <2>2. \A q \in Processes :
           /\ pc'[q] = "handle" <=> pc[q] = "handle"
           /\ position'[q] = position[q] \/ pc[q] # "handle"
    BY <1>8 DEF CommitOffset, Membership, Loop!Commit, Loop!CommitThrows,
       Loop!CommitFenced, Loop!Assign, Loop!Revoke, Loop!Expire, Loop!Restart, Loop!Goto
  <2> QED
    BY <1>1, <2>1, <2>2 DEF InHandler
<1> QED
  BY <1>2, <1>3, <1>4, <1>5, <1>6, <1>7, <1>8 DEF Next, Handle

\* What the tables and the topic of updates take in one step.
LEMMA Additions ==
  ASSUME Loop!IInv, Types, Upstreams, InHandler, [Next]_vars
  PROVE  /\ \/ editRows' = editRows
            \/ \E p \in Processes :
                  /\ Save(p) \/ SaveThrows(p)
                  /\ stage[p] = "save" /\ editRows' = Append(editRows, work[p].edit)
         /\ \/ updates' = updates
            \/ \E p \in Processes :
                  /\ Publish(p) \/ PublishThrows(p)
                  /\ stage[p] = "publish" /\ updates' = Append(updates, Update(p))
         /\ Ids(editRows) \subseteq Ids(editRows') /\ ToSet(updates) \subseteq ToSet(updates')
<1>1. ASSUME NEW p \in Processes, Save(p) \/ SaveThrows(p)
      PROVE  /\ updates' = updates
             /\ \/ editRows' = editRows
                \/ stage[p] = "save" /\ editRows' = Append(editRows, work[p].edit)
  BY <1>1, HandlerFrames DEF Save, SaveThrows, Persist, tables
<1>2. ASSUME NEW p \in Processes, Publish(p) \/ PublishThrows(p)
      PROVE  /\ editRows' = editRows
             /\ \/ updates' = updates
                \/ stage[p] = "publish" /\ updates' = Append(updates, Update(p))
  BY <1>2, HandlerFrames DEF Publish, PublishThrows
<1>3. ASSUME NEW p \in Processes,
             \/ Upstream \/ Consume(p) \/ CommitOffset(p) \/ Membership(p)
             \/ ResolveRevision(p) \/ ResolveFallsBack(p) \/ ClassifyAndApply(p) \/ Die(p)
      PROVE  UNCHANGED <<editRows, updates>>
  BY <1>3, OutsideHandler, HandlerFrames
<1>4. CASE Upstream \/ UNCHANGED vars
  BY <1>4 DEF Upstream, SaveRevision, Replay, vars, tables
<1>5. /\ \/ editRows' = editRows
         \/ \E p \in Processes :
               /\ Save(p) \/ SaveThrows(p)
               /\ stage[p] = "save" /\ editRows' = Append(editRows, work[p].edit)
      /\ \/ updates' = updates
         \/ \E p \in Processes :
               /\ Publish(p) \/ PublishThrows(p)
               /\ stage[p] = "publish" /\ updates' = Append(updates, Update(p))
  BY <1>1, <1>2, <1>3, <1>4 DEF Next, Handle
<1>6. IsASeq(editRows) /\ IsASeq(updates)
  BY DEF Types, IsASeq
<1>7. ASSUME NEW row, editRows' = Append(editRows, row)
      PROVE  Ids(editRows) \subseteq Ids(editRows')
  BY <1>6, <1>7, ElementsAppended
<1>8. ASSUME NEW id, updates' = Append(updates, id)
      PROVE  ToSet(updates) \subseteq ToSet(updates')
  BY <1>6, <1>8, ElementsAppended
<1>9. Ids(editRows) \subseteq Ids(editRows')
  BY <1>5, <1>7
<1>10. ToSet(updates) \subseteq ToSet(updates')
  BY <1>5, <1>8
<1> QED
  BY <1>5, <1>9, <1>10

LEMMA StepAsked ==
  Loop!IInv /\ Types /\ Upstreams /\ InHandler /\ Asked /\ [Next]_vars => Asked'
<1> SUFFICES ASSUME Loop!IInv, Types, Upstreams, InHandler, Asked, [Next]_vars PROVE Asked'
  OBVIOUS
<1>1. IsASeq(editRows) /\ IsASeq(updates)
  BY DEF Types, IsASeq
<1>2. ToSet(log) \subseteq ToSet(log')
  BY LogKept
<1>3. Ids(editRows') \subseteq ToSet(log)
  <2>1. ASSUME NEW p \in Processes, stage[p] = "save", editRows' = Append(editRows, work[p].edit)
        PROVE  Ids(editRows') \subseteq ToSet(log)
    <3>1. Ids(editRows') = Ids(editRows) \cup {work[p].edit.id}
      BY <1>1, <2>1, ElementsAppended
    <3>2. work[p].edit.id \in ToSet(log)
      BY <2>1, UpdateFacts, RecordInHand
    <3> QED
      BY <3>1, <3>2 DEF Asked
  <2> QED
    BY <2>1, Additions DEF Asked
<1>4. ToSet(updates') \subseteq ToSet(log)
  <2>1. ASSUME NEW p \in Processes, stage[p] = "publish", updates' = Append(updates, Update(p))
        PROVE  ToSet(updates') \subseteq ToSet(log)
    <3>1. ToSet(updates') = ToSet(updates) \cup {Update(p)}
      BY <1>1, <2>1, ElementsAppended
    <3>2. Update(p) \in ToSet(log)
      BY <2>1, UpdateFacts, RecordInHand
    <3> QED
      BY <3>1, <3>2 DEF Asked
  <2> QED
    BY <2>1, Additions DEF Asked
<1> QED
  BY <1>2, <1>3, <1>4 DEF Asked

\* How a process gets to publish.
LEMMA StagePublish ==
  ASSUME Types, [Next]_vars, NEW q \in Processes
  PROVE  stage'[q] = "publish" =>
            \/ stage[q] = "publish" /\ work'[q] = work[q]
            \/ Save(q) /\ work'[q] = work[q] /\ editRows' = Append(editRows, work[q].edit)
<1>1. ASSUME NEW p \in Processes, p # q, Consume(p) \/ Handle(p) \/ Die(p)
      PROVE  UNCHANGED <<stage[q], work[q]>>
  BY <1>1 DEF Consume, Handle, ResolveRevision, ResolveFallsBack, ClassifyAndApply, Save,
     SaveThrows, Publish, PublishThrows, Die, Leave, Goto, Types
<1>2. Consume(q) \/ ResolveRevision(q) \/ ResolveFallsBack(q) \/ ClassifyAndApply(q)
      => stage'[q] # "publish"
  BY DEF Consume, ResolveRevision, ResolveFallsBack, ClassifyAndApply, Goto, Types
<1>3. SaveThrows(q) \/ Publish(q) \/ PublishThrows(q) \/ Die(q) => stage'[q] # "publish"
  BY DEF SaveThrows, Publish, PublishThrows, Die, Leave, Goto, Types
<1>4. Save(q) => work'[q] = work[q] /\ editRows' = Append(editRows, work[q].edit)
  BY DEF Save, Persist
<1>5. ASSUME NEW p \in Processes, CommitOffset(p) \/ Membership(p)
      PROVE  UNCHANGED <<stage, work>>
  BY <1>5 DEF CommitOffset, Membership, handlerVars
<1>6. Upstream \/ UNCHANGED vars => UNCHANGED <<stage, work>>
  BY DEF Upstream, SaveRevision, Replay, handlerVars, vars
<1> QED
  BY <1>1, <1>2, <1>3, <1>4, <1>5, <1>6 DEF Next, Handle

\* Who calls an edit handled.
LEMMA HandledSteps ==
  ASSUME [Next]_vars
  PROVE  \/ handled' = handled
         \/ \E p \in Processes :
               /\ stage[p] = "publish" /\ updates' = Append(updates, Update(p))
               /\ handled' = handled \cup {position[p] - 1}
<1>1. ASSUME NEW p \in Processes, Publish(p)
      PROVE  /\ stage[p] = "publish" /\ updates' = Append(updates, Update(p))
             /\ handled' = handled \cup {position[p] - 1}
  BY <1>1 DEF Publish, Loop!HandlerReturns, Loop!InHand
<1>2. ASSUME NEW p \in Processes,
             \/ Upstream \/ Consume(p) \/ CommitOffset(p) \/ Membership(p)
             \/ ResolveRevision(p) \/ ResolveFallsBack(p) \/ ClassifyAndApply(p)
             \/ Save(p) \/ SaveThrows(p) \/ PublishThrows(p) \/ Die(p)
      PROVE  handled' = handled
  BY <1>2, OutsideHandler, HandlerFrames
<1>3. CASE Upstream \/ UNCHANGED vars
  BY <1>3 DEF Upstream, SaveRevision, Replay, Loop!Append, vars, loopVars
<1> QED
  BY <1>1, <1>2, <1>3 DEF Next, Handle

LEMMA StepStoredFirst ==
  Loop!IInv /\ Types /\ Upstreams /\ InHandler /\ StoredFirst /\ [Next]_vars => StoredFirst'
<1> SUFFICES ASSUME Loop!IInv, Types, Upstreams, InHandler, StoredFirst, [Next]_vars
             PROVE  StoredFirst'
  OBVIOUS
<1>1. IsASeq(editRows) /\ IsASeq(updates)
  BY DEF Types, IsASeq
<1>2. Ids(editRows) \subseteq Ids(editRows') /\ ToSet(updates) \subseteq ToSet(updates')
  BY Additions
<1>3. ASSUME NEW q \in Processes, stage'[q] = "publish"
      PROVE  work'[q].edit.id \in Ids(editRows')
  <2>1. CASE stage[q] = "publish" /\ work'[q] = work[q]
    BY <1>2, <2>1 DEF StoredFirst
  <2>2. CASE work'[q] = work[q] /\ editRows' = Append(editRows, work[q].edit)
    BY <1>1, <2>2, ElementsAppended
  <2> QED
    BY <1>3, <2>1, <2>2, StagePublish
<1>4. ASSUME NEW o \in handled
      PROVE  log'[o + 1] \in Ids(editRows') \cap ToSet(updates')
  <2>1. o + 1 \in 1 .. Len(log)
    BY LoopFacts, LogKept
  <2> QED
    BY <1>2, <2>1, LogKept DEF StoredFirst
<1>5. ASSUME NEW p \in Processes, stage[p] = "publish", updates' = Append(updates, Update(p))
      PROVE  log'[position[p]] \in Ids(editRows') \cap ToSet(updates')
  <2>1. position[p] \in 1 .. Len(log) /\ Update(p) = log[position[p]]
    BY <1>5, RecordInHand, UpdateFacts
  <2>2. Update(p) \in Ids(editRows)
    BY <1>5 DEF StoredFirst, Update
  <2>3. Update(p) \in ToSet(updates')
    BY <1>1, <1>5, ElementsAppended
  <2> QED
    BY <1>2, <2>1, <2>2, <2>3, LogKept
<1>6. ASSUME NEW p \in Processes, stage[p] = "publish", NEW o, o = position[p] - 1
      PROVE  o + 1 = position[p]
  BY <1>6, RecordInHand
<1>7. \A o \in handled' : log'[o + 1] \in Ids(editRows') \cap ToSet(updates')
  BY <1>4, <1>5, <1>6, HandledSteps
<1> QED
  BY <1>3, <1>7 DEF StoredFirst

\* Counting the processes that have stored an edit and not published it yet.
LEMMA PublishingCount ==
  ASSUME NEW id
  PROVE  IsFiniteSet(Publishing(id)) /\ Cardinality(Publishing(id)) \in Nat
<1>1. Publishing(id) \in SUBSET Processes
  BY DEF Publishing
<1> QED
  BY <1>1, ProcessesAssumption, FS_Subset, FS_CardinalityType

LEMMA StepRowForEach ==
  Loop!IInv /\ Types /\ Upstreams /\ InHandler /\ RowForEach /\ [Next]_vars => RowForEach'
<1> SUFFICES ASSUME Loop!IInv, Types, Upstreams, InHandler, RowForEach, [Next]_vars,
                    NEW id \in Nat,
                    NEW before, before = Publishing(id), NEW after, after = Publishing(id)'
             PROVE  Copies(updates', id) + Cardinality(after) <= RowCopies(editRows', id)
  BY DEF RowForEach, Copies, RowCopies
<1> DEFINE c == Copies(updates, id)
           r == RowCopies(editRows, id)
<1>1. /\ IsFiniteSet(before) /\ Cardinality(before) \in Nat
      /\ c \in Nat /\ r \in Nat /\ c + Cardinality(before) <= r
  <2>1. IsASeq(editRows) /\ IsASeq(updates)
    BY DEF Types, IsASeq
  <2>2. c \in Nat /\ r \in Nat
    BY <2>1, CopiesAppended
  <2> QED
    BY <2>2, PublishingCount DEF RowForEach
<1>2. /\ \A x : updates' = Append(updates, x) =>
            Copies(updates', id) = IF x = id THEN c + 1 ELSE c
      /\ \A x : editRows' = Append(editRows, x) =>
            RowCopies(editRows', id) = IF x.id = id THEN r + 1 ELSE r
  <2>1. IsASeq(editRows) /\ IsASeq(updates)
    BY DEF Types, IsASeq
  <2>2. ASSUME NEW x, updates' = Append(updates, x)
        PROVE  Copies(updates', id) = IF x = id THEN c + 1 ELSE c
    BY <2>1, <2>2, CopiesAppended
  <2>3. ASSUME NEW x, editRows' = Append(editRows, x)
        PROVE  RowCopies(editRows', id) = IF x.id = id THEN r + 1 ELSE r
    BY <2>1, <2>3, CopiesAppended
  <2> QED
    BY <2>2, <2>3
<1>3. ASSUME NEW q \in after
      PROVE  \/ q \in before
             \/ Save(q) /\ work[q].edit.id = id /\ editRows' = Append(editRows, work[q].edit)
  BY <1>3, StagePublish DEF Publishing
<1>4. updates' = updates => Copies(updates', id) = c
  OBVIOUS
<1>5. editRows' = editRows => RowCopies(editRows', id) = r
  OBVIOUS
<1> HIDE DEF c, r
<1>6. ASSUME NEW p \in Processes, Save(p)
      PROVE  Copies(updates', id) + Cardinality(after) <= RowCopies(editRows', id)
  <2>1. updates' = updates /\ stage[p] = "save" /\ editRows' = Append(editRows, work[p].edit)
    BY <1>6, HandlerFrames DEF Save, Persist
  <2>2. ASSUME NEW q \in Processes, q # p PROVE stage'[q] = stage[q]
    BY <1>6, <2>2 DEF Save, Goto, Types
  <2>3. after \subseteq before \cup {p}
    <3>1. ASSUME NEW q \in after, q # p PROVE q \in before
      <4>1. q \in Processes
        BY DEF Publishing
      <4>2. stage'[q] = "publish"
        BY DEF Publishing
      <4>3. work' = work
        BY <1>6, HandlerFrames
      <4> QED
        BY <3>1, <4>1, <4>2, <4>3, <2>2 DEF Publishing
    <3> QED
      BY <3>1
  <2>4. work[p].edit.id # id => after \subseteq before
    <3>1. work' = work
      BY <1>6, HandlerFrames
    <3> QED
      BY <2>3, <3>1 DEF Publishing
  <2>5. CASE work[p].edit.id = id
    <3>1. RowCopies(editRows', id) = r + 1
      BY <1>2, <2>1, <2>5
    <3>2. /\ IsFiniteSet(before \cup {p})
          /\ Cardinality(before \cup {p}) = Cardinality(before)
                \/ Cardinality(before \cup {p}) = Cardinality(before) + 1
      BY <1>1, FS_AddElement
    <3>3. /\ Cardinality(after) <= Cardinality(before \cup {p})
          /\ IsFiniteSet(after)
      BY <2>3, <3>2, FS_Subset
    <3>4. Cardinality(after) \in Nat
      BY <3>3, FS_CardinalityType
    <3> QED
      BY <1>1, <1>4, <2>1, <3>1, <3>2, <3>3, <3>4
  <2>6. CASE work[p].edit.id # id
    <3>1. RowCopies(editRows', id) = r
      BY <1>2, <2>1, <2>6
    <3>2. Cardinality(after) <= Cardinality(before) /\ IsFiniteSet(after)
      BY <1>1, <2>4, <2>6, FS_Subset
    <3>3. Cardinality(after) \in Nat
      BY <3>2, FS_CardinalityType
    <3> QED
      BY <1>1, <1>4, <2>1, <3>1, <3>2, <3>3
  <2> QED
    BY <2>5, <2>6
<1>7. ASSUME \A q \in Processes : ~Save(q)
      PROVE  after \subseteq before /\ r <= RowCopies(editRows', id)
  <2>1. after \subseteq before
    <3>1. after \subseteq Processes
      BY DEF Publishing
    <3>2. ASSUME NEW q \in after PROVE q \in before
      <4>1. q \in before \/ Save(q)
        BY <1>3
      <4>2. ~Save(q)
        BY <1>7, <3>1, Zenon
      <4> QED
        BY <4>1, <4>2
    <3> QED
      BY <3>2
  <2>2. RowCopies(editRows', id) \in {r, r + 1}
    BY <1>2, <1>5, Additions
  <2> QED
    BY <1>1, <2>1, <2>2
<1>8. RowCopies(editRows', id) \in {r, r + 1}
  BY <1>2, <1>5, Additions
<1>9. ASSUME \A q \in Processes : ~Save(q), updates' = updates
      PROVE  Copies(updates', id) + Cardinality(after) <= RowCopies(editRows', id)
  <2>1. Cardinality(after) <= Cardinality(before) /\ IsFiniteSet(after)
    BY <1>1, <1>7, <1>9, FS_Subset
  <2>2. Cardinality(after) \in Nat
    BY <2>1, FS_CardinalityType
  <2> QED
    BY <1>1, <1>4, <1>7, <1>8, <1>9, <2>1, <2>2
<1>10. ASSUME NEW p \in Processes, stage[p] = "publish", Publish(p) \/ PublishThrows(p),
              updates' = Append(updates, Update(p))
       PROVE  Copies(updates', id) + Cardinality(after) <= RowCopies(editRows', id)
  <2>1. editRows' = editRows
    BY <1>10, HandlerFrames
  <2>2. RowCopies(editRows', id) = r
    BY <1>5, <2>1
  <2>3. p \notin after
    <3>1. stage'[p] = "idle"
      BY <1>10, HandlerFrames DEF Leave, Goto, Types
    <3> QED
      BY <3>1 DEF Publishing
  <2>4. after \subseteq before \ {p}
    <3>1. ASSUME NEW q \in after, ~(q \in before) PROVE FALSE
      <4>1. q \in Processes /\ q # p
        BY <2>3 DEF Publishing
      <4>2. Save(q)
        BY <1>3, <3>1
      <4>3. updates' = updates
        BY <4>1, <4>2, HandlerFrames
      <4>4. Len(updates') = Len(updates) + 1 /\ Len(updates) \in Nat
        <5>1. updates \in Seq(Nat) /\ Update(p) \in Nat
          BY <1>10, UpdateFacts DEF Types
        <5> QED
          BY <1>10, <5>1
      <4> QED
        BY <4>3, <4>4
    <3> QED
      BY <2>3, <3>1
  <2>5. IsFiniteSet(before \ {p}) /\ IsFiniteSet(after)
        /\ Cardinality(after) <= Cardinality(before \ {p})
    BY <1>1, <2>4, FS_RemoveElement, FS_Subset
  <2>6. Cardinality(after) \in Nat
    BY <2>5, FS_CardinalityType
  <2>7. CASE Update(p) = id
    <3>1. p \in before
      BY <1>10, <2>7 DEF Publishing, Update
    <3>2. Cardinality(before \ {p}) = Cardinality(before) - 1
      BY <1>1, <3>1, FS_RemoveElement
    <3>3. Copies(updates', id) = c + 1
      BY <1>2, <1>10, <2>7
    <3> QED
      BY <1>1, <2>2, <2>5, <2>6, <3>2, <3>3
  <2>8. CASE Update(p) # id
    <3>1. Cardinality(before \ {p}) \in {Cardinality(before) - 1, Cardinality(before)}
      BY <1>1, FS_RemoveElement
    <3>2. Copies(updates', id) = c
      BY <1>2, <1>10, <2>8
    <3> QED
      BY <1>1, <2>2, <2>5, <2>6, <3>1, <3>2
  <2> QED
    BY <2>7, <2>8
<1> QED
  BY <1>6, <1>9, <1>10, Additions

LEMMA StepRemembers ==
  Loop!IInv /\ Types /\ Upstreams /\ InHandler /\ Remembers /\ [Next]_vars => Remembers'
<1> SUFFICES ASSUME Loop!IInv, Types, Upstreams, InHandler, Remembers, [Next]_vars PROVE Remembers'
  OBVIOUS
<1>1. ASSUME NEW q \in Processes, UNCHANGED <<memory[q], applied[q]>>
      PROVE  /\ IsASeq(memory'[q].edits) /\ IsASeq(applied'[q])
             /\ \/ ToSet(applied'[q]) \subseteq Ids(memory'[q].edits)
                \/ RecentEditWindow > 0 /\ Len(memory'[q].edits) = RecentEditWindow
  BY <1>1 DEF Remembers
<1>2. CASE UNCHANGED <<memory, applied>>
  BY <1>1, <1>2 DEF Remembers
<1>3. ASSUME NEW p \in Processes, Die(p) PROVE Remembers'
  <2>1. /\ memory' = [memory EXCEPT ![p] = EmptyMemory]
        /\ applied' = [applied EXCEPT ![p] = <<>>]
    BY <1>3 DEF Die
  <2>2. \A q \in Processes \ {p} : UNCHANGED <<memory[q], applied[q]>>
    BY <2>1 DEF Types
  <2>3. applied'[p] = <<>> /\ memory'[p].edits = <<>>
    BY <2>1 DEF Types, EmptyMemory
  <2>4. IsASeq(<<>>) /\ ToSet(<<>>) = {}
    BY DEF IsASeq, ToSet
  <2> QED
    BY <1>1, <2>2, <2>3, <2>4 DEF Remembers
<1>4. ASSUME NEW p \in Processes, ClassifyAndApply(p) PROVE Remembers'
  <2> DEFINE edit == Classify(revision[p], memory[p])
             edits == memory[p].edits
             all == Append(edits, edit)
             new == Trim(all, RecentEditWindow)
  <2>1. /\ memory' = [memory EXCEPT ![p] = Apply(memory[p], revision[p], edit)]
        /\ applied' = [applied EXCEPT ![p] = Append(applied[p], revision[p].id)]
    BY <1>4 DEF ClassifyAndApply
  <2>2. \A q \in Processes \ {p} : UNCHANGED <<memory[q], applied[q]>>
    BY <2>1 DEF Types
  <2>3. applied'[p] = Append(applied[p], revision[p].id) /\ memory'[p].edits = new
    BY <2>1 DEF Types, Apply
  <2>4. edit.id = revision[p].id
    BY DEF Classify
  <2> HIDE DEF edit, edits, all, new
  <2>5. IsASeq(edits) /\ IsASeq(applied[p])
    BY DEF Remembers, edits
  <2>6. IsASeq(all) /\ Len(edits) \in Nat /\ Len(all) = Len(edits) + 1 /\ Ids(all) = Ids(edits) \cup {edit.id}
    <3>1. IsASeq(all) /\ Len(edits) \in Nat /\ DOMAIN all = 1 .. Len(edits) + 1
      BY <2>5, Appended DEF all
    <3>2. Ids(all) = Ids(edits) \cup {edit.id}
      BY <2>5, ElementsAppended DEF all
    <3>3. Len(all) = Len(edits) + 1
      BY <2>5 DEF IsASeq, all
    <3> QED
      BY <3>1, <3>2, <3>3
  <2>7. IsASeq(applied'[p]) /\ ToSet(applied'[p]) = ToSet(applied[p]) \cup {revision[p].id}
    <3> DEFINE ids == applied[p]
               id == revision[p].id
    <3>1. IsASeq(ids) /\ applied'[p] = Append(ids, id)
      BY <2>3, <2>5
    <3> HIDE DEF ids, id
    <3>2. IsASeq(Append(ids, id)) /\ ToSet(Append(ids, id)) = ToSet(ids) \cup {id}
      BY <3>1, Appended, ElementsAppended
    <3> QED
      BY <3>1, <3>2 DEF ids, id
  <2>8. /\ IsASeq(new)
        /\ \/ new = all /\ (RecentEditWindow <= 0 \/ Len(all) <= RecentEditWindow)
           \/ RecentEditWindow > 0 /\ Len(new) = RecentEditWindow
    BY <2>6, Trimmed, WindowAssumption DEF new
  <2>9. CASE new = all /\ ToSet(applied[p]) \subseteq Ids(edits)
    BY <1>1, <2>2, <2>3, <2>4, <2>6, <2>7, <2>8, <2>9 DEF Remembers
  <2>10. CASE RecentEditWindow > 0 /\ Len(new) = RecentEditWindow
    BY <1>1, <2>2, <2>3, <2>7, <2>8, <2>10 DEF Remembers
  \* A window that was full has been trimmed.
  <2>11. ~ /\ RecentEditWindow > 0 /\ Len(edits) = RecentEditWindow
           /\ RecentEditWindow <= 0 \/ Len(all) <= RecentEditWindow
    BY <2>6, WindowAssumption
  <2>12. \/ ToSet(applied[p]) \subseteq Ids(edits)
         \/ RecentEditWindow > 0 /\ Len(edits) = RecentEditWindow
    BY DEF Remembers, edits
  <2> QED
    BY <2>8, <2>9, <2>10, <2>11, <2>12
<1>5. ASSUME NEW p \in Processes,
             \/ Upstream \/ Consume(p) \/ CommitOffset(p) \/ Membership(p)
             \/ ResolveRevision(p) \/ ResolveFallsBack(p)
             \/ Save(p) \/ SaveThrows(p) \/ Publish(p) \/ PublishThrows(p)
      PROVE  UNCHANGED <<memory, applied>>
  BY <1>5, OutsideHandler, HandlerFrames
<1>6. Upstream \/ UNCHANGED vars => UNCHANGED <<memory, applied>>
  BY DEF Upstream, SaveRevision, Replay, vars, stateVars
<1> QED
  BY <1>2, <1>3, <1>4, <1>5, <1>6 DEF Next, Handle

---------------------------------------------------------------------------
(* The theorems.                                                           *)

LEMMA InitIInv == Init => IInv
<1> SUFFICES ASSUME Init PROVE IInv
  OBVIOUS
<1>1. /\ <<>> \in Seq(Page) /\ <<>> \in Seq(Nat) /\ IsASeq(<<>>)
      /\ Len(<<>>) = 0 /\ Ids(<<>>) = {} /\ ToSet(<<>>) = {}
  BY DEF IsASeq, Ids, ToSet
<1>2. Types /\ Upstreams
  BY <1>1 DEF Init, Types, Upstreams
<1>3. InHandler
  BY DEF Init, Loop!Init, InHandler
<1>4. Asked
  BY <1>1 DEF Init, Asked
<1>5. StoredFirst
  BY DEF Init, Loop!Init, StoredFirst
<1>6. RowForEach
  <2>1. ASSUME NEW id
        PROVE Copies(<<>>, id) = 0 /\ RowCopies(<<>>, id) = 0 /\ Cardinality(Publishing(id)) = 0
    <3>1. {i \in DOMAIN <<>> : <<>>[i] = id} = {} /\ {i \in DOMAIN <<>> : <<>>[i].id = id} = {}
      OBVIOUS
    <3>2. Publishing(id) = {}
      BY DEF Init, Publishing
    <3> QED
      BY <3>1, <3>2, FS_EmptySet DEF Copies, RowCopies
  <2> QED
    BY <2>1 DEF Init, RowForEach
<1>7. Remembers
  BY <1>1 DEF Init, EmptyMemory, Remembers
<1> QED
  BY <1>2, <1>3, <1>4, <1>5, <1>6, <1>7 DEF IInv

\* Everything the worker maintains, whatever its windows and however many processes
\* share the partition.
THEOREM Inductive == Spec => [](Loop!IInv /\ IInv)
<1>1. Loop!IInv /\ IInv /\ [Next]_vars => IInv'
  BY StepTypes, StepUpstreams, StepInHandler, StepAsked, StepStoredFirst, StepRowForEach,
     StepRemembers DEF IInv
<1>2. Spec => []Loop!IInv
  BY DetectorImplementsLoop, LoopInvariant, PTL
<1> QED
  BY <1>1, <1>2, InitIInv, PTL DEF Spec

\* The handler works on the record that the loop has in hand, from the moment it is
\* consumed to the moment it is settled, and stores and publishes no other.
THEOREM TypeCorrect == Spec => []TypeOK
<1>1. ASSUME Loop!IInv, IInv PROVE TypeOK
  <2> /\ Types /\ Upstreams /\ InHandler /\ Asked
    BY <1>1 DEF IInv
  <2>1. Loop!TypeOK
    BY <1>1 DEF Loop!IInv
  <2>2. ASSUME NEW p \in Processes
        PROVE  /\ stage[p] # "idle" <=> pc[p] = "handle"
               /\ stage[p] \in {"apply", "save", "publish"} => revision[p].id = RawEdit(p).id
               /\ stage[p] \in {"save", "publish"} => work[p].edit.id = RawEdit(p).id
    BY <1>1, RecordInHand DEF InHandler
  <2> QED
    BY <2>1, <2>2 DEF TypeOK, Types, Asked
<1> QED
  BY <1>1, Inductive, PTL

\* An offset the group has passed was stored and published, or its handler threw: what
\* is handled was both, and what is committed is handled or failed.
THEOREM NoEditLost == Spec => []CommittedIsPublished
<1>1. ASSUME Loop!IInv, IInv PROVE CommittedIsPublished
  BY <1>1, LoopFacts DEF IInv, StoredFirst, CommittedIsPublished
<1> QED
  BY <1>1, Inductive, PTL

\* No update is published more often than its edit is stored: every publication, made
\* or to be made, has a row of its own.
THEOREM PersistedFirst == Spec => []PublishedOnlyPersisted
<1>1. ASSUME Loop!IInv, IInv PROVE PublishedOnlyPersisted
  <2> /\ Types /\ RowForEach
    BY <1>1 DEF IInv
  <2> SUFFICES ASSUME NEW id \in ToSet(updates)
               PROVE  Copies(updates, id) <=
                         Copies([i \in DOMAIN editRows |-> editRows[i].id], id)
    BY DEF PublishedOnlyPersisted
  <2> DEFINE ids == [i \in DOMAIN editRows |-> editRows[i].id]
  <2>1. id \in Nat
    BY DEF Types, ToSet
  <2>2. Copies(updates, id) \in Nat /\ RowCopies(editRows, id) \in Nat
    <3>1. IsASeq(updates) /\ IsASeq(editRows)
      BY DEF Types, IsASeq
    <3> QED
      BY <3>1, CopiesAppended
  <2>3. Copies(updates, id) <= RowCopies(editRows, id)
    BY <2>1, <2>2, PublishingCount DEF RowForEach
  <2>4. {i \in DOMAIN ids : ids[i] = id} = {i \in DOMAIN editRows : editRows[i].id = id}
    OBVIOUS
  <2>5. Copies(ids, id) = RowCopies(editRows, id)
    BY <2>4 DEF Copies, RowCopies
  <2> QED
    BY <2>3, <2>5
<1> QED
  BY <1>1, Inductive, PTL

\* A stored snapshot drops an edit only from a full window, or when the process that
\* stores it never applied that edit: a process remembers what it has applied.
THEOREM SnapshotsRemember == Spec => SnapshotForgetsOnlyUnknown
<1> DEFINE Forgets == \A p \in Processes :
                         stage[p] = "save" /\ stage'[p] # "save" /\ snapshotRow' # snapshotRow =>
                         \A id \in Ids(snapshotRow.edits) \ Ids(snapshotRow'.edits) :
                            \/ id \notin ToSet(applied[p])
                            \/ Len(memory[p].edits) = RecentEditWindow
<1>1. ASSUME Loop!IInv, IInv, [Next]_vars PROVE Forgets
  <2> /\ Types /\ Remembers
    BY <1>1 DEF IInv
  <2> SUFFICES ASSUME NEW p \in Processes,
                      stage[p] = "save", stage'[p] # "save", snapshotRow' # snapshotRow,
                      NEW id \in Ids(snapshotRow.edits) \ Ids(snapshotRow'.edits)
               PROVE  \/ id \notin ToSet(applied[p])
                      \/ Len(memory[p].edits) = RecentEditWindow
    OBVIOUS
  <2>1. ASSUME NEW q \in Processes, q # p, Consume(q) \/ Handle(q) \/ Die(q)
        PROVE  stage'[p] = stage[p]
    BY <2>1 DEF Consume, Handle, ResolveRevision, ResolveFallsBack, ClassifyAndApply, Save,
       SaveThrows, Publish, PublishThrows, Die, Leave, Goto, Types
  <2>2. ASSUME NEW q \in Processes,
               Upstream \/ Consume(q) \/ CommitOffset(q) \/ Membership(q) \/ Die(q)
        PROVE  snapshotRow' = snapshotRow
    BY <2>2, OutsideHandler, HandlerFrames
  <2>3. ~(UNCHANGED vars \/ Upstream)
    BY DEF vars, tables, Upstream, SaveRevision, Replay
  <2>4. Handle(p)
    BY <1>1, <2>1, <2>2, <2>3 DEF Next
  <2>5. snapshotRow' = Snapshot(memory[p])
    <3>1. ~(ResolveRevision(p) \/ ResolveFallsBack(p) \/ ClassifyAndApply(p) \/ Publish(p)
            \/ PublishThrows(p))
      BY HandlerFrames
    <3> QED
      BY <2>4, <3>1 DEF Handle, Save, SaveThrows, Persist, tables
  <2>6. snapshotRow'.edits = memory[p].edits
    BY <2>5 DEF Snapshot
  <2> QED
    BY <2>6 DEF Remembers
<1>2. Spec => [][Forgets]_vars
  BY <1>1, Inductive, PTL DEF Spec
<1> QED
  BY <1>2, PTL DEF SnapshotForgetsOnlyUnknown

---------------------------------------------------------------------------
(* ArticleConflictScoreCalculator.cs, for every count the runtime state    *)
(* can produce with its windows as shipped.                                *)

Counts == [edits : 0 .. ShippedEditWindow, reverts : Nat, cleanups : Nat, pairs : Nat,
           participants : Nat, risk : BOOLEAN]

\* The reverts are among the edits, and the cleanups among the reverts.
Consistent(c) == c.cleanups <= c.reverts /\ c.reverts <= c.edits

Denominator(c) == IF c.reverts = 0 THEN 1 ELSE c.reverts

\* The criteria are worth 85 points, and 75 without the three-revert risk.
LEMMA GainsBounded ==
    ASSUME NEW c \in Counts
    PROVE  /\ Gains(c) \in Nat
           /\ Gains(c) <= 8500
           /\ ~c.risk => Gains(c) <= 7500
<1> DEFINE a == 50 * Capped(c.edits, 20)
           b == 500 * Capped(c.reverts, 6)
           d == 1250 * Capped(c.pairs, 2)
           e == 125 * Capped(c.participants, 8)
           f == IF c.risk THEN 1000 ELSE 0
<1>1. /\ c.edits \in Nat /\ c.reverts \in Nat /\ c.pairs \in Nat
      /\ c.participants \in Nat /\ c.risk \in BOOLEAN
    BY DEF Counts, ShippedEditWindow
<1>2. a \in 0 .. 1000 /\ b \in 0 .. 3000
    BY <1>1 DEF Capped
<1>5. d \in 0 .. 2500 /\ e \in 0 .. 1000
    BY <1>1 DEF Capped
<1>3. f \in 0 .. 1000 /\ (~c.risk => f = 0)
    BY <1>1
<1>4. Gains(c) = a + b + d + e + f
    BY DEF Gains
<1> HIDE DEF a, b, d, e, f
<1> QED
    BY <1>2, <1>3, <1>4, <1>5

\* Products with a positive factor keep the order.
LEMMA ProductOrder ==
    ASSUME NEW x \in Int, NEW y \in Int, NEW z \in Nat \ {0}
    PROVE  /\ x <= y => x * z <= y * z
           /\ x < y => x * z + z <= y * z
<1> DEFINE k == y - x
<1>1. k \in Int /\ y = x + k
    OBVIOUS
<1> HIDE DEF k
<1>2. y * z = x * z + k * z
    BY <1>1
<1>3. k \in Nat => k * z >= 0
    BY <1>1
<1>4. k \in Nat \ {0} => k * z >= z
    <2> SUFFICES ASSUME k \in Nat \ {0} PROVE k * z >= z
        OBVIOUS
    <2>1. PICK j \in Nat : k = j + 1
        BY <1>1
    <2>2. k * z = j * z + z /\ j * z \in Nat
        BY <2>1
    <2> QED
        BY <2>2
<1>5. x * z \in Int /\ k * z \in Int
    BY <1>1
<1> QED
    BY <1>1, <1>2, <1>3, <1>4, <1>5

\* Without the three-revert risk the score stays below 80 points.
LEMMA EightyPointsNeedRisk ==
    ASSUME NEW c \in Counts, AtLeast(Calculate(c), 8000)
    PROVE  c.risk
<1> DEFINE den == Denominator(c)
           most == Gains(c) * den
           num == Clamp(most - 2000 * c.cleanups, 0, 10000 * den)
<1>1. c.cleanups \in Nat /\ den \in Nat \ {0}
    BY DEF Counts, Denominator
<1>2. Calculate(c) = [num |-> num, den |-> den]
    BY DEF Calculate, Denominator
<1> HIDE DEF den, most, num
<1>3. num >= 8000 * den
    BY <1>2 DEF AtLeast
<1> SUFFICES ASSUME ~c.risk PROVE FALSE
    OBVIOUS
<1>4. Gains(c) \in Int /\ Gains(c) <= 7500
    BY GainsBounded
<1>5. most \in Int
    BY <1>1, <1>4 DEF most
<1>6. most <= 7500 * den
    BY <1>1, <1>4, ProductOrder DEF most
<1> QED
    BY <1>1, <1>3, <1>5, <1>6 DEF num, Clamp

\* An article of status HighRisk has a participant with three reverts: the
\* other criteria together do not reach the 80 points it takes.
THEOREM HighRiskHasThreeRevertRisk ==
    ASSUME NEW c \in Counts, StatusFor(Calculate(c), c.risk) = "HighRisk"
    PROVE  c.risk
BY EightyPointsNeedRisk DEF StatusFor

Thresholds == {2000, 3000, 4000, 6000, 7000, 8000}

\* A score comes in quarters of a point before the penalty, and in steps of one
\* and a quarter points once the edits and the reverts are at their caps.
LEMMA GainsStep ==
    ASSUME NEW c \in Counts, NEW T \in Thresholds
    PROVE  /\ \E q \in Int : Gains(c) - T = 25 * q
           /\ c.edits >= 20 /\ c.reverts >= 6 => \E q \in Int : Gains(c) - T = 125 * q
<1> DEFINE x == Capped(c.edits, 20)
           y == Capped(c.reverts, 6)
           z == Capped(c.pairs, 2)
           w == Capped(c.participants, 8)
           f == IF c.risk THEN 1 ELSE 0
<1>1. PICK t \in Int : T = 1000 * t
    <2>1. T \in {1000 * 2, 1000 * 3, 1000 * 4, 1000 * 6, 1000 * 7, 1000 * 8}
        BY DEF Thresholds
    <2> QED BY <2>1
<1>2. x \in Int /\ y \in Int /\ z \in Int /\ w \in Int /\ f \in Int
    BY DEF Counts, Capped, ShippedEditWindow
<1>3. Gains(c) = 50 * x + 500 * y + 1250 * z + 125 * w + 1000 * f
    BY DEF Gains
<1>4. c.edits >= 20 /\ c.reverts >= 6 => x = 20 /\ y = 6
    BY DEF Counts, Capped, ShippedEditWindow
<1> HIDE DEF x, y, z, w, f
<1>5. Gains(c) - T = 25 * (2 * x + 20 * y + 50 * z + 5 * w + 40 * f - 40 * t)
    BY <1>1, <1>2, <1>3
<1>6. x = 20 /\ y = 6 => Gains(c) - T = 125 * (8 + 24 + 10 * z + w + 8 * f - 8 * t)
    BY <1>1, <1>2, <1>3
<1>7. /\ 2 * x + 20 * y + 50 * z + 5 * w + 40 * f - 40 * t \in Int
      /\ 8 + 24 + 10 * z + w + 8 * f - 8 * t \in Int
    BY <1>1, <1>2
<1> QED
    BY <1>4, <1>5, <1>6, <1>7

\* No score lies less than half a hundredth below a threshold: the penalty is a
\* multiple of 20 / reverts points, and reverts is at most the edit window.
LEMMA GapBelowThreshold ==
    ASSUME NEW c \in Counts, Consistent(c), NEW T \in Thresholds,
           NEW r \in Nat \ {0}, r = Denominator(c),
           NEW gap \in Int, gap = 2000 * c.cleanups - (Gains(c) - T) * r,
           gap > 0
    PROVE  2 * gap > r
<1>1. /\ c.edits \in Nat /\ c.edits <= 100 /\ c.reverts \in Nat /\ c.cleanups \in Nat
      /\ c.cleanups <= c.reverts /\ c.reverts <= c.edits
    BY DEF Counts, Consistent, ShippedEditWindow
<1>2. r <= 100
    BY <1>1 DEF Denominator
<1>3. CASE r >= 50
    <2>1. PICK q \in Int : Gains(c) - T = 125 * q
        <3>1. c.edits >= 20 /\ c.reverts >= 6
            BY <1>1, <1>3 DEF Denominator
        <3> QED BY <3>1, GainsStep
    <2> DEFINE p == q * r
    <2>2. p \in Int /\ (125 * q) * r = 125 * p
        OBVIOUS
    <2> HIDE DEF p
    <2>3. gap = 125 * (16 * c.cleanups - p)
        BY <1>1, <2>1, <2>2
    <2>4. gap >= 125
        BY <1>1, <2>2, <2>3
    <2> QED BY <1>2, <2>4
<1>4. CASE r < 50
    <2>1. PICK q \in Int : Gains(c) - T = 25 * q
        BY GainsStep
    <2> DEFINE p == q * r
    <2>2. p \in Int /\ (25 * q) * r = 25 * p
        OBVIOUS
    <2> HIDE DEF p
    <2>3. gap = 25 * (80 * c.cleanups - p)
        BY <1>1, <2>1, <2>2
    <2>4. gap >= 25
        BY <1>1, <2>2, <2>3
    <2> QED BY <1>4, <2>4
<1> QED
    BY <1>3, <1>4

\* The score the snapshot carries, rounded to two digits, is on the same side of
\* every threshold the services compare it with as the score its status was
\* computed from: no article is shown with 80.00 points and not HighRisk.
THEOREM ShownScoreAgreesWithStatus ==
    ASSUME NEW c \in Counts, Consistent(c), NEW T \in Thresholds,
           NEW n \in Int, MayBeShownAs(Calculate(c), n)
    PROVE  n >= T <=> AtLeast(Calculate(c), T)
<1> DEFINE r == Denominator(c)
           most == Gains(c) * r
           num == Clamp(most - 2000 * c.cleanups, 0, 10000 * r)
<1>1. c.cleanups \in Nat /\ r \in Nat \ {0} /\ T \in Nat /\ 2000 <= T /\ T <= 8000
    BY DEF Counts, Denominator, Thresholds
<1>2. Gains(c) \in Int
    BY GainsBounded
<1>3. Calculate(c) = [num |-> num, den |-> r]
    BY DEF Calculate, Denominator
<1>4. r = Denominator(c)
    OBVIOUS
<1> HIDE DEF r, most
<1>5. most \in Int
    BY <1>1, <1>2 DEF most
<1>6. num \in Int
    BY <1>1, <1>5 DEF Clamp
<1> HIDE DEF num
<1> DEFINE nr == n * r
           tr == T * r
<1>7. nr \in Int /\ tr \in Int
    BY <1>1
<1>8. 2 * nr - r <= 2 * num /\ 2 * num <= 2 * nr + r
    <2>1. 2 * n * r - r <= 2 * num /\ 2 * num <= 2 * n * r + r
        BY <1>3 DEF MayBeShownAs
    <2>2. 2 * n * r = 2 * nr
        BY <1>1
    <2> QED BY <2>1, <2>2
<1>9. AtLeast(Calculate(c), T) <=> num >= tr
    BY <1>3 DEF AtLeast
<1>10. n < T => nr + r <= tr
    BY <1>1, ProductOrder
<1>11. n >= T => nr >= tr
    BY <1>1, ProductOrder
<1>12. 2000 * r <= tr /\ tr <= 8000 * r
    <2>1. 2000 * r <= T * r
        BY <1>1, ProductOrder
    <2>2. T * r <= 8000 * r
        BY <1>1, ProductOrder
    <2> QED BY <2>1, <2>2
<1>13. 2000 * c.cleanups - (Gains(c) - T) * r = tr - (most - 2000 * c.cleanups)
    BY <1>1, <1>2 DEF most
<1> HIDE DEF nr, tr
<1>14. num >= tr => n >= T
    BY <1>1, <1>6, <1>7, <1>8, <1>10
<1>15. ASSUME n >= T, num < tr PROVE FALSE
    <2> DEFINE gap == tr - (most - 2000 * c.cleanups)
    <2>1. gap \in Int /\ gap = 2000 * c.cleanups - (Gains(c) - T) * r
        BY <1>1, <1>5, <1>7, <1>13
    <2>2. gap > 0 /\ (num = tr - gap \/ num = 0)
        BY <1>1, <1>5, <1>7, <1>12, <1>15 DEF num, Clamp
    <2> HIDE DEF gap
    <2>3. 2 * gap > r
        BY <1>1, <1>4, <2>1, <2>2, GapBelowThreshold
    <2> QED
        BY <1>1, <1>6, <1>7, <1>8, <1>11, <1>12, <1>15, <2>1, <2>2, <2>3
<1> QED
    BY <1>6, <1>7, <1>9, <1>14, <1>15

---------------------------------------------------------------------------
(* Indices, and what Where and OrderedByTime make of them.  Where there is *)
(* something to show for every number, a least one that does not have it   *)
(* is refuted.                                                             *)

\* Numbers that are some have a least one.
LEMMA Least ==
    ASSUME NEW S \in SUBSET Nat, S # {}
    PROVE  \E n \in S : \A m \in S : n <= m
<1> DEFINE Less == {ss \in Nat \X Nat : ss[1] < ss[2]}
<1>1. Less = OpToRel(<, Nat)
  BY DEF OpToRel
<1>2. IsWellFoundedOn(Less, Nat)
  BY ONLY <1>1, NatLessThanWellFounded, Zenon
<1> HIDE DEF Less
<1>3. PICK n \in S : \A m \in S : <<m, n>> \notin Less
  BY <1>2, WFMin
<1>4. \A m \in S : ~(m < n)
  BY <1>3 DEF Less
<1> QED
  BY <1>4

\* How many indices there are up to one.
UpTo(indices, m) == {j \in indices : j <= m}

\* The count of the indices up to a number is 0 at 0, all at the end, and grows at each.
LEMMA Ranks ==
    ASSUME NEW n \in Nat, NEW indices, \A j \in indices : j \in 1 .. n
    PROVE  /\ IsFiniteSet(indices) /\ Cardinality(indices) \in 0 .. n
           /\ \A m \in Nat : Cardinality(UpTo(indices, m)) \in Nat
           /\ Cardinality(UpTo(indices, 0)) = 0
           /\ Cardinality(UpTo(indices, n)) = Cardinality(indices)
           /\ \A l, m \in Nat : l <= m => Cardinality(UpTo(indices, l)) <= Cardinality(UpTo(indices, m))
           /\ \A l \in Nat : \A m \in indices : l < m =>
                 Cardinality(UpTo(indices, l)) < Cardinality(UpTo(indices, m))
<1>0. \A j \in indices : j \in Nat /\ 1 <= j /\ j <= n
  OBVIOUS
<1>1. IsFiniteSet(1 .. n) /\ Cardinality(1 .. n) = n
  BY FS_Interval
<1>2. IsFiniteSet(indices) /\ Cardinality(indices) \in Nat /\ Cardinality(indices) <= n
  <2>1. indices \subseteq 1 .. n
    OBVIOUS
  <2> QED
    BY <1>1, <2>1, FS_Subset, FS_CardinalityType
<1>3. \A m \in Nat : IsFiniteSet(UpTo(indices, m)) /\ Cardinality(UpTo(indices, m)) \in Nat
  <2> TAKE m \in Nat
  <2>1. UpTo(indices, m) \subseteq indices
    BY DEF UpTo
  <2> QED
    BY <1>2, <2>1, FS_Subset, FS_CardinalityType
<1>4. UpTo(indices, 0) = {} /\ UpTo(indices, n) = indices
  BY <1>0 DEF UpTo
<1>5. ASSUME NEW l \in Nat, NEW m \in Nat, l <= m
      PROVE  Cardinality(UpTo(indices, l)) <= Cardinality(UpTo(indices, m))
  <2>1. UpTo(indices, l) \subseteq UpTo(indices, m)
    BY <1>0, <1>5 DEF UpTo
  <2> QED
    BY <1>3, <2>1, FS_Subset
<1>6. ASSUME NEW l \in Nat, NEW m \in indices, l < m
      PROVE  Cardinality(UpTo(indices, l)) < Cardinality(UpTo(indices, m))
  <2>1. m \in Nat /\ UpTo(indices, l) \subseteq UpTo(indices, m)
    BY <1>0, <1>6 DEF UpTo
  <2>2. m \in UpTo(indices, m)
    BY <1>0 DEF UpTo
  <2>3. m \notin UpTo(indices, l)
    BY <1>0, <1>6 DEF UpTo
  <2> QED
    BY <1>3, <2>1, <2>2, <2>3, FS_Subset
<1> QED
  BY <1>2, <1>3, <1>4, <1>5, <1>6, FS_EmptySet

\* It grows by one at a time, and only at an index.
LEMMA OneMore ==
    ASSUME NEW n \in Nat, NEW indices, \A j \in indices : j \in 1 .. n,
           NEW l \in Nat, NEW m \in Nat, l <= m, m <= l + 1
    PROVE  /\ Cardinality(UpTo(indices, m)) <= Cardinality(UpTo(indices, l)) + 1
           /\ m \notin indices => Cardinality(UpTo(indices, m)) = Cardinality(UpTo(indices, l))
<1>0. \A j \in indices : j \in Nat /\ 1 <= j /\ j <= n
  OBVIOUS
<1>1. IsFiniteSet(UpTo(indices, l)) /\ Cardinality(UpTo(indices, l)) \in Nat
  <2>1. UpTo(indices, l) \subseteq indices
    BY DEF UpTo
  <2> QED
    BY <2>1, Ranks, FS_Subset, FS_CardinalityType
<1>2. UpTo(indices, m) \subseteq UpTo(indices, l) \cup {m}
  BY <1>0 DEF UpTo
<1>3. /\ IsFiniteSet(UpTo(indices, l) \cup {m})
      /\ Cardinality(UpTo(indices, l) \cup {m}) <= Cardinality(UpTo(indices, l)) + 1
  BY <1>1, FS_AddElement
<1>4. /\ Cardinality(UpTo(indices, m)) <= Cardinality(UpTo(indices, l) \cup {m})
      /\ Cardinality(UpTo(indices, l) \cup {m}) \in Nat /\ Cardinality(UpTo(indices, m)) \in Nat
  BY <1>2, <1>3, FS_Subset, FS_CardinalityType
<1>5. ASSUME m \notin indices PROVE UpTo(indices, m) = UpTo(indices, l)
  BY <1>0, <1>5 DEF UpTo
<1> QED
  BY <1>1, <1>3, <1>4, <1>5

\* The k-th of some indices.
Nth(indices, k) == CHOOSE i \in indices : Cardinality(UpTo(indices, i)) = k

\* So every number up to the count is that of one index, in order.
LEMMA Numbering ==
    ASSUME NEW n \in Nat, NEW indices, \A j \in indices : j \in 1 .. n
    PROVE  /\ \A k \in 1 .. Cardinality(indices) : Nth(indices, k) \in indices
           /\ \A k, l \in 1 .. Cardinality(indices) : k < l => Nth(indices, k) < Nth(indices, l)
           /\ \A i \in indices : \E k \in 1 .. Cardinality(indices) : Nth(indices, k) = i
           /\ \A k \in 1 .. Cardinality(indices) : Cardinality(UpTo(indices, Nth(indices, k))) = k
<1> DEFINE R(m) == Cardinality(UpTo(indices, m))
           total == Cardinality(indices)
<1>0. \A j \in indices : j \in Nat /\ 1 <= j /\ j <= n
  OBVIOUS
<1>1. /\ total \in 0 .. n /\ R(0) = 0 /\ R(n) = total
      /\ \A m \in Nat : R(m) \in Nat
      /\ \A l, m \in Nat : l <= m => R(l) <= R(m)
      /\ \A l \in Nat : \A m \in indices : l < m => R(l) < R(m)
      /\ \A l, m \in Nat : l <= m /\ m <= l + 1 =>
            R(m) <= R(l) + 1 /\ (m \notin indices => R(m) = R(l))
  <2>1. total \in 0 .. n /\ R(0) = 0 /\ R(n) = total
    BY Ranks
  <2>2. /\ \A m \in Nat : R(m) \in Nat
        /\ \A l, m \in Nat : l <= m => R(l) <= R(m)
    BY Ranks
  <2>3. \A l \in Nat : \A m \in indices : l < m => R(l) < R(m)
    BY Ranks
  <2>4. ASSUME NEW l \in Nat, NEW m \in Nat, l <= m, m <= l + 1
        PROVE  R(m) <= R(l) + 1 /\ (m \notin indices => R(m) = R(l))
    BY <2>4, OneMore
  <2> HIDE DEF R, total
  <2> QED
    BY <2>1, <2>2, <2>3, <2>4
<1> HIDE DEF R, total
<1>2. ASSUME NEW k \in 1 .. total
      PROVE  \E i \in indices : R(i) = k
  <2> DEFINE S == {m \in 0 .. n : R(m) >= k}
  <2>1. n \in S /\ S \in SUBSET Nat /\ 0 \notin S
    BY <1>1
  <2>2. PICK m \in S : \A l \in S : m <= l
    BY <2>1, Least
  <2>3. m \in 1 .. n /\ R(m) >= k /\ m - 1 \in 0 .. n /\ m - 1 \notin S
    BY <2>1, <2>2
  <2>4. R(m - 1) < k /\ R(m - 1) \in Nat /\ R(m) \in Nat
    BY <1>1, <2>3
  <2>5. R(m) <= R(m - 1) + 1 /\ (m \notin indices => R(m) = R(m - 1))
    BY <1>1, <2>3
  <2>6. m \in indices /\ R(m) = k
    BY <2>3, <2>4, <2>5
  <2> QED
    BY <2>6
<1>3. \A k \in 1 .. total : Nth(indices, k) \in indices /\ R(Nth(indices, k)) = k
  BY <1>2 DEF Nth, R
<1>4. ASSUME NEW k \in 1 .. total, NEW l \in 1 .. total, k < l
      PROVE  Nth(indices, k) < Nth(indices, l)
  <2>1. Nth(indices, k) \in Nat /\ Nth(indices, l) \in Nat
    BY <1>0, <1>3
  <2>2. k \in Int /\ l \in Int /\ R(Nth(indices, k)) = k /\ R(Nth(indices, l)) = l
    BY <1>1, <1>3
  <2>3. ~(R(Nth(indices, l)) <= R(Nth(indices, k)))
    BY <1>4, <2>2
  <2> QED
    BY <1>1, <2>1, <2>3
<1>5. ASSUME NEW i \in indices
      PROVE  \E k \in 1 .. total : Nth(indices, k) = i
  <2>1. R(i) \in 1 .. total
    BY <1>0, <1>1
  <2> DEFINE j == Nth(indices, R(i))
  <2>2. j \in indices /\ R(j) = R(i) /\ R(i) \in Nat
    BY <1>3, <2>1
  <2> HIDE DEF j
  <2>3. ~(i < j) /\ ~(j < i)
    BY <1>0, <1>1, <2>2
  <2>4. j = i
    BY <1>0, <2>2, <2>3
  <2> QED
    BY <2>1, <2>4 DEF j
<1> QED
  BY <1>3, <1>4, <1>5 DEF total, R

\* What Where selects: the elements at the indices, all of them, in their order.
LEMMA Selected ==
    ASSUME NEW seq, NEW n \in Nat, NEW indices, \A j \in indices : j \in 1 .. n
    PROVE  /\ IsASeq(Picked(seq, indices)) /\ Len(Picked(seq, indices)) = Cardinality(indices)
           /\ Cardinality(indices) \in Nat
           /\ \A k \in 1 .. Cardinality(indices) : Picked(seq, indices)[k] = seq[Nth(indices, k)]
<1> DEFINE total == Cardinality(indices)
           At(k) == CHOOSE i \in indices : Cardinality({j \in indices : j <= i}) = k
<1>1. total \in Nat
  BY Ranks
<1>2. \A k : At(k) = Nth(indices, k)
  BY DEF Nth, UpTo
<1>3. Picked(seq, indices) = [k \in 1 .. total |-> seq[At(k)]]
  BY DEF Picked
<1> HIDE DEF total, At
<1>4. \A k \in 1 .. total : Picked(seq, indices)[k] = seq[Nth(indices, k)]
  BY <1>2, <1>3
<1>5. Picked(seq, indices) \in Seq({seq[At(k)] : k \in 1 .. total})
  BY <1>1, <1>3
<1>6. Len(Picked(seq, indices)) = total
  BY <1>1, <1>3
<1> QED
  BY <1>1, <1>4, <1>5, <1>6 DEF total, IsASeq

\* The ends of a set of indices.
LEMMA Smallest ==
    ASSUME NEW n \in Nat, NEW S, \A j \in S : j \in 1 .. n, S # {}
    PROVE  Min(S) \in S /\ \A j \in S : Min(S) <= j
<1>1. \E i \in S : \A j \in S : i <= j
  <2>1. S \in SUBSET Nat
    OBVIOUS
  <2> QED
    BY ONLY <2>1, S # {}, Least
<1> QED
  BY <1>1 DEF Min

\* SelectLastInSeq takes a Max: it is there when something is.
LEMMA Largest ==
    ASSUME NEW n \in Nat, NEW S, \A j \in S : j \in 1 .. n, S # {}
    PROVE  Max(S) \in S /\ \A j \in S : j <= Max(S)
<1>1. \E i \in S : \A j \in S : i >= j
  <2> DEFINE T == {n - j : j \in S}
  <2>1. T \in SUBSET Nat /\ T # {}
    OBVIOUS
  <2>2. PICK m \in T : \A l \in T : m <= l
    BY <2>1, Least
  <2>3. PICK i \in S : m = n - i
    BY <2>2
  <2>4. ASSUME NEW j \in S PROVE i >= j
    <3>1. n - j \in T /\ i \in Int /\ j \in Int
      OBVIOUS
    <3> QED
      BY <2>2, <2>3, <3>1
  <2> QED
    BY <2>3, <2>4
<1> QED
  BY <1>1 DEF Max

\* A sequence whose neighbours increase is increasing.
LEMMA Increasing ==
    ASSUME NEW s, NEW n \in Nat, \A i \in 1 .. n : s[i] \in Nat,
           \A i \in 1 .. n - 1 : s[i] < s[i + 1]
    PROVE  \A i, j \in 1 .. n : i < j => s[i] < s[j]
<1> SUFFICES ASSUME NEW i \in 1 .. n, NEW k \in 1 .. n, i < k, ~(s[i] < s[k])
             PROVE  FALSE
  OBVIOUS
<1> DEFINE S == {j \in 1 .. n : i < j /\ ~(s[i] < s[j])}
<1>1. S \in SUBSET Nat /\ k \in S
  OBVIOUS
<1>2. PICK m \in S : \A l \in S : m <= l
  BY <1>1, Least
<1>3. m \in 1 .. n /\ i < m /\ ~(s[i] < s[m])
  BY <1>2
<1>4. m - 1 \in 1 .. n - 1 /\ (m - 1) + 1 = m /\ m - 1 \notin S
  BY <1>2, <1>3
<1>5. s[m - 1] < s[m]
  BY <1>4
<1>6. s[i] \in Nat /\ s[m - 1] \in Nat /\ s[m] \in Nat
  BY <1>3, <1>4
<1>7. m - 1 = i \/ s[i] < s[m - 1]
  BY <1>3, <1>4
<1> QED
  BY <1>3, <1>5, <1>6, <1>7

\* What is in the order of time stays as it is.
LEMMA OrderedAlready ==
    ASSUME NEW revisions, IsASeq(revisions),
           \A i \in 1 .. Len(revisions) : revisions[i].time \in Nat,
           \A i, j \in 1 .. Len(revisions) : i < j => revisions[i].time < revisions[j].time
    PROVE  OrderedByTime(revisions) = revisions
<1> DEFINE n == Len(revisions)
           Before(i) == {j \in DOMAIN revisions :
                            \/ revisions[j].time < revisions[i].time
                            \/ revisions[j].time = revisions[i].time /\ j < i}
           At(k) == CHOOSE i \in DOMAIN revisions : Cardinality(Before(i)) = k - 1
<1>1. n \in Nat /\ DOMAIN revisions = 1 .. n /\ revisions = [k \in 1 .. n |-> revisions[k]]
  BY DEF IsASeq
<1>2. ASSUME NEW i \in 1 .. n PROVE Cardinality(Before(i)) = i - 1
  <2>1. ASSUME NEW j \in 1 .. n PROVE j \in Before(i) <=> j < i
    <3>1. CASE j < i
      BY <1>1, <3>1
    <3>2. CASE i < j
      <4>1. revisions[i].time < revisions[j].time /\ revisions[i].time \in Nat /\ revisions[j].time \in Nat
        BY <3>2
      <4> QED
        BY <1>1, <3>2, <4>1
    <3>3. CASE i = j
      <4>1. revisions[i].time \in Nat
        OBVIOUS
      <4> QED
        BY <3>3, <4>1
    <3> QED
      BY <3>1, <3>2, <3>3
  <2>2. Before(i) \subseteq 1 .. n
    BY <1>1
  <2>3. i \in Nat /\ 1 <= i /\ i <= n /\ n \in Nat
    BY <1>1
  <2> HIDE DEF Before, n
  <2>4. Before(i) = 1 .. i - 1
    <3>1. ASSUME NEW j \in Before(i) PROVE j \in 1 .. i - 1
      BY <2>1, <2>2, <2>3
    <3>2. ASSUME NEW j \in 1 .. i - 1 PROVE j \in Before(i)
      BY <2>1, <2>3
    <3> QED
      BY <3>1, <3>2
  <2>5. Cardinality(1 .. i - 1) = i - 1
    BY ONLY <2>3, FS_Interval
  <2> QED
    BY <2>4, <2>5
<1>3. OrderedByTime(revisions) = [k \in DOMAIN revisions |-> revisions[At(k)]]
  BY DEF OrderedByTime
<1> HIDE DEF Before
<1>4. ASSUME NEW k \in 1 .. n PROVE At(k) = k
  <2>1. \A i \in 1 .. n : Cardinality(Before(i)) = k - 1 <=> i = k
    BY <1>2
  <2> QED
    BY <1>1, <2>1
<1> HIDE DEF n, At
<1>5. \A k \in 1 .. n : revisions[At(k)] = revisions[k]
  BY <1>4
<1> QED
  BY <1>1, <1>3, <1>5

\* Revisions with growing ids, saved when their ids say.
Chronicle(revisions) ==
    /\ IsASeq(revisions)
    /\ \A i \in 1 .. Len(revisions) : revisions[i].id \in Nat /\ revisions[i].time = revisions[i].id
    /\ \A i, j \in 1 .. Len(revisions) : i < j => revisions[i].id < revisions[j].id

\* Where a window has the content of a rev.
SameContent(rev, revisions) ==
    {i \in 1 .. Len(revisions) : revisions[i].sha # NoSha /\ revisions[i].sha = rev.sha}

\* What is undone is what follows the restored revision in the window, up to its end.
LEMMA Between ==
    ASSUME NEW revisions, Chronicle(revisions), NEW to \in 1 .. Len(revisions),
           NEW current, \A i \in 1 .. Len(revisions) : revisions[i].id # current,
           NEW between, between = FindRevisionsBetween(revisions, revisions[to].id, current)
    PROVE  /\ IsASeq(between)
           /\ ToSet(between) = {revisions[j] : j \in to + 1 .. Len(revisions)}
<1> DEFINE n == Len(revisions)
           found == {i \in 1 .. n : revisions[i].id = revisions[to].id}
           rest == SubSeq(revisions, to + 1, n)
           others == {i \in DOMAIN rest : rest[i].id # current}
<1>1. n \in Nat /\ OrderedByTime(revisions) = revisions
  BY OrderedAlready DEF Chronicle, IsASeq
<1>2. to \in found /\ \A i \in found : i = to
  BY <1>1 DEF Chronicle
<1>3. Min(found) = to /\ to # 0
  BY <1>2 DEF Min
<1>4. between = Picked(rest, others)
  <2>1. SelectInSeq(revisions, LAMBDA r : r.id = revisions[to].id) = Min(found)
    BY <1>2 DEF SelectInSeq
  <2> QED
    BY <1>1, <1>3, <2>1 DEF FindRevisionsBetween, Where
<1>5. /\ DOMAIN rest = 1 .. n - to /\ n - to \in Nat
      /\ \A i \in 1 .. n - to : to + i \in 1 .. n /\ rest[i] = revisions[to + i]
  BY <1>1 DEF Chronicle, IsASeq
<1> HIDE DEF n, rest, found
<1>6. \A i \in 1 .. n - to : i \in others
  BY <1>5 DEF n
<1>7. \A i \in others : i \in 1 .. n - to
  BY <1>5
<1> HIDE DEF others
<1> DEFINE total == Cardinality(others)
<1>8. /\ IsASeq(between) /\ Len(between) = total
      /\ \A k \in 1 .. total : between[k] = rest[Nth(others, k)] /\ Nth(others, k) \in others
      /\ \A i \in others : \E k \in 1 .. total : Nth(others, k) = i
  BY <1>4, <1>5, <1>7, Selected, Numbering
<1> HIDE DEF total
<1>9. ASSUME NEW k \in 1 .. total
      PROVE  \E j \in 1 .. n : to < j /\ between[k] = revisions[j]
  <2>1. Nth(others, k) \in 1 .. n - to /\ between[k] = rest[Nth(others, k)]
    BY <1>7, <1>8
  <2>2. to + Nth(others, k) \in 1 .. n /\ between[k] = revisions[to + Nth(others, k)]
    BY <1>5, <2>1
  <2>3. to < to + Nth(others, k)
    BY <1>1, <2>1 DEF n
  <2> QED
    BY <2>2, <2>3
<1>10. ASSUME NEW j \in 1 .. n, to < j
       PROVE  \E k \in 1 .. total : between[k] = revisions[j]
  <2>1. j - to \in 1 .. n - to /\ to + (j - to) = j
    BY <1>1, <1>10 DEF n
  <2>2. PICK k \in 1 .. total : Nth(others, k) = j - to
    BY <1>6, <1>8, <2>1
  <2>3. between[k] = rest[j - to] /\ rest[j - to] = revisions[j]
    BY <1>5, <1>8, <2>1, <2>2
  <2> QED
    BY <2>3
<1> QED
  <2>1. DOMAIN between = 1 .. total
    BY <1>8, Appended
  <2>2. ASSUME NEW x \in ToSet(between) PROVE x \in {revisions[j] : j \in to + 1 .. n}
    <3>1. PICK k \in 1 .. total : x = between[k]
      BY <2>1 DEF ToSet
    <3>2. PICK j \in 1 .. n : to < j /\ x = revisions[j]
      BY <1>9, <3>1
    <3> QED
      BY <1>1, <3>2 DEF n
  <2>3. ASSUME NEW j \in to + 1 .. n PROVE revisions[j] \in ToSet(between)
    <3>1. j \in 1 .. n /\ to < j
      BY <1>1 DEF n
    <3>2. PICK k \in 1 .. total : between[k] = revisions[j]
      BY <1>10, <3>1
    <3> QED
      BY <2>1, <3>2 DEF ToSet
  <2> QED
    BY <1>8, <2>2, <2>3 DEF n

\* The candidates are what follows the last copy of the content that comes back.
Undone(rev, revisions) ==
    LET same == SameContent(rev, revisions)
    IN  IF "bot" \in rev.signals \/ rev.sha = NoSha \/ same = {}
        THEN {}
        ELSE {revisions[j] : j \in {k \in 1 .. Len(revisions) : \A i \in same : i < k}}

\* What the classifier looks up is Undone: one by one, through a sort and a filter.
LEMMA Candidates ==
    ASSUME NEW rev, NEW revisions, Chronicle(revisions),
           \A i \in 1 .. Len(revisions) : revisions[i].id # rev.id
    PROVE  /\ IsASeq(RevertCandidates(rev, revisions))
           /\ ToSet(RevertCandidates(rev, revisions)) = Undone(rev, revisions)
<1> DEFINE same == SameContent(rev, revisions)
           candidates == RevertCandidates(rev, revisions)
           to == Max(same)
<1>1. Len(revisions) \in Nat /\ \A j \in same : j \in 1 .. Len(revisions)
  BY DEF Chronicle, IsASeq, SameContent
<1>2. SelectLastInSeq(revisions, LAMBDA r : r.sha # NoSha /\ r.sha = rev.sha)
         = IF same # {} THEN to ELSE 0
  BY DEF SelectLastInSeq, SameContent
<1>3. CASE "bot" \in rev.signals \/ rev.sha = NoSha \/ same = {}
  <2>1. candidates = <<>>
    BY <1>2, <1>3 DEF RevertCandidates
  <2>2. IsASeq(<<>>) /\ ToSet(<<>>) = {}
    BY DEF IsASeq, ToSet
  <2> HIDE DEF candidates
  <2> QED
    BY <1>3, <2>1, <2>2 DEF Undone, candidates
<1>4. CASE "bot" \notin rev.signals /\ rev.sha # NoSha /\ same # {}
  <2>1. to \in same /\ \A j \in same : j <= to
    BY <1>1, <1>4, Largest
  <2>2. to \in 1 .. Len(revisions)
    BY <1>1, <2>1
  <2>3. candidates = FindRevisionsBetween(revisions, revisions[to].id, rev.id)
    <3> HIDE DEF same, to
    <3>1. to # 0
      BY <1>1, <2>2
    <3> QED
      BY <1>2, <1>4, <3>1 DEF RevertCandidates
  <2> HIDE DEF candidates, to, same
  <2>4. IsASeq(candidates) /\ ToSet(candidates) = {revisions[j] : j \in to + 1 .. Len(revisions)}
    BY <2>2, <2>3, Between
  <2>5. ASSUME NEW k \in 1 .. Len(revisions)
        PROVE  k \in to + 1 .. Len(revisions) <=> \A i \in same : i < k
    BY <1>1, <2>1, <2>2
  <2>6. to + 1 .. Len(revisions) = {k \in 1 .. Len(revisions) : \A i \in same : i < k}
    BY <1>1, <2>2, <2>5
  <2> QED
    BY <1>4, <2>4, <2>6 DEF Undone, candidates, same
<1> QED
  BY <1>3, <1>4

\* An edge to each revision of somebody else that is undone.
EdgesOf(rev, revisions) ==
    {[fromUser |-> rev.user, toUser |-> older.user, from |-> rev.id, to |-> older.id,
      time |-> rev.time] : older \in {r \in Undone(rev, revisions) : r.user # rev.user}}

\* Apply makes edges of nothing else.
LEMMA NewEdgesFound ==
    ASSUME NEW rev, NEW mem, Chronicle(mem.revisions),
           \A i \in 1 .. Len(mem.revisions) : mem.revisions[i].id # rev.id,
           NEW edges, edges = NewEdges(Classify(rev, mem), mem.revisions)
    PROVE  IsASeq(edges) /\ ToSet(edges) \subseteq EdgesOf(rev, mem.revisions)
<1> DEFINE revisions == mem.revisions
           candidates == RevertCandidates(rev, revisions)
           edit == Classify(rev, mem)
           reverted == edit.reverted
           Remembered(id) == SelectLastInSeq(revisions, LAMBDA r : r.id = id)
           kept == {k \in DOMAIN reverted :
                       /\ Remembered(reverted[k]) # 0
                       /\ revisions[Remembered(reverted[k])].user # edit.user}
           others == Picked(reverted, kept)
           Edge(id) == [fromUser |-> edit.user, toUser |-> revisions[Remembered(id)].user,
                        from |-> edit.id, to |-> id, time |-> edit.time]
<1>1. /\ edit.id = rev.id /\ edit.user = rev.user /\ edit.time = rev.time
      /\ reverted = [k \in DOMAIN candidates |-> candidates[k].id]
  BY DEF Classify
<1>2. edges = [i \in DOMAIN others |-> Edge(others[i])]
  BY DEF NewEdges, Where
<1> HIDE DEF edit
<1>3. IsASeq(candidates) /\ ToSet(candidates) = Undone(rev, revisions)
  BY Candidates
<1> HIDE DEF candidates, reverted
<1>4. DOMAIN reverted = 1 .. Len(candidates) /\ Len(candidates) \in Nat
  BY <1>1, <1>3, Appended
<1>5. ASSUME NEW j \in 1 .. Len(revisions) PROVE Remembered(revisions[j].id) = j
  <2> DEFINE found == {i \in 1 .. Len(revisions) : revisions[i].id = revisions[j].id}
  <2>1. found = {j}
    <3>1. \A i \in 1 .. Len(revisions) : revisions[i].id = revisions[j].id => i = j
      BY DEF Chronicle, IsASeq
    <3> QED
      BY <3>1
  <2>2. Remembered(revisions[j].id) = Max(found)
    BY <2>1 DEF SelectLastInSeq
  <2>3. j \in Int
    BY DEF Chronicle, IsASeq
  <2> HIDE DEF found, Remembered
  <2>4. Max(found) = j
    BY <2>1, <2>3 DEF Max
  <2> QED
    BY <2>2, <2>4
<1> HIDE DEF Remembered
<1>6. /\ IsASeq(others) /\ Len(others) = Cardinality(kept)
      /\ \A i \in 1 .. Len(others) : Nth(kept, i) \in kept /\ others[i] = reverted[Nth(kept, i)]
  <2>1. \A k \in kept : k \in 1 .. Len(candidates)
    BY <1>4
  <2> HIDE DEF kept
  <2> QED
    BY <1>4, <2>1, Selected, Numbering
<1>7. DOMAIN others = 1 .. Len(others) /\ Len(others) \in Nat
  BY <1>6, Appended
<1> HIDE DEF others
<1>8. ASSUME NEW i \in 1 .. Len(others)
      PROVE  Edge(others[i]) \in EdgesOf(rev, revisions)
  <2>1. PICK k \in kept : others[i] = reverted[k]
    BY <1>6
  <2>2. /\ k \in DOMAIN candidates /\ reverted[k] = candidates[k].id
        /\ revisions[Remembered(reverted[k])].user # edit.user
    BY <1>1
  <2> HIDE DEF kept
  <2>3. candidates[k] \in Undone(rev, revisions)
    BY <1>3, <2>2 DEF ToSet
  <2>4. PICK j \in 1 .. Len(revisions) : candidates[k] = revisions[j]
    BY <2>3 DEF Undone
  <2>5. Remembered(others[i]) = j
    BY <1>5, <2>1, <2>2, <2>4
  <2>6. /\ revisions[j] \in Undone(rev, revisions) /\ revisions[j].user # rev.user
        /\ others[i] = revisions[j].id
    BY <1>1, <2>1, <2>2, <2>3, <2>4, <2>5
  <2> QED
    BY <1>1, <2>5, <2>6 DEF EdgesOf
<1> HIDE DEF Edge
<1>9. DOMAIN edges = 1 .. Len(others) /\ \A i \in 1 .. Len(others) : edges[i] = Edge(others[i])
  BY <1>2, <1>7
<1>10. edges \in Seq({Edge(others[i]) : i \in 1 .. Len(others)})
  BY <1>2, <1>7
<1>11. \A x \in ToSet(edges) : x \in EdgesOf(rev, revisions)
  BY <1>8, <1>9 DEF ToSet
<1> QED
  BY <1>10, <1>11 DEF IsASeq

---------------------------------------------------------------------------
(* What a process remembers is true of the page.  The page, the revisions  *)
(* that were not fetched (gaps), the memory and all that was applied are   *)
(* parameters, so that what applying an edit does is said once.            *)

\* The page as MediaWiki keeps it: every revision has a content.
History(pages) ==
    /\ IsASeq(pages)
    /\ \A i \in 1 .. Len(pages) : pages[i].time = i /\ pages[i].sha # NoSha

\* A revision as a process was given it: the content is missing where the API failed.
Given(pages, gaps, r) ==
    /\ r.id \in 1 .. Len(pages)
    /\ r.user = pages[r.id].user /\ r.time = pages[r.id].time
    /\ \/ r.sha = pages[r.id].sha
       \/ r.sha = NoSha /\ r.id \in gaps

\* An edit is remembered as who made it and when.
GivenEdit(pages, e) ==
    e.id \in 1 .. Len(pages) /\ e.user = pages[e.id].user /\ e.time = pages[e.id].time

\* RevertEdgesSound's EdgeSound, of any page and any gaps.
SoundEdge(pages, gaps, e) ==
    /\ e.from \in 1 .. Len(pages) /\ e.to \in 1 .. Len(pages)
    /\ pages[e.from].user = e.fromUser /\ pages[e.to].user = e.toUser
    /\ e.to < e.from
    /\ pages[e.from].user # pages[e.to].user
    /\ \E old \in 1 .. e.to - 1 : pages[old].sha = pages[e.from].sha
    /\ pages[e.to].sha = pages[e.from].sha => e.to \in gaps

\* The ids of a window are the last of those applied.
LastOf(rows, all) ==
    /\ IsASeq(rows)
    /\ \E d \in 0 .. Len(all) :
          /\ Len(rows) = Len(all) - d
          /\ \A i \in 1 .. Len(rows) : rows[i].id = all[d + i]

\* Ids that are some up to a bound.
Within(all, bound) == IsASeq(all) /\ \A i \in 1 .. Len(all) : all[i] \in 1 .. bound

\* Applied in the order of the page, and each once.
Sorted(all) == \A i \in 1 .. Len(all) - 1 : all[i] < all[i + 1]

\* A memory is the end of what was applied, row by row as given, and its edges are sound
\* as long as that came in order.
Faithful(pages, gaps, mem, all) ==
    /\ Within(all, Len(pages)) /\ LastOf(mem.revisions, all) /\ LastOf(mem.edits, all)
    /\ \A r \in ToSet(mem.revisions) : Given(pages, gaps, r)
    /\ \A e \in ToSet(mem.edits) : GivenEdit(pages, e)
    /\ Sorted(all) => IsASeq(mem.edges) /\ \A x \in ToSet(mem.edges) : SoundEdge(pages, gaps, x)

\* The page grows, and so do the gaps.
LEMMA StaysFaithful ==
    ASSUME NEW pages, NEW gaps, NEW mem, NEW all, Faithful(pages, gaps, mem, all),
           NEW more, Len(pages) \in Nat, Len(more) \in Nat, Len(pages) <= Len(more),
           \A i \in 1 .. Len(pages) : more[i] = pages[i],
           NEW wider, gaps \subseteq wider
    PROVE  /\ Faithful(more, wider, mem, all)
           /\ \A r : Given(pages, gaps, r) => Given(more, wider, r)
<1>1. 1 .. Len(pages) \subseteq 1 .. Len(more)
  OBVIOUS
<1>2. \A r : Given(pages, gaps, r) => Given(more, wider, r)
  BY <1>1 DEF Given
<1>3. \A e : GivenEdit(pages, e) => GivenEdit(more, e)
  BY <1>1 DEF GivenEdit
<1>4. ASSUME NEW e, SoundEdge(pages, gaps, e) PROVE SoundEdge(more, wider, e)
  <2>1. PICK old \in 1 .. e.to - 1 : pages[old].sha = pages[e.from].sha
    BY <1>4 DEF SoundEdge
  <2>2. old \in 1 .. Len(pages)
    BY <1>4, <2>1 DEF SoundEdge
  <2> QED
    BY <1>1, <1>4, <2>1, <2>2 DEF SoundEdge
<1> QED
  BY <1>1, <1>2, <1>3, <1>4 DEF Faithful, Within

\* A process that has just started remembers nothing, which is true.
LEMMA EmptyIsFaithful ==
    ASSUME NEW pages, NEW gaps
    PROVE  Faithful(pages, gaps, EmptyMemory, <<>>)
<1>1. IsASeq(<<>>) /\ Len(<<>>) = 0 /\ ToSet(<<>>) = {}
  BY DEF IsASeq, ToSet
<1>2. LastOf(<<>>, <<>>)
  BY <1>1 DEF LastOf
<1> QED
  BY <1>1, <1>2 DEF Faithful, Within, EmptyMemory

\* What is left of a sequence when its first elements are dropped.
EndOf(some, s) ==
    \E d \in 0 .. Len(s) :
       /\ Len(some) = Len(s) - d
       /\ \A i \in 1 .. Len(s) - d : some[i] = s[d + i]

\* Trimming drops the first elements.
LEMMA TrimDrops ==
    ASSUME NEW s, IsASeq(s), NEW n \in Int
    PROVE  /\ IsASeq(Trim(s, n)) /\ ToSet(Trim(s, n)) \subseteq ToSet(s)
           /\ EndOf(Trim(s, n), s)
<1>1. PICK S : s \in Seq(S)
  BY DEF IsASeq
<1>2. CASE n <= 0 \/ Len(s) <= n
  <2>1. Trim(s, n) = s
    BY <1>2 DEF Trim
  <2>2. 0 \in 0 .. Len(s) /\ Len(s) = Len(s) - 0 /\ \A i \in 1 .. Len(s) - 0 : s[i] = s[0 + i]
    BY <1>1
  <2> QED
    BY <2>1, <2>2 DEF EndOf
<1>3. CASE n > 0 /\ Len(s) > n
  <2> DEFINE d == Len(s) - n
             t == SubSeq(s, d + 1, Len(s))
  <2>1. Trim(s, n) = t
    BY <1>1, <1>3 DEF Trim
  <2>2. d \in 0 .. Len(s) /\ Len(s) \in Nat
    BY <1>1, <1>3
  <2>3. t \in Seq(S) /\ Len(t) = Len(s) - d /\ \A i \in 1 .. Len(s) - d : t[i] = s[d + i]
    BY <1>1, <2>2
  <2> HIDE DEF d, t
  <2>4. ToSet(t) \subseteq ToSet(s)
    <3>1. DOMAIN t = 1 .. Len(s) - d /\ DOMAIN s = 1 .. Len(s)
      BY <1>1, <2>3
    <3>2. ASSUME NEW i \in 1 .. Len(s) - d PROVE t[i] \in ToSet(s)
      <4>1. d + i \in 1 .. Len(s)
        BY <2>2
      <4> QED
        BY <2>3, <3>1, <4>1 DEF ToSet
    <3> QED
      BY <3>1, <3>2 DEF ToSet
  <2> QED
    BY <2>1, <2>2, <2>3, <2>4 DEF IsASeq, EndOf
<1> QED
  BY <1>1, <1>2, <1>3

\* A window that gets one more, and is trimmed.
LEMMA LastOfApplied ==
    ASSUME NEW rows, NEW all, IsASeq(all), LastOf(rows, all), NEW row, NEW n \in Int
    PROVE  /\ LastOf(Trim(Append(rows, row), n), Append(all, row.id))
           /\ ToSet(Trim(Append(rows, row), n)) \subseteq ToSet(rows) \cup {row}
<1> DEFINE longer == Append(rows, row)
           then == Append(all, row.id)
<1>1. PICK d \in 0 .. Len(all) :
         Len(rows) = Len(all) - d /\ \A i \in 1 .. Len(rows) : rows[i].id = all[d + i]
  BY DEF LastOf
<1>2. /\ IsASeq(rows) /\ Len(rows) \in Nat /\ Len(all) \in Nat
      /\ IsASeq(longer) /\ Len(longer) = Len(rows) + 1 /\ Len(then) = Len(all) + 1
      /\ \A i \in 1 .. Len(rows) : longer[i] = rows[i]
      /\ \A i \in 1 .. Len(all) : then[i] = all[i]
      /\ longer[Len(rows) + 1] = row /\ then[Len(all) + 1] = row.id
  <2>1. IsASeq(rows) /\ IsASeq(all)
    BY DEF LastOf
  <2>2. Len(longer) = Len(rows) + 1 /\ Len(then) = Len(all) + 1
    BY <2>1 DEF IsASeq
  <2> HIDE DEF longer, then
  <2>3. /\ Len(rows) \in Nat /\ IsASeq(longer) /\ longer[Len(rows) + 1] = row
        /\ \A i \in 1 .. Len(rows) : longer[i] = rows[i]
    BY <2>1, Appended DEF longer
  <2>4. /\ Len(all) \in Nat /\ then[Len(all) + 1] = row.id
        /\ \A i \in 1 .. Len(all) : then[i] = all[i]
    BY <2>1, Appended DEF then
  <2> QED
    BY <2>1, <2>2, <2>3, <2>4
<1>3. ToSet(longer) = ToSet(rows) \cup {row}
  BY <1>2, ElementsAppended
<1> HIDE DEF longer, then
<1>4. \A i \in 1 .. Len(longer) : longer[i].id = then[d + i]
  <2> SUFFICES ASSUME NEW i \in 1 .. Len(longer) PROVE longer[i].id = then[d + i]
    OBVIOUS
  <2>1. CASE i <= Len(rows)
    <3>1. i \in 1 .. Len(rows) /\ d + i \in 1 .. Len(all)
      BY <1>1, <1>2, <2>1
    <3> QED
      BY <1>1, <1>2, <3>1
  <2>2. CASE i = Len(rows) + 1
    <3>1. d + i = Len(all) + 1
      BY <1>1, <1>2, <2>2
    <3> QED
      BY <1>2, <2>2, <3>1
  <2> QED
    BY <1>2, <2>1, <2>2
<1>5. PICK c \in 0 .. Len(longer) :
         /\ Len(Trim(longer, n)) = Len(longer) - c
         /\ \A i \in 1 .. Len(longer) - c : Trim(longer, n)[i] = longer[c + i]
  <2>1. EndOf(Trim(longer, n), longer)
    BY <1>2, TrimDrops
  <2> QED
    BY <2>1 DEF EndOf
<1>6. IsASeq(Trim(longer, n)) /\ ToSet(Trim(longer, n)) \subseteq ToSet(longer)
  BY <1>2, TrimDrops
<1> DEFINE t == Trim(longer, n)
<1> HIDE DEF t
<1>7. /\ d + c \in 0 .. Len(then)
      /\ Len(t) = Len(then) - (d + c)
      /\ Len(t) = Len(longer) - c
  BY <1>1, <1>2, <1>5 DEF t
<1>8. ASSUME NEW i \in 1 .. Len(t) PROVE t[i].id = then[(d + c) + i]
  <2>1. c + i \in 1 .. Len(longer) /\ d + (c + i) = (d + c) + i /\ i \in 1 .. Len(longer) - c
    BY <1>1, <1>2, <1>5, <1>7
  <2>2. t[i] = longer[c + i]
    BY <1>5, <2>1 DEF t
  <2>3. longer[c + i].id = then[d + (c + i)]
    BY <1>4, <2>1
  <2> QED
    BY <2>1, <2>2, <2>3
<1>9. LastOf(t, then)
  BY <1>6, <1>7, <1>8 DEF LastOf, t
<1> QED
  BY <1>3, <1>6, <1>9 DEF t, longer, then

\* What came in order with one more came in order without it, and before it.
LEMMA SortedLonger ==
    ASSUME NEW all, NEW bound \in Nat, Within(all, bound), NEW id \in 1 .. bound,
           Sorted(Append(all, id))
    PROVE  Sorted(all) /\ \A i \in 1 .. Len(all) : all[i] < id
<1> DEFINE longer == Append(all, id)
           n == Len(all)
<1>1. /\ n \in Nat /\ longer[n + 1] = id
      /\ \A i \in 1 .. n : longer[i] = all[i]
  BY Appended DEF Within
<1>2. Len(longer) = n + 1
  BY DEF IsASeq, Within
<1> HIDE DEF longer, n
<1>3. \A i \in 1 .. n + 1 - 1 : longer[i] < longer[i + 1]
  BY <1>1, <1>2 DEF Sorted, longer
<1>4. \A i \in 1 .. n + 1 : longer[i] \in Nat
  BY <1>1 DEF n, Within
<1>5. \A i, j \in 1 .. n + 1 : i < j => longer[i] < longer[j]
  <2> DEFINE m == n + 1
  <2>1. m \in Nat /\ (\A i \in 1 .. m : longer[i] \in Nat) /\ \A i \in 1 .. m - 1 : longer[i] < longer[i + 1]
    BY <1>1, <1>3, <1>4
  <2> HIDE DEF m
  <2>2. \A i, j \in 1 .. m : i < j => longer[i] < longer[j]
    BY ONLY <2>1, Increasing
  <2> QED
    BY <2>2 DEF m
<1>6. \A i \in 1 .. n - 1 : all[i] < all[i + 1]
  BY <1>1, <1>3
<1>7. ASSUME NEW i \in 1 .. n PROVE all[i] < id
  <2>1. i \in 1 .. n + 1 /\ n + 1 \in 1 .. n + 1 /\ i < n + 1
    BY <1>1
  <2> QED
    BY <1>1, <1>5, <2>1
<1> QED
  BY <1>6, <1>7 DEF Sorted, n

\* Rows with growing ids.
Ascending(rows) ==
    /\ IsASeq(rows) /\ Len(rows) \in Nat
    /\ \A i \in 1 .. Len(rows) : rows[i].id \in Nat
    /\ \A i, j \in 1 .. Len(rows) : i < j => rows[i].id < rows[j].id

\* A window of what was applied in the order of the page is in the order of the page.
LEMMA OrderedWindow ==
    ASSUME NEW all, NEW bound \in Nat, Within(all, bound), Sorted(all), NEW rows, LastOf(rows, all)
    PROVE  Ascending(rows) /\ Ids(rows) \subseteq ToSet(all) /\ Ids(rows) \subseteq 1 .. bound
<1>1. Len(all) \in Nat /\ IsASeq(rows) /\ Len(rows) \in Nat
  BY DEF IsASeq, LastOf, Within
<1>2. \A i, j \in 1 .. Len(all) : i < j => all[i] < all[j]
  <2>1. \A i \in 1 .. Len(all) : all[i] \in Nat
    BY DEF Within
  <2> QED
    BY <1>1, <2>1, Increasing DEF Sorted
<1>3. PICK d \in 0 .. Len(all) :
         Len(rows) = Len(all) - d /\ \A i \in 1 .. Len(rows) : rows[i].id = all[d + i]
  BY DEF LastOf
<1>4. \A i \in 1 .. Len(rows) : d + i \in 1 .. Len(all) /\ rows[i].id = all[d + i]
  BY <1>1, <1>3
<1>5. ASSUME NEW i \in 1 .. Len(rows), NEW j \in 1 .. Len(rows), i < j
      PROVE  rows[i].id < rows[j].id
  <2>1. d + i < d + j
    BY <1>1, <1>3, <1>5
  <2> QED
    BY <1>2, <1>4, <2>1
<1>6. \A l \in 1 .. Len(all) : all[l] \in 1 .. bound /\ all[l] \in ToSet(all)
  BY <1>1 DEF Within, IsASeq, ToSet
<1>7. ASSUME NEW i \in 1 .. Len(rows)
      PROVE  rows[i].id \in Nat /\ rows[i].id \in 1 .. bound /\ rows[i].id \in ToSet(all)
  BY <1>4, <1>6
<1>8. DOMAIN rows = 1 .. Len(rows)
  BY <1>1, Appended
<1> QED
  BY <1>1, <1>5, <1>7, <1>8 DEF Ascending, Ids

\* What is applied last is newer than the whole window.
LEMMA WindowBefore ==
    ASSUME NEW all, IsASeq(all), NEW id, \A i \in 1 .. Len(all) : all[i] < id,
           NEW rows, Ascending(rows), Ids(rows) \subseteq ToSet(all)
    PROVE  \A i \in 1 .. Len(rows) : rows[i].id < id
<1>1. DOMAIN all = 1 .. Len(all) /\ DOMAIN rows = 1 .. Len(rows)
  BY Appended DEF Ascending
<1>2. \A x \in ToSet(all) : x < id
  BY <1>1 DEF ToSet
<1> QED
  BY <1>1, <1>2 DEF Ids

\* The edges of an edit are sound when its revision is newer than all those remembered.
LEMMA NewEdgesSound ==
    ASSUME NEW pages, NEW gaps, NEW revisions, NEW rev, Len(pages) \in Nat,
           History(pages), Chronicle(revisions), Given(pages, gaps, rev),
           \A i \in 1 .. Len(revisions) :
              Given(pages, gaps, revisions[i]) /\ revisions[i].id < rev.id,
           NEW x \in EdgesOf(rev, revisions)
    PROVE  SoundEdge(pages, gaps, x)
<1>1. PICK older \in Undone(rev, revisions) :
         /\ older.user # rev.user
         /\ x = [fromUser |-> rev.user, toUser |-> older.user, from |-> rev.id, to |-> older.id,
                 time |-> rev.time]
  BY DEF EdgesOf
<1>2. /\ x.fromUser = rev.user /\ x.toUser = older.user /\ x.from = rev.id /\ x.to = older.id
  BY <1>1
<1> DEFINE same == SameContent(rev, revisions)
<1>3. /\ rev.sha # NoSha /\ same # {}
      /\ \E k \in 1 .. Len(revisions) : older = revisions[k] /\ \A i \in same : i < k
  BY DEF Undone
<1>4. PICK k \in 1 .. Len(revisions) : older = revisions[k] /\ \A i \in same : i < k
  BY <1>3
<1>5. PICK i \in same : i < k
  BY <1>3, <1>4
<1>6. i \in 1 .. Len(revisions) /\ revisions[i].sha # NoSha /\ revisions[i].sha = rev.sha
  BY DEF SameContent
<1>7. Len(revisions) \in Nat /\ k \notin same
  BY <1>4 DEF Chronicle, IsASeq
<1>8. revisions[k].sha = NoSha \/ revisions[k].sha # rev.sha
  BY <1>7 DEF SameContent
<1> HIDE DEF same
<1>9. /\ revisions[i].id < revisions[k].id /\ revisions[k].id < rev.id
      /\ revisions[i].id \in 1 .. Len(pages) /\ revisions[k].id \in 1 .. Len(pages)
      /\ rev.id \in 1 .. Len(pages)
  BY <1>5, <1>6 DEF Chronicle, Given
<1>10. /\ pages[revisions[i].id].sha = rev.sha /\ pages[rev.id].sha = rev.sha
  BY <1>3, <1>6 DEF Given
<1>11. revisions[i].id \in 1 .. older.id - 1
  BY <1>4, <1>9
<1>12. pages[older.id].sha = rev.sha => older.id \in gaps
  BY <1>3, <1>4, <1>8 DEF Given
<1>13. pages[rev.id].user = rev.user /\ pages[older.id].user = older.user
  BY <1>4 DEF Given
<1> HIDE DEF Given, History, Chronicle
<1> QED
  BY <1>1, <1>2, <1>4, <1>9, <1>10, <1>11, <1>12, <1>13 DEF SoundEdge

\* What is in two sequences put one after the other.
LEMMA ElementsJoined ==
    ASSUME NEW s, NEW t, IsASeq(s), IsASeq(t)
    PROVE  IsASeq(s \o t) /\ ToSet(s \o t) \subseteq ToSet(s) \cup ToSet(t)
<1>1. PICK S : s \in Seq(S)
  BY DEF IsASeq
<1>2. PICK T : t \in Seq(T)
  BY DEF IsASeq
<1>3. s \in Seq(S \cup T) /\ t \in Seq(S \cup T)
  BY <1>1, <1>2
<1>4. /\ s \o t \in Seq(S \cup T) /\ Len(s \o t) = Len(s) + Len(t)
      /\ \A i \in 1 .. Len(s \o t) : (s \o t)[i] = IF i <= Len(s) THEN s[i] ELSE t[i - Len(s)]
  BY <1>3
<1>5. Len(s) \in Nat /\ Len(t) \in Nat /\ DOMAIN s = 1 .. Len(s) /\ DOMAIN t = 1 .. Len(t)
  BY <1>1, <1>2
<1>6. DOMAIN (s \o t) = 1 .. Len(s) + Len(t)
  BY <1>4
<1> DEFINE u == s \o t
<1> HIDE DEF u
<1>7. ASSUME NEW i \in 1 .. Len(s) + Len(t) PROVE u[i] \in ToSet(s) \cup ToSet(t)
  <2>1. CASE i <= Len(s)
    BY <1>4, <1>5, <2>1 DEF ToSet, u
  <2>2. CASE i > Len(s)
    <3>1. i - Len(s) \in 1 .. Len(t) /\ u[i] = t[i - Len(s)]
      BY <1>4, <1>5, <2>2 DEF u
    <3> QED
      BY <1>5, <3>1 DEF ToSet
  <2> QED
    BY <1>5, <2>1, <2>2
<1> QED
  BY <1>4, <1>6, <1>7 DEF ToSet, IsASeq, u

\* Applying an edit classified against a faithful memory leaves it faithful.
LEMMA FaithfulApplied ==
    ASSUME NEW pages, NEW gaps, NEW mem, NEW all, Len(pages) \in Nat,
           History(pages), Faithful(pages, gaps, mem, all),
           NEW rev, Given(pages, gaps, rev), NEW edit, edit = Classify(rev, mem)
    PROVE  Faithful(pages, gaps, Apply(mem, rev, edit), Append(all, rev.id))
<1> DEFINE then == Append(all, rev.id)
           new == Apply(mem, rev, edit)
           edges == NewEdges(edit, mem.revisions)
<1>1. /\ new.edits = Trim(Append(mem.edits, edit), RecentEditWindow)
      /\ new.edges = Trim(mem.edges \o edges, RecentEditWindow)
      /\ new.revisions = Trim(Append(mem.revisions, rev), RecentRevisionWindow)
  BY DEF Apply
<1>2. edit.id = rev.id /\ edit.user = rev.user /\ edit.time = rev.time
  BY DEF Classify
<1>3. rev.id \in 1 .. Len(pages) /\ GivenEdit(pages, edit)
  BY <1>2 DEF Given, GivenEdit
<1>4. Within(all, Len(pages)) /\ IsASeq(all)
  BY DEF Faithful, Within
<1>5. /\ LastOf(mem.revisions, all) /\ LastOf(mem.edits, all)
      /\ \A r \in ToSet(mem.revisions) : Given(pages, gaps, r)
      /\ \A e \in ToSet(mem.edits) : GivenEdit(pages, e)
  BY DEF Faithful
<1>6. Sorted(all) => /\ IsASeq(mem.edges)
                     /\ \A x \in ToSet(mem.edges) : SoundEdge(pages, gaps, x)
  BY DEF Faithful
<1> HIDE DEF new, edges
<1>7. Within(then, Len(pages))
  <2>1. /\ Len(all) \in Nat /\ IsASeq(then) /\ then[Len(all) + 1] = rev.id
        /\ \A i \in 1 .. Len(all) : then[i] = all[i]
    BY <1>4, Appended
  <2>2. Len(then) = Len(all) + 1
    BY <1>4 DEF IsASeq
  <2> HIDE DEF then
  <2> QED
    BY <1>3, <1>4, <2>1, <2>2 DEF Within
<1>8. LastOf(new.revisions, then) /\ ToSet(new.revisions) \subseteq ToSet(mem.revisions) \cup {rev}
  BY <1>1, <1>4, <1>5, WindowAssumption, LastOfApplied
<1>9. LastOf(new.edits, then) /\ ToSet(new.edits) \subseteq ToSet(mem.edits) \cup {edit}
  BY <1>1, <1>2, <1>4, <1>5, WindowAssumption, LastOfApplied
<1>10. ASSUME Sorted(then)
       PROVE  IsASeq(new.edges) /\ \A x \in ToSet(new.edges) : SoundEdge(pages, gaps, x)
  <2> DEFINE revisions == mem.revisions
  <2>1. Sorted(all) /\ \A i \in 1 .. Len(all) : all[i] < rev.id
    BY <1>3, <1>4, <1>10, SortedLonger
  <2>2. Ascending(revisions) /\ Ids(revisions) \subseteq ToSet(all)
    BY <1>4, <1>5, <2>1, OrderedWindow
  <2> HIDE DEF revisions
  <2>3. \A i \in 1 .. Len(revisions) : Given(pages, gaps, revisions[i])
    <3>1. DOMAIN revisions = 1 .. Len(revisions)
      BY <2>2, Appended DEF Ascending
    <3> QED
      BY <1>5, <3>1 DEF ToSet, revisions
  <2>4. \A i \in 1 .. Len(revisions) : revisions[i].time = revisions[i].id
    BY <2>3 DEF Given, History
  <2>5. \A i \in 1 .. Len(revisions) : revisions[i].id < rev.id
    BY <1>4, <2>1, <2>2, WindowBefore
  <2>6. Chronicle(revisions) /\ \A i \in 1 .. Len(revisions) : revisions[i].id # rev.id
    BY <1>3, <2>2, <2>4, <2>5 DEF Chronicle, Ascending
  <2>7. IsASeq(edges) /\ ToSet(edges) \subseteq EdgesOf(rev, revisions)
    BY <2>6, NewEdgesFound DEF edges, revisions
  <2>8. \A x \in EdgesOf(rev, revisions) : SoundEdge(pages, gaps, x)
    BY <2>3, <2>5, <2>6, NewEdgesSound
  <2>9. /\ IsASeq(mem.edges \o edges)
        /\ ToSet(mem.edges \o edges) \subseteq ToSet(mem.edges) \cup ToSet(edges)
    BY <1>6, <2>1, <2>7, ElementsJoined
  <2>10. IsASeq(new.edges) /\ ToSet(new.edges) \subseteq ToSet(mem.edges \o edges)
    BY <1>1, <2>9, WindowAssumption, TrimDrops
  <2> QED
    BY <1>6, <2>1, <2>7, <2>8, <2>9, <2>10
<1> HIDE DEF then
<1> QED
  BY <1>3, <1>5, <1>7, <1>8, <1>9, <1>10 DEF Faithful, then, new

---------------------------------------------------------------------------
\* Every memory is faithful to the page, and so is the revision about to be applied.
MemoryTrue(p) ==
    /\ Faithful(page, unfetched[p], memory[p], applied[p])
    /\ stage[p] = "apply" => Given(page, unfetched[p], revision[p])

MemoriesTrue ==
    History(page) /\ DOMAIN unfetched = Processes /\ \A p \in Processes : MemoryTrue(p)

\* The page only grows, by revisions that have a content.
LEMMA PageKept ==
    ASSUME Types, History(page), [Next]_vars
    PROVE  /\ Len(page) \in Nat /\ Len(page') \in Nat /\ Len(page) <= Len(page')
           /\ \A i \in 1 .. Len(page) : page'[i] = page[i]
           /\ History(page')
<1>1. IsASeq(page) /\ Len(page) \in Nat
  BY DEF Types, IsASeq
<1>2. CASE page' = page
  BY <1>1, <1>2
<1>3. ASSUME NEW u \in Users, NEW s \in Shas, NEW signals \in SignalSets,
             SaveRevision(u, s, signals)
      PROVE  /\ Len(page') \in Nat /\ Len(page) <= Len(page')
             /\ \A i \in 1 .. Len(page) : page'[i] = page[i]
             /\ History(page')
  <2> DEFINE n == Len(page)
             new == [id |-> n + 1, user |-> u, sha |-> s, time |-> n + 1, signals |-> signals]
  <2>1. page' = Append(page, new)
    BY <1>3 DEF SaveRevision
  <2>2. new.time = n + 1 /\ new.sha # NoSha
    BY NoShaAssumption
  <2> HIDE DEF new
  <2>3. /\ n \in Nat /\ IsASeq(page') /\ page'[n + 1] = new
        /\ \A i \in 1 .. n : page'[i] = page[i]
    BY <1>1, <2>1, Appended
  <2>4. Len(page') = n + 1
    BY <1>1, <2>1 DEF IsASeq
  <2>5. \A i \in 1 .. n : page[i].time = i /\ page[i].sha # NoSha
    BY DEF History
  <2> HIDE DEF n
  <2>6. \A i \in 1 .. n + 1 : page'[i].time = i /\ page'[i].sha # NoSha
    BY <2>2, <2>3, <2>5
  <2> QED
    BY <2>3, <2>4, <2>6 DEF History, n
<1>4. ASSUME NEW id \in 1 .. Len(page), Replay(id) PROVE page' = page
  BY <1>4 DEF Replay
<1>5. ASSUME NEW p \in Processes,
             Consume(p) \/ Handle(p) \/ CommitOffset(p) \/ Membership(p) \/ Die(p)
      PROVE  page' = page
  BY <1>5, HandlerFrames DEF Consume, Handle, CommitOffset, Membership
<1>6. \/ \E u \in Users, s \in Shas, signals \in SignalSets : SaveRevision(u, s, signals)
      \/ page' = page
  BY <1>4, <1>5 DEF Next, Upstream, vars
<1> QED
  BY <1>1, <1>2, <1>3, <1>6

\* A memory that nobody touches.
LEMMA MemoryKept ==
    ASSUME Types, MemoriesTrue, [Next]_vars, NEW p \in Processes,
           UNCHANGED <<memory[p], applied[p]>>, unfetched[p] \subseteq unfetched'[p],
           stage'[p] = "apply" =>
              \/ stage[p] = "apply" /\ revision'[p] = revision[p]
              \/ Given(page', unfetched'[p], revision'[p])
    PROVE  MemoryTrue(p)'
<1> DEFINE before == page
           after == page'
           old == unfetched[p]
           new == unfetched'[p]
<1>1. /\ Len(before) \in Nat /\ Len(after) \in Nat /\ Len(before) <= Len(after)
      /\ \A i \in 1 .. Len(before) : after[i] = before[i]
  BY PageKept DEF MemoriesTrue
<1>2. MemoryTrue(p)
  BY DEF MemoriesTrue
<1>3. Faithful(after, new, memory[p], applied[p])
  <2>1. Faithful(before, old, memory[p], applied[p])
    BY <1>2 DEF MemoryTrue
  <2> HIDE DEF before, after, old, new
  <2> QED
    BY <1>1, <2>1, StaysFaithful DEF old, new
<1>4. stage[p] = "apply" => Given(after, new, revision[p])
  <2>1. Faithful(before, old, memory[p], applied[p]) /\ (stage[p] = "apply" => Given(before, old, revision[p]))
    BY <1>2 DEF MemoryTrue
  <2> HIDE DEF before, after, old, new
  <2>2. \A r : Given(before, old, r) => Given(after, new, r)
    BY <1>1, <2>1, StaysFaithful DEF old, new
  <2> QED
    BY <2>1, <2>2
<1> QED
  BY <1>3, <1>4 DEF MemoryTrue

\* Only applying and dying touch a memory; the page and what was not fetched only grow.
LEMMA StepMemories ==
  Loop!IInv /\ IInv /\ MemoriesTrue /\ [Next]_vars => MemoriesTrue'
<1> SUFFICES ASSUME Loop!IInv, IInv, MemoriesTrue, [Next]_vars PROVE MemoriesTrue'
  OBVIOUS
<1>1. Types /\ Upstreams /\ InHandler
  BY DEF IInv
<1>2. History(page)'
  BY <1>1, PageKept DEF MemoriesTrue
<1>3. ASSUME NEW p \in Processes, UNCHANGED <<memory, applied, unfetched>>, stage'[p] # "apply"
      PROVE  MemoryTrue(p)'
  BY <1>1, <1>3, MemoryKept
<1>4. CASE UNCHANGED <<memory, applied, unfetched, stage, revision>>
  <2>1. \A q \in Processes : MemoryTrue(q)'
    BY <1>1, <1>4, MemoryKept
  <2> QED
    BY <1>2, <1>4, <2>1 DEF MemoriesTrue
<1>5. ASSUME NEW p \in Processes, UNCHANGED <<memory, applied, unfetched>>,
             \A q \in Processes \ {p} : UNCHANGED <<stage[q], revision[q]>>,
             stage'[p] # "apply"
      PROVE  MemoriesTrue'
  <2>1. \A q \in Processes \ {p} : MemoryTrue(q)'
    BY <1>1, <1>5, MemoryKept
  <2>2. MemoryTrue(p)'
    BY <1>3, <1>5
  <2> QED
    BY <1>2, <1>5, <2>1, <2>2 DEF MemoriesTrue
<1>6. CASE Upstream \/ UNCHANGED vars
  BY <1>4, <1>6 DEF Upstream, SaveRevision, Replay, vars, handlerVars, stateVars
<1>7. ASSUME NEW p \in Processes, Consume(p) \/ Save(p) PROVE MemoriesTrue'
  BY <1>1, <1>5, <1>7 DEF Consume, Save, Goto, stateVars, Types
<1>8. ASSUME NEW p \in Processes, SaveThrows(p) \/ Publish(p) \/ PublishThrows(p)
      PROVE  MemoriesTrue'
  BY <1>1, <1>5, <1>8 DEF SaveThrows, Publish, PublishThrows, Leave, Goto, stateVars, Types
<1>9. ASSUME NEW p \in Processes, CommitOffset(p) \/ Membership(p) PROVE MemoriesTrue'
  BY <1>4, <1>9 DEF CommitOffset, Membership, handlerVars, stateVars
<1>10. ASSUME NEW p \in Processes, ResolveRevision(p) \/ ResolveFallsBack(p)
       PROVE  MemoriesTrue'
  <2>1. /\ UNCHANGED <<page, memory, applied>> /\ stage[p] = "resolve"
        /\ \A q \in Processes \ {p} : UNCHANGED <<stage[q], revision[q], unfetched[q]>>
        /\ DOMAIN unfetched' = Processes /\ unfetched[p] \subseteq unfetched'[p]
    BY <1>1, <1>10 DEF ResolveRevision, ResolveFallsBack, Goto, stateVars, Types, MemoriesTrue
  <2> DEFINE raw == RawEdit(p)
  <2>2. raw = page[raw.id] /\ raw.id \in 1 .. Len(page)
    BY <1>1, <2>1, RecordInHand DEF RawEdit
  <2>3. \/ revision'[p] = raw
        \/ revision'[p] = [raw EXCEPT !.sha = NoSha] /\ raw.id \in unfetched'[p]
    BY <1>1, <1>10 DEF ResolveRevision, ResolveFallsBack, Types, MemoriesTrue
  <2>4. raw \in Page
    BY <1>1, <2>2 DEF Types
  <2> HIDE DEF raw
  <2>5. Given(page, unfetched'[p], revision'[p])
    <3>1. CASE revision'[p] = raw
      BY <2>2, <3>1 DEF Given
    <3>2. CASE revision'[p] = [raw EXCEPT !.sha = NoSha] /\ raw.id \in unfetched'[p]
      BY <2>2, <2>4, <3>2 DEF Given, Page
    <3> QED
      BY <2>3, <3>1, <3>2
  <2>6. MemoryTrue(p)'
    BY <1>1, <2>1, <2>5, MemoryKept
  <2>7. \A q \in Processes \ {p} : MemoryTrue(q)'
    BY <1>1, <2>1, MemoryKept
  <2> QED
    BY <1>2, <2>1, <2>6, <2>7 DEF MemoriesTrue
<1>11. ASSUME NEW p \in Processes, ClassifyAndApply(p) PROVE MemoriesTrue'
  <2> DEFINE rev == revision[p]
             edit == Classify(rev, memory[p])
  <2>1. /\ UNCHANGED <<page, unfetched, revision>> /\ stage[p] = "apply" /\ stage'[p] = "save"
        /\ memory' = [memory EXCEPT ![p] = Apply(memory[p], rev, edit)]
        /\ applied' = [applied EXCEPT ![p] = Append(applied[p], rev.id)]
        /\ \A q \in Processes \ {p} : stage'[q] = stage[q]
    BY <1>1, <1>11 DEF ClassifyAndApply, Goto, Types
  <2>2. \A q \in Processes \ {p} : UNCHANGED <<memory[q], applied[q], stage[q]>>
    BY <1>1, <2>1 DEF Types
  <2>3. \A q \in Processes \ {p} : MemoryTrue(q)'
    BY <1>1, <2>1, <2>2, MemoryKept
  <2>4. memory'[p] = Apply(memory[p], rev, edit) /\ applied'[p] = Append(applied[p], rev.id)
    BY <1>1, <2>1 DEF Types
  <2>5. /\ History(page) /\ Faithful(page, unfetched[p], memory[p], applied[p])
        /\ Given(page, unfetched[p], rev) /\ Len(page) \in Nat
    BY <1>1, <2>1 DEF MemoriesTrue, MemoryTrue, Types
  <2> HIDE DEF rev
  <2>6. Faithful(page, unfetched[p], Apply(memory[p], rev, edit), Append(applied[p], rev.id))
    BY <2>5, FaithfulApplied
  <2> HIDE DEF edit
  <2>7. MemoryTrue(p)'
    BY <2>1, <2>4, <2>6 DEF MemoryTrue
  <2> QED
    BY <1>2, <2>1, <2>3, <2>7 DEF MemoriesTrue
<1>12. ASSUME NEW p \in Processes, Die(p) PROVE MemoriesTrue'
  <2>1. /\ memory' = [memory EXCEPT ![p] = EmptyMemory]
        /\ applied' = [applied EXCEPT ![p] = <<>>]
        /\ unfetched' = [unfetched EXCEPT ![p] = {}]
    BY <1>12 DEF Die
  <2>2. /\ \A q \in Processes \ {p} : UNCHANGED <<memory[q], applied[q], unfetched[q], stage[q], revision[q]>>
        /\ DOMAIN unfetched' = Processes /\ stage'[p] # "apply"
        /\ memory'[p] = EmptyMemory /\ applied'[p] = <<>>
    BY <1>1, <1>12, <2>1 DEF Die, Leave, Goto, Types, MemoriesTrue
  <2>3. \A q \in Processes \ {p} : MemoryTrue(q)'
    BY <1>1, <2>2, MemoryKept
  <2>4. MemoryTrue(p)'
    BY <2>2, EmptyIsFaithful DEF MemoryTrue
  <2> QED
    BY <1>2, <2>2, <2>3, <2>4 DEF MemoriesTrue
<1>13. \/ Upstream \/ UNCHANGED vars
       \/ \E p \in Processes :
            \/ Consume(p) \/ Save(p)
            \/ SaveThrows(p) \/ Publish(p) \/ PublishThrows(p)
            \/ CommitOffset(p) \/ Membership(p)
            \/ ResolveRevision(p) \/ ResolveFallsBack(p)
            \/ ClassifyAndApply(p)
            \/ Die(p)
  BY DEF Next, Handle
<1> QED
  BY <1>6, <1>7, <1>8, <1>9, <1>10, <1>11, <1>12, <1>13

LEMMA InitMemories == Init => MemoriesTrue
<1>1. Init => History(page)
  BY DEF Init, History, IsASeq
<1> QED
  BY <1>1, EmptyIsFaithful DEF Init, MemoriesTrue, MemoryTrue

\* However its processes fail and whatever they were not given, what each of them
\* remembers is of the page, and all its edges are true as long as it applied its edits
\* in the order of the page.
THEOREM MemoriesFaithful == Spec => []MemoriesTrue
BY InitMemories, StepMemories, Inductive, PTL DEF Spec

\* As long as a process applied its edits in page order, once each, every edge it
\* remembers is true of the page, whatever the windows and the gaps.
THEOREM RevertEdgesTrue == Spec => []RevertEdgesSound
<1>1. ASSUME MemoriesTrue PROVE RevertEdgesSound
  <2> SUFFICES ASSUME NEW p \in Processes, InOrder(p), NEW i \in DOMAIN memory[p].edges
               PROVE  EdgeSound(p, memory[p].edges[i])
    BY DEF RevertEdgesSound
  <2> DEFINE e == memory[p].edges[i]
  <2>1. SoundEdge(page, unfetched[p], e)
    <3>1. e \in ToSet(memory[p].edges)
      BY DEF ToSet
    <3> QED
      BY <1>1, <3>1 DEF MemoriesTrue, MemoryTrue, Faithful, Sorted, InOrder
  <2> HIDE DEF e
  <2>2. EdgeSound(p, e)
    BY <2>1 DEF SoundEdge, EdgeSound, Undid
  <2> QED
    BY <2>2 DEF e
<1> QED
  BY <1>1, MemoriesFaithful, PTL

\* Every claim of a cluster is an edge.
LEMMA ClustersAreEdges ==
    ASSUME NEW edges, IsASeq(edges), NEW c \in ToSet(Infer(edges)), NEW u \in c.users,
           NEW v \in c.target
    PROVE  \E i \in DOMAIN edges : edges[i].fromUser = u /\ edges[i].toUser = v
<1> DEFINE Reversed(e) == \E k \in DOMAIN edges :
                             edges[k].fromUser = e.toUser /\ edges[k].toUser = e.fromUser
           Reverting(t) ==
              {edges[i].fromUser : i \in {k \in DOMAIN edges : edges[k].toUser = t}}
           mutual == SelectInSeq(edges, Reversed)
           common == SelectInSeq(edges, LAMBDA e : Cardinality(Reverting(e.toUser)) >= 2)
           a == edges[mutual].fromUser
           b == edges[mutual].toUser
           target == edges[common].toUser
           sides == IF mutual = 0
                    THEN <<>>
                    ELSE <<[users |-> {a}, target |-> {b}], [users |-> {b}, target |-> {a}]>>
           joint == IF common = 0
                    THEN <<>>
                    ELSE <<[users |-> Reverting(target), target |-> {target}]>>
<1>1. Infer(edges) = IF Len(edges) < 2 THEN <<>> ELSE sides \o joint
  BY DEF Infer
<1>2. Len(edges) \in Nat /\ DOMAIN edges = 1 .. Len(edges)
  BY Appended
<1>3. mutual # 0 => mutual \in DOMAIN edges /\ Reversed(edges[mutual])
  <2> DEFINE found == {i \in 1 .. Len(edges) : Reversed(edges[i])}
  <2>1. mutual = IF found # {} THEN Min(found) ELSE 0
    BY DEF SelectInSeq
  <2> HIDE DEF mutual, Reversed
  <2>2. found # {} => Min(found) \in found
    BY <1>2, Smallest
  <2> QED
    BY <1>2, <2>1, <2>2
<1> HIDE DEF mutual, common
<1>4. ASSUME NEW e \in ToSet(sides), NEW x \in e.users, NEW y \in e.target
      PROVE  \E i \in DOMAIN edges : edges[i].fromUser = x /\ edges[i].toUser = y
  <2>1. mutual # 0 /\ e \in {[users |-> {a}, target |-> {b}], [users |-> {b}, target |-> {a}]}
    BY <1>4 DEF ToSet
  <2>2. \/ x = a /\ y = b
        \/ x = b /\ y = a
    <3> HIDE DEF a, b
    <3>1. CASE e = [users |-> {a}, target |-> {b}]
      BY <1>4, <3>1
    <3>2. CASE e = [users |-> {b}, target |-> {a}]
      BY <1>4, <3>2
    <3> QED
      BY <2>1, <3>1, <3>2
  <2> QED
    BY <1>3, <2>1, <2>2
<1>5. ASSUME NEW e \in ToSet(joint), NEW x \in e.users, NEW y \in e.target
      PROVE  \E i \in DOMAIN edges : edges[i].fromUser = x /\ edges[i].toUser = y
  <2>1. e = [users |-> Reverting(target), target |-> {target}]
    <3> DEFINE j == [users |-> Reverting(target), target |-> {target}]
    <3>1. joint = <<>> \/ joint = <<j>>
      OBVIOUS
    <3> HIDE DEF joint, j
    <3>2. e = j
      BY <1>5, <3>1 DEF ToSet
    <3> QED
      BY <3>2 DEF j
  <2>2. x \in Reverting(target) /\ y = target
    BY <1>5, <2>1
  <2> QED
    BY <2>2
<1>6. IsASeq(sides) /\ IsASeq(joint)
  <2> DEFINE s == [users |-> {a}, target |-> {b}]
             t == [users |-> {b}, target |-> {a}]
             j == [users |-> Reverting(target), target |-> {target}]
  <2> HIDE DEF s, t, j, Reverting, a, b, target
  <2>1. <<>> \in Seq({}) /\ <<s, t>> \in Seq({s, t}) /\ <<j>> \in Seq({j})
    OBVIOUS
  <2> QED
    BY <2>1 DEF IsASeq, s, t, j
<1>7. c \in ToSet(sides) \/ c \in ToSet(joint)
  <2> HIDE DEF sides, joint
  <2>1. ToSet(<<>>) = {}
    BY DEF ToSet
  <2> QED
    BY <1>1, <1>6, <2>1, ElementsJoined
<1> HIDE DEF sides, joint
<1> QED
  BY <1>4, <1>5, <1>7

\* Whatever fails, a cluster claims what the page bears out: each of its users undid a
\* revision of its target, as long as the process applied its edits in page order.
THEOREM ClustersTrue == Spec => []ClusterClaimsTrue
<1>1. ASSUME MemoriesTrue PROVE ClusterClaimsTrue
  <2> SUFFICES ASSUME NEW p \in Processes, InOrder(p),
                      NEW c \in ToSet(BuildSnapshot(memory[p]).clusters),
                      NEW u \in c.users, NEW v \in c.target
               PROVE  \E r, s \in DOMAIN page :
                         page[r].user = u /\ page[s].user = v /\ Undid(r, s)
    BY DEF ClusterClaimsTrue
  <2> DEFINE edges == memory[p].edges
  <2>1. c \in ToSet(Infer(edges))
    BY DEF BuildSnapshot
  <2>2. IsASeq(edges) /\ (\A x \in ToSet(edges) : SoundEdge(page, unfetched[p], x)) /\ IsASeq(page)
    BY <1>1 DEF MemoriesTrue, MemoryTrue, Faithful, Sorted, InOrder, History
  <2> HIDE DEF edges
  <2>3. PICK i \in DOMAIN edges : edges[i].fromUser = u /\ edges[i].toUser = v
    BY <2>1, <2>2, ClustersAreEdges
  <2> DEFINE e == edges[i]
  <2>4. SoundEdge(page, unfetched[p], e)
    BY <2>2 DEF ToSet
  <2>5. e.fromUser = u /\ e.toUser = v
    BY <2>3
  <2> HIDE DEF e
  <2>6. DOMAIN page = 1 .. Len(page)
    BY <2>2, Appended
  <2> QED
    BY <2>4, <2>5, <2>6 DEF SoundEdge, Undid
<1> QED
  BY <1>1, MemoriesFaithful, PTL

\* What Where keeps of edits in order is in order.
LEMMA SelectedInOrder ==
    ASSUME NEW seq, Ascending(seq), NEW indices, \A i \in indices : i \in 1 .. Len(seq),
           NEW some, some = Picked(seq, indices)
    PROVE  Ascending(some) /\ ToSet(some) \subseteq {seq[i] : i \in indices}
<1> DEFINE total == Cardinality(indices)
           At(k) == Nth(indices, k)
<1>1. /\ Len(seq) \in Nat /\ \A i \in 1 .. Len(seq) : seq[i].id \in Nat
      /\ \A i, j \in 1 .. Len(seq) : i < j => seq[i].id < seq[j].id
  BY DEF Ascending
<1>2. IsASeq(some) /\ Len(some) = total /\ total \in Nat
  BY <1>1, Selected
<1>3. \A k \in 1 .. total : some[k] = seq[At(k)]
  BY <1>1, Selected
<1>4. /\ \A k \in 1 .. total : At(k) \in indices
      /\ \A k, l \in 1 .. total : k < l => At(k) < At(l)
  BY <1>1, Numbering
<1>5. DOMAIN some = 1 .. Len(some)
  BY <1>2, Appended
<1> HIDE DEF total, At
<1>6. \A k \in 1 .. total : At(k) \in 1 .. Len(seq)
  BY <1>4
<1>7. Ascending(some)
  BY <1>1, <1>2, <1>3, <1>4, <1>6 DEF Ascending
<1>8. ToSet(some) \subseteq {seq[i] : i \in indices}
  BY <1>2, <1>3, <1>4, <1>5 DEF ToSet
<1> QED
  BY <1>7, <1>8

\* The counted reverts of a user are those of the last day.
LEMMA CountedAreReverts ==
    ASSUME NEW edits, Ascending(edits), NEW user, NEW counted, counted = CountedReverts(edits, user)
    PROVE  /\ Ascending(counted)
           /\ ToSet(counted) \subseteq
                 {e \in ToSet(edits) : /\ e.time >= edits[Len(edits)].time - Day
                                      /\ e.action = "ExactRevert" /\ e.user = user}
<1> DEFINE recent == Recent(edits, edits, Day)
           reverts == Having(recent, {"ExactRevert"})
           A == {i \in DOMAIN edits : edits[i].time >= edits[Len(edits)].time - Day}
           B == {i \in DOMAIN recent : recent[i].action \in {"ExactRevert"}}
           C == {i \in DOMAIN reverts : reverts[i].user = user}
<1>1. recent = Picked(edits, A)
  BY DEF Recent, Where
<1>2. reverts = Picked(recent, B)
  BY DEF Having, Where
<1>3. counted = Picked(reverts, C)
  BY DEF CountedReverts, Where
<1> HIDE DEF recent, reverts
<1>4. \A i \in A : i \in 1 .. Len(edits) /\ edits[i] \in ToSet(edits)
  BY Appended DEF Ascending, ToSet
<1>5. Ascending(recent) /\ ToSet(recent) \subseteq {edits[i] : i \in A}
  <2> HIDE DEF A
  <2> QED
    BY <1>1, <1>4, SelectedInOrder
<1>6. \A i \in B : i \in 1 .. Len(recent) /\ recent[i] \in ToSet(recent)
  BY <1>5, Appended DEF Ascending, ToSet
<1>7. Ascending(reverts) /\ ToSet(reverts) \subseteq {recent[i] : i \in B}
  <2> HIDE DEF B
  <2> QED
    BY <1>2, <1>5, <1>6, SelectedInOrder
<1>8. \A i \in C : i \in 1 .. Len(reverts) /\ reverts[i] \in ToSet(reverts)
  BY <1>7, Appended DEF Ascending, ToSet
<1>9. Ascending(counted) /\ ToSet(counted) \subseteq {reverts[i] : i \in C}
  <2> HIDE DEF C
  <2> QED
    BY <1>3, <1>7, <1>8, SelectedInOrder
<1>10. ASSUME NEW e \in ToSet(recent)
       PROVE  e \in ToSet(edits) /\ e.time >= edits[Len(edits)].time - Day
  BY <1>4, <1>5
<1>11. ASSUME NEW e \in ToSet(reverts) PROVE e \in ToSet(recent) /\ e.action = "ExactRevert"
  BY <1>6, <1>7
<1>12. ASSUME NEW e \in ToSet(counted) PROVE e \in ToSet(reverts) /\ e.user = user
  BY <1>8, <1>9
<1> HIDE DEF A, B, C
<1> QED
  BY <1>9, <1>10, <1>11, <1>12

\* Three different elements count as three.
LEMMA ThreeDiffer ==
    ASSUME NEW x, NEW y, NEW z, x # y, y # z, x # z
    PROVE  Cardinality({x, y, z}) = 3
<1>1. IsFiniteSet({}) /\ Cardinality({}) = 0
  BY FS_EmptySet
<1>2. IsFiniteSet({} \cup {x}) /\ Cardinality({} \cup {x}) = 1
  BY <1>1, FS_AddElement
<1>3. IsFiniteSet({x}) /\ Cardinality({x}) = 1
  <2>1. {} \cup {x} = {x}
    OBVIOUS
  <2> QED
    BY <1>2, <2>1
<1>4. IsFiniteSet({x} \cup {y}) /\ Cardinality({x} \cup {y}) = 2
  BY <1>3, FS_AddElement
<1>5. Cardinality(({x} \cup {y}) \cup {z}) = 3
  <2>1. z \notin {x} \cup {y}
    OBVIOUS
  <2> QED
    BY <1>4, <2>1, FS_AddElement
<1>6. ({x} \cup {y}) \cup {z} = {x, y, z}
  OBVIOUS
<1> QED
  BY <1>5, <1>6

\* The three-revert risk is never a false alarm: the reverts counted for a user are
\* three different ones of his, within a day, as long as the process applied its edits
\* in page order.
THEOREM NoFalseAlarm == Spec => []ThreeRevertRiskSound
<1>1. ASSUME IInv, MemoriesTrue PROVE ThreeRevertRiskSound
  <2> SUFFICES ASSUME NEW p \in Processes, InOrder(p), HasThreeRevertRisk(memory[p].edits)
               PROVE  ThreeReverts(memory[p].edits)
    BY DEF ThreeRevertRiskSound
  <2> DEFINE edits == memory[p].edits
             all == applied[p]
             bound == Len(page)
             last == edits[Len(edits)].time
  <2>1. PICK k \in DOMAIN edits : Len(CountedReverts(edits, edits[k].user)) >= 3
    BY DEF HasThreeRevertRisk, ThreeRevertLimit
  <2> DEFINE user == edits[k].user
             counted == CountedReverts(edits, user)
  <2>2. /\ bound \in Nat /\ Within(all, bound) /\ LastOf(edits, all) /\ Sorted(all)
        /\ History(page) /\ \A e \in ToSet(edits) : GivenEdit(page, e)
    <3>1. bound \in Nat
      BY <1>1 DEF IInv, Types
    <3>2. Sorted(all)
      BY DEF Sorted, InOrder
    <3>3. History(page) /\ Faithful(page, unfetched[p], memory[p], all)
      BY <1>1 DEF MemoriesTrue, MemoryTrue
    <3> QED
      BY <3>1, <3>2, <3>3 DEF Faithful
  <2> HIDE DEF edits, all, user
  <2>3. Ascending(edits)
    BY <2>2, OrderedWindow
  <2>4. DOMAIN edits = 1 .. Len(edits)
    BY <2>3, Appended DEF Ascending
  <2>5. ASSUME NEW i \in 1 .. Len(edits)
        PROVE  edits[i].time \in Nat /\ edits[i].time <= last /\ last \in Nat
    <3>1. \A j \in 1 .. Len(edits) : edits[j].time = edits[j].id
      BY <2>2, <2>4 DEF GivenEdit, History, ToSet
    <3>2. Len(edits) \in 1 .. Len(edits) /\ (i = Len(edits) \/ i < Len(edits))
      BY <2>3 DEF Ascending
    <3> QED
      BY <2>3, <3>1, <3>2 DEF Ascending
  <2>6. /\ Ascending(counted)
        /\ ToSet(counted) \subseteq {e \in ToSet(edits) : /\ e.time >= last - Day
                                                        /\ e.action = "ExactRevert" /\ e.user = user}
    BY <2>3, CountedAreReverts
  <2>7. Len(counted) >= 3
    BY <2>1 DEF user
  <2> HIDE DEF counted, last
  <2>8. /\ counted[1].id \in Nat /\ counted[2].id \in Nat /\ counted[3].id \in Nat
        /\ counted[1].id < counted[2].id /\ counted[2].id < counted[3].id
        /\ 1 \in 1 .. Len(counted) /\ 2 \in 1 .. Len(counted) /\ 3 \in 1 .. Len(counted)
    BY <2>6, <2>7 DEF Ascending
  <2>9. ASSUME NEW l \in 1 .. Len(counted)
        PROVE  \E i \in 1 .. Len(edits) :
                  /\ counted[l] = edits[i] /\ edits[i].time >= last - Day
                  /\ edits[i].action = "ExactRevert" /\ edits[i].user = user
    <3>1. counted[l] \in ToSet(counted)
      BY <2>6, Appended DEF Ascending, ToSet
    <3>2. PICK i \in 1 .. Len(edits) : counted[l] = edits[i]
      BY <2>4, <2>6, <3>1 DEF ToSet
    <3> QED
      BY <2>6, <3>1, <3>2
  <2>10. PICK x \in 1 .. Len(edits) :
          /\ counted[1] = edits[x] /\ edits[x].time >= last - Day
          /\ edits[x].action = "ExactRevert" /\ edits[x].user = user
    BY <2>8, <2>9
  <2>11. PICK y \in 1 .. Len(edits) :
          /\ counted[2] = edits[y] /\ edits[y].time >= last - Day
          /\ edits[y].action = "ExactRevert" /\ edits[y].user = user
    BY <2>8, <2>9
  <2>12. PICK z \in 1 .. Len(edits) :
          /\ counted[3] = edits[z] /\ edits[z].time >= last - Day
          /\ edits[z].action = "ExactRevert" /\ edits[z].user = user
    BY <2>8, <2>9
  <2> DEFINE three == {edits[x], edits[y], edits[z]}
  <2>13. \A e \in three :
           /\ e.user = user /\ e.action = "ExactRevert"
           /\ e.time \in Nat /\ last \in Nat /\ e.time <= last /\ e.time >= last - Day
    BY <2>5, <2>10, <2>11, <2>12
  <2>14. Cardinality({e.id : e \in three}) = 3
    <3>1. {e.id : e \in three} = {edits[x].id, edits[y].id, edits[z].id}
      OBVIOUS
    <3> HIDE DEF three
    <3>2. edits[x].id # edits[y].id /\ edits[y].id # edits[z].id /\ edits[x].id # edits[z].id
      <4>1. /\ counted[1].id # counted[2].id /\ counted[2].id # counted[3].id
            /\ counted[1].id # counted[3].id
        BY ONLY <2>8
      <4> QED
        BY ONLY <4>1, <2>10, <2>11, <2>12
    <3>3. Cardinality({edits[x].id, edits[y].id, edits[z].id}) = 3
      BY ONLY <3>2, ThreeDiffer
    <3> QED
      BY <3>1, <3>3
  <2> HIDE DEF three
  <2>15. \A e, f \in three : e.user = f.user /\ e.time - f.time <= Day
    <3>1. Day \in Nat
      BY DurationAssumption
    <3> QED
      BY <2>13, <3>1
  <2>16. ThreeReverts(edits)
    <3> DEFINE Three(t) == /\ Cardinality({e.id : e \in t}) = 3
                           /\ \A e, f \in t : e.user = f.user /\ e.time - f.time <= Day
                           /\ \A e \in t : e.action = "ExactRevert"
    <3>1. ThreeReverts(edits) <=>
             \E i, j, k1 \in DOMAIN edits : Three({edits[i], edits[j], edits[k1]})
      BY DEF ThreeReverts, ThreeRevertLimit
    <3>2. Three(three)
      BY <2>13, <2>14, <2>15
    <3> HIDE DEF Three
    <3> QED
      BY <2>4, <3>1, <3>2 DEF three
  <2> QED
    BY <2>16 DEF edits
<1> QED
  BY <1>1, Inductive, MemoriesFaithful, PTL

---------------------------------------------------------------------------
(* What is classified as a revert.                                         *)

\* UndoneUsers of a page, of what was not fetched and of all that was applied.
UndoneBy(pages, gaps, all) ==
    LET n == Len(all)
        Fetched(i) == all[i] \notin gaps
        same == {i \in 1 .. n - 1 :
                    /\ i >= n - RecentRevisionWindow
                    /\ Fetched(i) /\ Fetched(n) /\ pages[all[i]].sha = pages[all[n]].sha}
    IN  {pages[all[j]].user : j \in {k \in 1 .. n - 1 : same # {} /\ \A i \in same : i < k}}

\* The window of revisions is full or holds all that was applied.
WindowExact(revisions, all) ==
    Len(revisions) = IF Len(all) <= RecentRevisionWindow THEN Len(all) ELSE RecentRevisionWindow

\* What carries a content was fetched.
Fetched(gaps, rows) == \A r \in ToSet(rows) : r.sha # NoSha => r.id \notin gaps

AllGiven(pages, gaps, rows) == \A r \in ToSet(rows) : Given(pages, gaps, r)

UsersOf(rows) == {r.user : r \in rows}

\* Those an edit undoes are those the reference definition finds in what was applied.
LEMMA UndoneAgrees ==
    ASSUME NEW pages, NEW gaps, NEW revisions, NEW all, NEW rev, NEW then,
           then = Append(all, rev.id), Len(pages) \in Nat, History(pages),
           RecentRevisionWindow > 0,
           Within(all, Len(pages)), LastOf(revisions, all), WindowExact(revisions, all),
           AllGiven(pages, gaps, revisions), Fetched(gaps, revisions),
           Given(pages, gaps, rev), rev.sha # NoSha => rev.id \notin gaps,
           "bot" \notin rev.signals
    PROVE  UndoneBy(pages, gaps, then) = UsersOf(Undone(rev, revisions))
<1> DEFINE n == Len(all)
           m == Len(revisions)
           d == n - m
           same == SameContent(rev, revisions)
           Same(i) == /\ i >= n + 1 - RecentRevisionWindow
                      /\ then[i] \notin gaps /\ then[n + 1] \notin gaps
                      /\ pages[then[i]].sha = pages[then[n + 1]].sha
           known == {i \in 1 .. n : Same(i)}
<1>0. /\ IsASeq(all)
      /\ \A i \in 1 .. m :
            /\ Given(pages, gaps, revisions[i])
            /\ revisions[i].sha # NoSha => revisions[i].id \notin gaps
  <2>1. IsASeq(all) /\ DOMAIN revisions = 1 .. m
    BY Appended DEF LastOf, Within
  <2> QED
    BY <2>1 DEF AllGiven, Fetched, ToSet
<1>1. /\ n \in Nat /\ Len(then) = n + 1 /\ then[n + 1] = rev.id
      /\ \A i \in 1 .. n : then[i] = all[i]
  <2>1. Len(then) = n + 1
    BY <1>0 DEF IsASeq
  <2> QED
    BY <1>0, <2>1, Appended
<1>2. UndoneBy(pages, gaps, then) =
         {pages[then[j]].user : j \in {k \in 1 .. n : known # {} /\ \A i \in known : i < k}}
  <2> DEFINE N == Len(then)
             found == {i \in 1 .. N - 1 :
                          /\ i >= N - RecentRevisionWindow
                          /\ then[i] \notin gaps /\ then[N] \notin gaps
                          /\ pages[then[i]].sha = pages[then[N]].sha}
  <2>1. UndoneBy(pages, gaps, then) =
          {pages[then[j]].user : j \in {k \in 1 .. N - 1 : found # {} /\ \A i \in found : i < k}}
    BY DEF UndoneBy
  <2>2. N = n + 1 /\ N - 1 = n
    BY <1>1
  <2> HIDE DEF N, n
  <2>3. found = known
    <3>1. \A i \in 1 .. n : i >= N - RecentRevisionWindow <=> i >= n + 1 - RecentRevisionWindow
      BY <1>1, <2>2, WindowAssumption
    <3>2. 1 .. N - 1 = 1 .. n /\ then[N] = then[n + 1]
      BY <2>2
    <3> QED
      BY ONLY <3>1, <3>2
  <2> HIDE DEF found, known
  <2> QED
    BY <2>1, <2>2, <2>3
<1>3. /\ m \in Nat /\ d \in Nat /\ IsASeq(revisions)
      /\ \A i \in 1 .. m : d + i \in 1 .. n /\ revisions[i].id = all[d + i]
  BY <1>1 DEF LastOf, IsASeq
<1>4. \A i \in 1 .. n : i >= n + 1 - RecentRevisionWindow => i > d
  BY <1>1, <1>3, WindowAssumption DEF WindowExact
<1>5. \A i \in 1 .. m : d + i >= n + 1 - RecentRevisionWindow
  <2>1. d = n - m /\ m = IF n <= RecentRevisionWindow THEN n ELSE RecentRevisionWindow
    BY DEF WindowExact
  <2>2. RecentRevisionWindow \in Int
    BY WindowAssumption
  <2> HIDE DEF d, n, m
  <2> QED
    BY <1>1, <1>3, <2>1, <2>2
<1>6. /\ rev.id \in 1 .. Len(pages) /\ pages[rev.id].sha # NoSha
      /\ rev.sha # NoSha <=> rev.id \notin gaps
      /\ rev.sha # NoSha => pages[rev.id].sha = rev.sha
  BY DEF Given, History
<1>7. ASSUME NEW i \in 1 .. m
      PROVE  LET id == revisions[i].id
             IN  /\ id \in 1 .. Len(pages) /\ pages[id].sha # NoSha
                 /\ revisions[i].sha # NoSha <=> id \notin gaps
                 /\ revisions[i].sha # NoSha => pages[id].sha = revisions[i].sha
                 /\ pages[id].user = revisions[i].user
  BY <1>0 DEF Given, History
<1>8. ASSUME NEW i \in 1 .. m
      PROVE  i \in same <=> d + i \in known
  <2>1. /\ d + i \in 1 .. n /\ then[d + i] = revisions[i].id
        /\ d + i >= n + 1 - RecentRevisionWindow
    BY <1>1, <1>3, <1>5
  <2>2. d + i \in known <=>
           revisions[i].id \notin gaps /\ rev.id \notin gaps
           /\ pages[revisions[i].id].sha = pages[rev.id].sha
    <3> HIDE DEF n, m, d
    <3> QED
      BY <1>1, <2>1
  <2>3. i \in same <=> revisions[i].sha # NoSha /\ revisions[i].sha = rev.sha
    BY DEF SameContent
  <2> QED
    BY <1>6, <1>7, <2>2, <2>3
<1>9. \A i \in known : i - d \in 1 .. m /\ d + (i - d) = i
  BY <1>1, <1>3, <1>4
<1>10. \A i \in same : i \in 1 .. m
  BY DEF SameContent
<1> HIDE DEF n, m, d, same, known
<1>11. same = {} <=> known = {}
  BY <1>8, <1>9, <1>10
<1>12. \A i \in known : i - d \in same
  BY <1>8, <1>9
<1>13. ASSUME NEW k \in 1 .. m
       PROVE  (\A i \in same : i < k) <=> (\A i \in known : i < d + k)
  <2>1. ASSUME \A i \in same : i < k, NEW i \in known PROVE i < d + k
    <3>1. i - d \in same /\ i - d \in 1 .. m /\ i - d < k
      BY <1>9, <1>12, <2>1
    <3>2. i \in Int
      BY <1>1 DEF known
    <3> QED
      BY <1>3, <3>1, <3>2
  <2>2. ASSUME \A i \in known : i < d + k, NEW i \in same PROVE i < k
    <3>1. d + i \in known /\ i \in 1 .. m
      BY <1>8, <1>10
    <3> QED
      BY <1>3, <2>2, <3>1
  <2> QED
    BY <2>1, <2>2
<1>14. ASSUME same # {}
       PROVE  \A j \in 1 .. n : (\A i \in known : i < j) => j - d \in 1 .. m /\ d + (j - d) = j
  <2>1. PICK i \in known : TRUE
    BY <1>11, <1>14
  <2> SUFFICES ASSUME NEW j \in 1 .. n, \A l \in known : l < j
               PROVE  j - d \in 1 .. m /\ d + (j - d) = j
    OBVIOUS
  <2>2. i < j /\ i - d \in 1 .. m /\ i \in Int
    BY <1>1, <1>9, <2>1 DEF known
  <2>3. m = n - d
    BY <1>1, <1>3 DEF d
  <2> QED
    BY <1>1, <1>3, <2>2, <2>3
<1>15. ASSUME NEW k \in 1 .. m PROVE pages[then[d + k]].user = revisions[k].user
  BY <1>1, <1>3, <1>7
<1>16. Undone(rev, revisions) =
          IF same = {} THEN {} ELSE {revisions[j] : j \in {k \in 1 .. m : \A i \in same : i < k}}
  <2>1. rev.sha = NoSha => same = {}
    BY DEF same, SameContent
  <2> QED
    BY <2>1 DEF Undone, same, m
<1>17. CASE same = {}
  BY <1>2, <1>11, <1>16, <1>17 DEF UsersOf
<1>18. CASE same # {}
  <2> DEFINE L == {k \in 1 .. n : \A i \in known : i < k}
             R == {k \in 1 .. m : \A i \in same : i < k}
  <2>1. UndoneBy(pages, gaps, then) = {pages[then[j]].user : j \in L}
    BY <1>2, <1>11, <1>18
  <2>2. UsersOf(Undone(rev, revisions)) = {revisions[k].user : k \in R}
    BY <1>16, <1>18 DEF UsersOf
  <2>3. ASSUME NEW j \in L PROVE j - d \in R /\ pages[then[j]].user = revisions[j - d].user
    <3>1. j - d \in 1 .. m /\ d + (j - d) = j
      BY <1>14, <1>18
    <3> QED
      BY <1>13, <1>15, <3>1
  <2>4. ASSUME NEW k \in R PROVE d + k \in L /\ pages[then[d + k]].user = revisions[k].user
    BY <1>3, <1>13, <1>15
  <2> HIDE DEF L, R
  <2> DEFINE Left == {pages[then[j]].user : j \in L}
             Right == {revisions[k].user : k \in R}
  <2>5. Left = Right
    <3>1. ASSUME NEW u \in Left PROVE u \in Right
      <4>1. PICK j \in L : u = pages[then[j]].user
        OBVIOUS
      <4> QED
        BY <2>3, <4>1
    <3>2. ASSUME NEW u \in Right PROVE u \in Left
      <4>1. PICK k \in R : u = revisions[k].user
        OBVIOUS
      <4> QED
        BY <2>4, <4>1
    <3> QED
      BY ONLY <3>1, <3>2
  <2> QED
    BY <2>1, <2>2, <2>5
<1> QED
  BY <1>17, <1>18

\* What an edit is classified as, from those it undoes.
ClassifiedAs(edit, signals, undone) ==
    LET self == undone = {edit.user} /\ "bot" \notin signals
    IN  /\ edit.action = "SelfRevert" <=> self
        /\ edit.action \in NonSelfReverts <=>
                /\ ~self /\ "bot" \notin signals
                /\ undone # {} \/ "revert" \in signals

\* The action says whether the candidates were the user's own, others' or none.
LEMMA ActionRight ==
    ASSUME NEW rev, NEW candidates, IsASeq(candidates), NEW edit,
           edit.user = rev.user, edit.action = ActionOf(rev, candidates), NEW undone,
           "bot" \notin rev.signals => undone = UsersOf(ToSet(candidates))
    PROVE  ClassifiedAs(edit, rev.signals, undone)
<1> DEFINE own == \A i \in DOMAIN candidates : candidates[i].user = rev.user
           n == Len(candidates)
<1>1. RevertAction(rev.signals) \in NonSelfReverts /\ "SelfRevert" \notin NonSelfReverts
  BY DEF RevertAction, NonSelfReverts, CleanupActions
<1>2. /\ "BotEdit" \notin NonSelfReverts /\ "MaintenanceEdit" \notin NonSelfReverts
      /\ "TalkPageCoordination" \notin NonSelfReverts /\ "OrdinaryEdit" \notin NonSelfReverts
  BY DEF NonSelfReverts, CleanupActions
<1>3. CASE "bot" \in rev.signals
  BY <1>2, <1>3 DEF ActionOf, ClassifiedAs
<1>4. CASE "bot" \notin rev.signals
  <2>1. DOMAIN candidates = 1 .. n /\ n \in Nat /\ (candidates = <<>> <=> n = 0)
    <3>1. DOMAIN candidates = 1 .. n /\ n \in Nat
      BY Appended
    <3>2. candidates = <<>> <=> n = 0
      BY DEF IsASeq
    <3> QED
      BY <3>1, <3>2
  <2>2. undone = {candidates[i].user : i \in DOMAIN candidates}
    BY <1>4 DEF ToSet, UsersOf
  <2>3. candidates # <<>> <=> undone # {}
    <3>1. n # 0 <=> DOMAIN candidates # {}
      <4> HIDE DEF n
      <4>1. n # 0 => 1 \in 1 .. n
        BY <2>1
      <4>2. n = 0 => 1 .. n = {}
        BY <2>1
      <4> QED
        BY <2>1, <4>1, <4>2
    <3>2. DOMAIN candidates # {} <=> undone # {}
      BY <2>2
    <3> QED
      BY <2>1, <3>1, <3>2
  <2>4. candidates # <<>> /\ own <=> undone = {rev.user}
    <3>1. own <=> \A u \in undone : u = rev.user
      BY <2>2
    <3> HIDE DEF own
    <3> QED
      BY <2>3, <3>1
  <2>5. edit.action = IF candidates # <<>> /\ own THEN "SelfRevert"
                      ELSE IF candidates # <<>> \/ "revert" \in rev.signals
                           THEN RevertAction(rev.signals)
                      ELSE IF "maintenance" \in rev.signals THEN "MaintenanceEdit"
                      ELSE IF "talk" \in rev.signals THEN "TalkPageCoordination"
                      ELSE "OrdinaryEdit"
    BY <1>4 DEF ActionOf
  <2> HIDE DEF own
  <2> QED
    BY <1>1, <1>2, <1>4, <2>3, <2>4, <2>5 DEF ClassifiedAs
<1> QED
  BY <1>3, <1>4

\* An edit that arrives in page order is classified as the reference definition says.
LEMMA ClassifiedRight ==
    ASSUME NEW pages, NEW gaps, NEW mem, NEW all, Len(pages) \in Nat,
           History(pages), Faithful(pages, gaps, mem, all), RecentRevisionWindow > 0,
           WindowExact(mem.revisions, all), Fetched(gaps, mem.revisions),
           NEW rev, Given(pages, gaps, rev), rev.sha # NoSha => rev.id \notin gaps,
           NEW edit, edit = Classify(rev, mem),
           NEW then, then = Append(all, rev.id), Sorted(then)
    PROVE  ClassifiedAs(edit, rev.signals, UndoneBy(pages, gaps, then))
<1> DEFINE revisions == mem.revisions
           candidates == RevertCandidates(rev, revisions)
<1>1. /\ Within(all, Len(pages)) /\ IsASeq(all) /\ LastOf(revisions, all)
      /\ AllGiven(pages, gaps, revisions) /\ WindowExact(revisions, all) /\ Fetched(gaps, revisions)
  BY DEF Faithful, Within, AllGiven
<1>2. edit.user = rev.user /\ edit.action = ActionOf(rev, candidates)
  BY DEF Classify
<1> HIDE DEF revisions
<1>3. rev.id \in 1 .. Len(pages)
  BY DEF Given
<1>4. Sorted(all) /\ \A i \in 1 .. Len(all) : all[i] < rev.id
  BY <1>1, <1>3, SortedLonger
<1>5. Ascending(revisions) /\ Ids(revisions) \subseteq ToSet(all)
  BY <1>1, <1>4, OrderedWindow
<1>6. \A i \in 1 .. Len(revisions) : revisions[i].id < rev.id
  BY <1>1, <1>4, <1>5, WindowBefore
<1>7. Chronicle(revisions)
  <2>1. \A i \in 1 .. Len(revisions) : Given(pages, gaps, revisions[i])
    BY <1>1, <1>5, Appended DEF AllGiven, Ascending, ToSet
  <2> QED
    BY <1>5, <2>1 DEF Chronicle, Ascending, Given, History
<1>8. IsASeq(candidates) /\ ToSet(candidates) = Undone(rev, revisions)
  <2>1. \A i \in 1 .. Len(revisions) : revisions[i].id # rev.id
    BY <1>3, <1>5, <1>6 DEF Ascending
  <2> QED
    BY <1>7, <2>1, Candidates
<1>9. "bot" \notin rev.signals =>
         UndoneBy(pages, gaps, then) = UsersOf(Undone(rev, revisions))
  <2> SUFFICES ASSUME "bot" \notin rev.signals
               PROVE  UndoneBy(pages, gaps, then) = UsersOf(Undone(rev, revisions))
    OBVIOUS
  <2>1. /\ then = Append(all, rev.id) /\ Len(pages) \in Nat /\ History(pages)
        /\ RecentRevisionWindow > 0
        /\ Given(pages, gaps, rev) /\ (rev.sha # NoSha => rev.id \notin gaps)
        /\ "bot" \notin rev.signals
    OBVIOUS
  <2> QED
    BY ONLY <1>1, <2>1, UndoneAgrees
<1> HIDE DEF candidates
<1> QED
  BY <1>2, <1>8, <1>9, ActionRight

\* The id of a revision that was not fetched and is not yet applied.
Resolving(p) ==
    IF stage[p] = "apply" /\ revision[p].sha = NoSha THEN {revision[p].id} ELSE {}

Known(p) == unfetched[p] \ Resolving(p)

\* The revisions that were not fetched are those that carry no content, when none comes twice.
GapsKnown(p) ==
    /\ Known(p) \subseteq ToSet(applied[p])
    /\ Sorted(applied[p]) => Fetched(Known(p), memory[p].revisions)
    /\ RecentRevisionWindow > 0 => WindowExact(memory[p].revisions, applied[p])

RightlyClassified(p) ==
    stage[p] = "save" /\ InOrder(p) =>
        ClassifiedAs(work[p].edit, revision[p].signals, UndoneBy(page, unfetched[p], applied[p]))

Classifications ==
    \A p \in Processes :
        GapsKnown(p) /\ (RecentRevisionWindow > 0 => RightlyClassified(p))

\* New edits of the page change nothing in what was undone before.
LEMMA UndoneStays ==
    ASSUME NEW pages, NEW more, Len(pages) \in Nat, \A i \in 1 .. Len(pages) : more[i] = pages[i],
           NEW gaps, NEW all, Within(all, Len(pages))
    PROVE  UndoneBy(more, gaps, all) = UndoneBy(pages, gaps, all)
<1> DEFINE n == Len(all)
           Same(any) == {i \in 1 .. n - 1 :
                           /\ i >= n - RecentRevisionWindow
                           /\ all[i] \notin gaps /\ all[n] \notin gaps
                           /\ any[all[i]].sha = any[all[n]].sha}
           Later(any) == {k \in 1 .. n - 1 : Same(any) # {} /\ \A i \in Same(any) : i < k}
           Users1(any) == {any[all[j]].user : j \in Later(any)}
<1>1. n \in Nat
  BY DEF IsASeq, Within
<1>2. \A i \in 1 .. n - 1 : i \in 1 .. n /\ n \in 1 .. n
  BY <1>1
<1>3. \A i \in 1 .. n : more[all[i]] = pages[all[i]]
  BY DEF Within
<1>4. UndoneBy(more, gaps, all) = Users1(more) /\ UndoneBy(pages, gaps, all) = Users1(pages)
  BY DEF UndoneBy
<1> HIDE DEF n
<1>5. Same(more) = Same(pages)
  BY <1>2, <1>3
<1> HIDE DEF Same
<1>6. Later(more) = Later(pages)
  BY <1>5
<1>7. \A j \in Later(pages) : more[all[j]] = pages[all[j]]
  BY <1>2, <1>3
<1> HIDE DEF Later
<1> QED
  BY <1>4, <1>6, <1>7

\* A process whose memory nobody touches, and that does not get to its edit.
LEMMA ClassificationKept ==
    ASSUME Types, MemoriesTrue, Classifications, [Next]_vars, NEW p \in Processes,
           UNCHANGED <<memory[p], applied[p]>>, Known(p)' \subseteq Known(p),
           stage'[p] = "save" =>
              stage[p] = "save" /\ UNCHANGED <<work[p], revision[p], unfetched[p]>>
    PROVE  GapsKnown(p)' /\ (RecentRevisionWindow > 0 => RightlyClassified(p)')
<1>1. GapsKnown(p) /\ (RecentRevisionWindow > 0 => RightlyClassified(p))
  BY DEF Classifications
<1>2. GapsKnown(p)'
  BY <1>1 DEF GapsKnown, Fetched
<1>3. ASSUME RecentRevisionWindow > 0 PROVE RightlyClassified(p)'
  <2> SUFFICES ASSUME stage'[p] = "save", InOrder(p)'
               PROVE  ClassifiedAs(work'[p].edit, revision'[p].signals,
                                   UndoneBy(page', unfetched'[p], applied'[p]))
    BY DEF RightlyClassified
  <2>1. ClassifiedAs(work[p].edit, revision[p].signals,
                     UndoneBy(page, unfetched[p], applied[p]))
    BY <1>1, <1>3 DEF RightlyClassified, InOrder
  <2> DEFINE before == page
             after == page'
             all == applied[p]
             gaps == unfetched[p]
  <2>2. /\ Len(before) \in Nat /\ \A i \in 1 .. Len(before) : after[i] = before[i]
    BY PageKept DEF MemoriesTrue
  <2>3. Within(all, Len(before))
    BY DEF MemoriesTrue, MemoryTrue, Faithful
  <2>4. UndoneBy(after, gaps, all) = UndoneBy(before, gaps, all)
    <3> HIDE DEF before, after, all, gaps
    <3> QED
      BY ONLY <2>2, <2>3, UndoneStays
  <2> QED
    BY <2>1, <2>4
<1> QED
  BY <1>2, <1>3

\* Applying keeps the window at its length, or at all that was applied.
LEMMA WindowApplied ==
    ASSUME NEW rows, NEW all, IsASeq(rows), IsASeq(all), RecentRevisionWindow > 0,
           WindowExact(rows, all), NEW row, NEW id
    PROVE  WindowExact(Trim(Append(rows, row), RecentRevisionWindow), Append(all, id))
<1> DEFINE longer == Append(rows, row)
           some == Trim(longer, RecentRevisionWindow)
           W == RecentRevisionWindow
<1>1. IsASeq(longer) /\ W \in Int
  BY Appended, WindowAssumption
<1>2. Len(rows) \in Nat /\ Len(all) \in Nat /\ Len(longer) = Len(rows) + 1 /\ Len(Append(all, id)) = Len(all) + 1
  BY DEF IsASeq
<1> HIDE DEF longer
<1>3. \/ some = longer /\ (W <= 0 \/ Len(longer) <= W)
      \/ W > 0 /\ Len(some) = W
  BY <1>1, Trimmed
<1>4. PICK d \in 0 .. Len(longer) : Len(some) = Len(longer) - d
  <2>1. EndOf(some, longer)
    BY <1>1, TrimDrops
  <2> QED
    BY <2>1 DEF EndOf
<1> HIDE DEF some
<1>5. Len(some) = IF Len(all) + 1 <= W THEN Len(all) + 1 ELSE W
  BY <1>1, <1>2, <1>3, <1>4 DEF WindowExact
<1> QED
  BY <1>2, <1>5 DEF WindowExact, some, longer

\* Applying an edit keeps the revisions that were not fetched known.
LEMMA GapsApplied ==
    ASSUME NEW all, NEW bound \in Nat, Within(all, bound), NEW rows, LastOf(rows, all),
           NEW known, known \subseteq ToSet(all), Sorted(all) => Fetched(known, rows),
           NEW rev, rev.id \in 1 .. bound, Sorted(Append(all, rev.id)),
           NEW gaps, \A id \in gaps : id \in known \/ (rev.sha = NoSha /\ id = rev.id)
    PROVE  Fetched(gaps, rows) /\ (rev.sha # NoSha => rev.id \notin gaps)
<1>1. Sorted(all) /\ \A i \in 1 .. Len(all) : all[i] < rev.id
  BY SortedLonger
<1>2. Ascending(rows) /\ Ids(rows) \subseteq ToSet(all)
  BY <1>1, OrderedWindow
<1>3. \A x \in ToSet(all) : x # rev.id
  <2>1. DOMAIN all = 1 .. Len(all)
    BY Appended DEF Within
  <2> QED
    BY <1>1, <2>1 DEF ToSet
<1>4. \A r \in ToSet(rows) : r.id \in ToSet(all)
  BY <1>2 DEF ToSet, Ids
<1> QED
  BY <1>1, <1>3, <1>4 DEF Fetched

\* The classification is made when an edit is applied, and kept until it is saved.
LEMMA StepClassifications ==
  Loop!IInv /\ IInv /\ MemoriesTrue /\ Classifications /\ [Next]_vars => Classifications'
<1> SUFFICES ASSUME Loop!IInv, IInv, MemoriesTrue, Classifications, [Next]_vars
             PROVE  Classifications'
  OBVIOUS
<1> DEFINE Kept(p) == GapsKnown(p)' /\ (RecentRevisionWindow > 0 => RightlyClassified(p)')
<1>1. Types /\ Upstreams /\ InHandler
  BY DEF IInv
<1>2. (\A p \in Processes : Kept(p)) => Classifications'
  BY DEF Classifications
<1>3. ASSUME NEW p \in Processes,
             UNCHANGED <<memory[p], applied[p], unfetched[p], stage[p], revision[p], work[p]>>
      PROVE  Kept(p)
  <2>1. Known(p)' = Known(p)
    BY <1>3 DEF Known, Resolving
  <2> QED
    BY <1>1, <1>3, <2>1, ClassificationKept
<1>4. ASSUME NEW p \in Processes, UNCHANGED <<memory[p], applied[p], unfetched[p]>>,
             stage[p] # "apply", stage'[p] \notin {"apply", "save"}
      PROVE  Kept(p)
  <2>1. Known(p)' = Known(p)
    BY <1>4 DEF Known, Resolving
  <2> QED
    BY <1>1, <1>4, <2>1, ClassificationKept
<1>5. CASE Upstream \/ UNCHANGED vars
  BY <1>2, <1>3, <1>5 DEF Upstream, SaveRevision, Replay, vars, handlerVars, stateVars
<1>6. ASSUME NEW p \in Processes,
             \A q \in Processes \ {p} : UNCHANGED <<stage[q], revision[q], work[q], memory[q], applied[q], unfetched[q]>>,
             Kept(p)
      PROVE  Classifications'
  BY <1>2, <1>3, <1>6
<1> HIDE DEF Kept
<1>7. ASSUME NEW p \in Processes, CommitOffset(p) \/ Membership(p) PROVE Classifications'
  BY <1>2, <1>3, <1>7 DEF CommitOffset, Membership, handlerVars, stateVars
<1>8. ASSUME NEW p \in Processes, Consume(p) \/ Save(p) PROVE Classifications'
  <2>1. stage[p] # "apply"
    BY <1>1, <1>8 DEF Consume, Save, Loop!Consume, InHandler
  <2>2. /\ UNCHANGED <<memory, applied, unfetched>> /\ stage'[p] \notin {"apply", "save"}
        /\ \A q \in Processes \ {p} : UNCHANGED <<stage[q], revision[q], work[q]>>
    BY <1>1, <1>8 DEF Consume, Save, Goto, stateVars, Types
  <2> QED
    BY <1>4, <1>6, <2>1, <2>2
<1>9. ASSUME NEW p \in Processes, SaveThrows(p) \/ Publish(p) \/ PublishThrows(p)
      PROVE  Classifications'
  <2>1. /\ UNCHANGED <<memory, applied, unfetched>> /\ stage'[p] \notin {"apply", "save"}
        /\ stage[p] # "apply"
        /\ \A q \in Processes \ {p} : UNCHANGED <<stage[q], revision[q], work[q]>>
    BY <1>1, <1>9 DEF SaveThrows, Publish, PublishThrows, Leave, Goto, stateVars, Types
  <2> QED
    BY <1>4, <1>6, <2>1
<1>10. ASSUME NEW p \in Processes, ResolveRevision(p) \/ ResolveFallsBack(p)
       PROVE  Classifications'
  <2>1. /\ UNCHANGED <<page, memory, applied, work>> /\ stage[p] = "resolve" /\ stage'[p] = "apply"
        /\ \A q \in Processes \ {p} : UNCHANGED <<stage[q], revision[q], unfetched[q]>>
    BY <1>1, <1>10 DEF ResolveRevision, ResolveFallsBack, Goto, stateVars, Types, MemoriesTrue
  <2> DEFINE raw == RawEdit(p)
  <2>2. raw = page[raw.id] /\ raw.id \in 1 .. Len(page)
    BY <1>1, <2>1, RecordInHand DEF RawEdit
  <2>3. raw \in Page
    BY <1>1, <2>2 DEF Types
  <2>4. \/ unfetched'[p] = unfetched[p]
        \/ /\ unfetched'[p] = unfetched[p] \cup {raw.id}
           /\ revision'[p] = [raw EXCEPT !.sha = NoSha]
    BY <1>1, <1>10 DEF ResolveRevision, ResolveFallsBack, stateVars, Types, MemoriesTrue
  <2>5. Known(p) = unfetched[p]
    BY <2>1 DEF Known, Resolving
  <2> HIDE DEF raw
  <2>6. Known(p)' \subseteq unfetched[p]
    <3>1. CASE unfetched'[p] = unfetched[p]
      BY <3>1 DEF Known
    <3>2. CASE unfetched'[p] = unfetched[p] \cup {raw.id} /\ revision'[p] = [raw EXCEPT !.sha = NoSha]
      <4>1. revision'[p].sha = NoSha /\ revision'[p].id = raw.id
        BY <2>3, <3>2 DEF Page
      <4> QED
        BY <2>1, <3>2, <4>1 DEF Known, Resolving
    <3> QED
      BY <2>4, <3>1, <3>2
  <2>7. Kept(p)
    BY <1>1, <2>1, <2>5, <2>6, ClassificationKept DEF Kept
  <2> QED
    BY <1>6, <2>1, <2>7
<1>11. ASSUME NEW p \in Processes, ClassifyAndApply(p) PROVE Classifications'
  <2> DEFINE rev == revision[p]
             mem == memory[p]
             all == applied[p]
             gaps == unfetched[p]
             edit == Classify(rev, mem)
             then == Append(all, rev.id)
  <2>1. /\ UNCHANGED <<page, unfetched, revision>> /\ stage[p] = "apply" /\ stage'[p] = "save"
        /\ memory' = [memory EXCEPT ![p] = Apply(memory[p], rev, edit)]
        /\ applied' = [applied EXCEPT ![p] = then]
        /\ work' = [work EXCEPT ![p] = [edit |-> edit, edges |-> NewEdges(edit, mem.revisions)]]
        /\ \A q \in Processes \ {p} : stage'[q] = stage[q]
    BY <1>1, <1>11 DEF ClassifyAndApply, Goto, Types
  <2>2. /\ \A q \in Processes \ {p} : UNCHANGED <<memory[q], applied[q], stage[q], work[q]>>
        /\ memory'[p] = Apply(mem, rev, edit) /\ applied'[p] = then /\ work'[p].edit = edit
    BY <1>1, <2>1 DEF Types
  <2>3. /\ History(page) /\ Faithful(page, gaps, mem, all) /\ Given(page, gaps, rev)
        /\ Len(page) \in Nat
    BY <1>1, <2>1 DEF MemoriesTrue, MemoryTrue, Types
  <2>4. /\ Known(p) = gaps \ (IF rev.sha = NoSha THEN {rev.id} ELSE {})
        /\ Known(p) \subseteq ToSet(all) /\ (Sorted(all) => Fetched(Known(p), mem.revisions))
        /\ RecentRevisionWindow > 0 => WindowExact(mem.revisions, all)
    BY <2>1 DEF Classifications, GapsKnown, Known, Resolving
  <2> HIDE DEF rev, mem, all, gaps
  <2>5. /\ gaps \subseteq ToSet(then)
        /\ Sorted(then) => /\ rev.sha # NoSha => rev.id \notin gaps
                           /\ Fetched(gaps, mem.revisions)
                           /\ Fetched(gaps, Apply(mem, rev, edit).revisions)
    <3> DEFINE rows == mem.revisions
               known == Known(p)
               bound == Len(page)
    <3>1. /\ bound \in Nat /\ Within(all, bound) /\ IsASeq(all)
          /\ LastOf(rows, all) /\ rev.id \in 1 .. bound
      BY <2>3 DEF Faithful, Given, Within
    <3>2. /\ \A id \in gaps : id \in known \/ (rev.sha = NoSha /\ id = rev.id)
          /\ known \subseteq ToSet(all) /\ (Sorted(all) => Fetched(known, rows))
      BY <2>4
    <3>3. ToSet(then) = ToSet(all) \cup {rev.id}
      BY <3>1, ElementsAppended
    <3>4. ToSet(Apply(mem, rev, edit).revisions) \subseteq ToSet(rows) \cup {rev}
      <4>1. Apply(mem, rev, edit).revisions = Trim(Append(rows, rev), RecentRevisionWindow)
        BY DEF Apply
      <4> QED
        BY <3>1, <4>1, WindowAssumption, LastOfApplied
    <3> HIDE DEF rows, known, bound, edit
    <3>5. ASSUME Sorted(then) PROVE Fetched(gaps, rows) /\ (rev.sha # NoSha => rev.id \notin gaps)
      BY ONLY <3>1, <3>2, <3>5, GapsApplied
    <3> HIDE DEF then
    <3> QED
      BY <3>2, <3>3, <3>4, <3>5 DEF rows, Fetched
  <2>6. RecentRevisionWindow > 0 => WindowExact(Apply(mem, rev, edit).revisions, then)
    <3>1. IsASeq(mem.revisions) /\ IsASeq(all)
      BY <2>3 DEF Faithful, LastOf, Within
    <3>2. Apply(mem, rev, edit).revisions = Trim(Append(mem.revisions, rev), RecentRevisionWindow)
      BY DEF Apply
    <3> QED
      BY <2>4, <3>1, <3>2, WindowApplied
  <2>7. ASSUME RecentRevisionWindow > 0, Sorted(then)
        PROVE  ClassifiedAs(edit, rev.signals, UndoneBy(page, gaps, then))
    BY <2>3, <2>4, <2>5, <2>7, ClassifiedRight
  <2> HIDE DEF edit, then
  <2>8. Known(p)' = gaps
    BY <2>1 DEF Known, Resolving, gaps
  <2>9. GapsKnown(p)'
    BY <2>2, <2>5, <2>6, <2>8 DEF GapsKnown
  <2>10. RecentRevisionWindow > 0 => RightlyClassified(p)'
    <3> SUFFICES ASSUME RecentRevisionWindow > 0, InOrder(p)'
                 PROVE  ClassifiedAs(work'[p].edit, revision'[p].signals,
                                     UndoneBy(page', unfetched'[p], applied'[p]))
      BY DEF RightlyClassified
    <3>1. Sorted(then)
      BY <2>2 DEF InOrder, Sorted
    <3> QED
      BY <2>1, <2>2, <2>7, <3>1 DEF rev, gaps
  <2>11. Kept(p)
    BY <2>9, <2>10 DEF Kept
  <2> QED
    BY <1>6, <2>1, <2>2, <2>11
<1>12. ASSUME NEW p \in Processes, Die(p) PROVE Classifications'
  <2>1. /\ memory' = [memory EXCEPT ![p] = EmptyMemory]
        /\ applied' = [applied EXCEPT ![p] = <<>>]
        /\ unfetched' = [unfetched EXCEPT ![p] = {}]
    BY <1>12 DEF Die
  <2>2. /\ \A q \in Processes \ {p} :
              UNCHANGED <<memory[q], applied[q], unfetched[q], stage[q], revision[q], work[q]>>
        /\ stage'[p] = "idle"
        /\ memory'[p] = EmptyMemory /\ applied'[p] = <<>> /\ unfetched'[p] = {}
    BY <1>1, <1>12, <2>1 DEF Die, Leave, Goto, Types, MemoriesTrue
  <2>3. Known(p)' = {}
    BY <2>2 DEF Known
  <2>4. GapsKnown(p)'
    BY <2>2, <2>3, WindowAssumption DEF GapsKnown, WindowExact, Fetched, EmptyMemory
  <2>5. RightlyClassified(p)'
    BY <2>2 DEF RightlyClassified
  <2>6. Kept(p)
    BY <2>4, <2>5 DEF Kept
  <2> QED
    BY <1>6, <2>2, <2>6
<1>13. \/ Upstream \/ UNCHANGED vars
       \/ \E p \in Processes :
            \/ Consume(p) \/ Save(p)
            \/ SaveThrows(p) \/ Publish(p) \/ PublishThrows(p)
            \/ CommitOffset(p) \/ Membership(p)
            \/ ResolveRevision(p) \/ ResolveFallsBack(p)
            \/ ClassifyAndApply(p)
            \/ Die(p)
  BY DEF Next, Handle
<1> QED
  BY <1>5, <1>7, <1>8, <1>9, <1>10, <1>11, <1>12, <1>13

LEMMA InitClassifications == Init => Classifications
<1>1. ASSUME Init, NEW p \in Processes PROVE GapsKnown(p) /\ RightlyClassified(p)
  <2>1. /\ stage[p] = "idle" /\ memory[p] = EmptyMemory /\ applied[p] = <<>> /\ unfetched[p] = {}
    BY <1>1 DEF Init
  <2>2. Known(p) = {}
    BY <2>1 DEF Known
  <2>3. GapsKnown(p)
    BY <2>1, <2>2, WindowAssumption DEF GapsKnown, WindowExact, Fetched, EmptyMemory
  <2> QED
    BY <2>1, <2>3 DEF RightlyClassified
<1> QED
  BY <1>1 DEF Classifications

\* The classifier, which looks up a bounded window, finds the reverts that a definition
\* over the page finds, as long as the process applied its edits in page order: with a
\* window that keeps something, whatever its length, and whatever was not fetched.
THEOREM ClassifierRight ==
    ASSUME RecentRevisionWindow > 0
    PROVE  Spec => []RevertsClassified
<1>1. ASSUME Classifications PROVE RevertsClassified
  <2> SUFFICES ASSUME NEW p \in Processes, stage[p] = "save", InOrder(p)
               PROVE  ClassifiedAs(work[p].edit, revision[p].signals, UndoneUsers(p))
    BY DEF RevertsClassified, ClassifiedAs
  <2>1. UndoneUsers(p) = UndoneBy(page, unfetched[p], applied[p])
    BY DEF UndoneUsers, UndoneBy
  <2> QED
    BY <1>1, <2>1 DEF Classifications, RightlyClassified
<1>2. Spec => []Classifications
  BY InitClassifications, StepClassifications, Inductive, MemoriesFaithful, PTL DEF Spec
<1> QED
  BY <1>1, <1>2, PTL

---------------------------------------------------------------------------
(* The one pass over the edges.                                            *)

\* A pass over the first m edges.
Pass(f, m, edges) ==
    f = [i \in 0 .. m |->
            IF i = 0 THEN [arrows |-> {}, pairs |-> {}] ELSE Note(f[i - 1], edges[i])]

\* The recursive definition has a value: there is a pass over any number of edges, as
\* the least number without one could be reached from the number before.
LEMMA OnePass ==
    ASSUME NEW edges, Len(edges) \in Nat
    PROVE  Pass(Seen(edges), Len(edges), edges)
<1> DEFINE n == Len(edges)
           without == {m \in 0 .. n : ~ \E f : Pass(f, m, edges)}
<1>1. ASSUME NEW m \in without PROVE FALSE
  <2>1. PICK l \in without : \A k \in without : l <= k
    <3>1. without \in SUBSET Nat /\ without # {}
      BY <1>1
    <3> QED
      BY <3>1, Least
  <2>2. CASE l = 0
    <3>1. Pass([i \in 0 .. 0 |-> [arrows |-> {}, pairs |-> {}]], 0, edges)
      BY DEF Pass
    <3> QED
      BY <2>1, <2>2, <3>1
  <2>3. CASE l # 0
    <3>1. l \in 1 .. n /\ l - 1 \in 0 .. n /\ l - 1 \notin without
      BY <2>1, <2>3
    <3>2. PICK f : Pass(f, l - 1, edges)
      BY <3>1
    <3> DEFINE g == [i \in 0 .. l |-> IF i = l THEN Note(f[l - 1], edges[l]) ELSE f[i]]
    <3>3. \A i \in 0 .. l - 1 :
             f[i] = IF i = 0 THEN [arrows |-> {}, pairs |-> {}] ELSE Note(f[i - 1], edges[i])
      BY <3>2 DEF Pass
    <3>4. \A i \in 0 .. l :
             g[i] = IF i = 0 THEN [arrows |-> {}, pairs |-> {}] ELSE Note(g[i - 1], edges[i])
      BY <3>1, <3>3
    <3>5. Pass(g, l, edges)
      BY <3>4 DEF Pass
    <3> QED
      BY <2>1, <3>5
  <2> QED
    BY <2>2, <2>3
<1>2. n \in 0 .. n /\ n \notin without
  BY <1>1
<1>3. \E f : Pass(f, n, edges)
  BY <1>2
<1>4. Seen(edges) = CHOOSE f : Pass(f, n, edges)
  BY DEF Seen, Pass
<1> HIDE DEF n, without
<1> QED
  BY <1>3, <1>4 DEF n

\* What goes both ways.
Mutual(pair, arrows) == \E u, v : pair = {u, v} /\ <<u, v>> \in arrows /\ <<v, u>> \in arrows

\* What a pass knows after the edges whose arrows are some: of each arrow it has noted
\* that one or its reverse, and it has made a pair of those that go both ways.
PassRight(seen, arrows) ==
    /\ seen.arrows \subseteq arrows
    /\ \A u, v : <<u, v>> \in arrows => <<u, v>> \in seen.arrows \/ <<v, u>> \in seen.arrows
    /\ \A pair : pair \in seen.pairs <=> Mutual(pair, arrows)

\* The pass is right after one more edge, if its ends are not the same user.
LEMMA NoteRight ==
    ASSUME NEW seen, NEW arrows, PassRight(seen, arrows), NEW e, e.fromUser # e.toUser
    PROVE  PassRight(Note(seen, e), arrows \cup {<<e.fromUser, e.toUser>>})
<1> DEFINE u == e.fromUser
           v == e.toUser
           A == seen.arrows
           P == seen.pairs
           more == arrows \cup {<<u, v>>}
           after == Note(seen, e)
<1>1. /\ A \subseteq arrows /\ u # v
      /\ \A a, b : <<a, b>> \in arrows => <<a, b>> \in A \/ <<b, a>> \in A
      /\ \A pair : pair \in P <=> Mutual(pair, arrows)
  BY DEF PassRight
<1>2. \A pair : Mutual(pair, arrows) => Mutual(pair, more)
  BY DEF Mutual
<1>3. ASSUME NEW pair, Mutual(pair, more), ~Mutual(pair, arrows)
      PROVE  pair = {u, v} /\ <<v, u>> \in arrows
  <2>1. PICK a, b : pair = {a, b} /\ <<a, b>> \in more /\ <<b, a>> \in more
    BY <1>3 DEF Mutual
  <2>2. <<a, b>> = <<u, v>> \/ <<b, a>> = <<u, v>>
    BY <1>3, <2>1 DEF Mutual
  <2>3. CASE a = u /\ b = v
    BY <1>1, <2>1, <2>3
  <2>4. CASE b = u /\ a = v
    <3>1. pair = {v, u}
      BY <2>1, <2>4
    <3>2. {v, u} = {u, v}
      OBVIOUS
    <3> QED
      BY <1>1, <2>1, <2>4, <3>1, <3>2
  <2> QED
    BY <2>2, <2>3, <2>4
<1>4. ASSUME <<v, u>> \in A PROVE PassRight(after, more)
  <2>1. after.arrows = A /\ after.pairs = P \cup {{u, v}}
    BY <1>4 DEF Note
  <2>2. Mutual({u, v}, more)
    <3>1. <<v, u>> \in arrows
      BY <1>1, <1>4
    <3> QED
      BY <3>1 DEF Mutual
  <2>3. \A a, b : <<a, b>> \in more => <<a, b>> \in A \/ <<b, a>> \in A
    BY <1>1, <1>4
  <2>4. \A pair : pair \in P \cup {{u, v}} <=> Mutual(pair, more)
    BY <1>1, <1>2, <1>3, <2>2
  <2> HIDE DEF after, more, A, P
  <2>5. after.arrows \subseteq more
    BY <1>1, <2>1 DEF more
  <2> QED
    BY <2>1, <2>3, <2>4, <2>5 DEF PassRight
<1>5. ASSUME <<v, u>> \notin A PROVE PassRight(after, more)
  <2>1. after.arrows = A \cup {<<u, v>>} /\ after.pairs = P
    BY <1>5 DEF Note
  <2>3. <<v, u>> \in arrows => Mutual({u, v}, arrows)
    BY <1>1, <1>5 DEF Mutual
  <2>4. \A a, b : <<a, b>> \in more =>
           <<a, b>> \in A \cup {<<u, v>>} \/ <<b, a>> \in A \cup {<<u, v>>}
    BY <1>1
  <2>5. \A pair : pair \in P <=> Mutual(pair, more)
    BY <1>1, <1>2, <1>3, <2>3
  <2> HIDE DEF after, more, A, P
  <2>6. after.arrows \subseteq more
    BY <1>1, <2>1 DEF more
  <2> QED
    BY <2>1, <2>4, <2>5, <2>6 DEF PassRight
<1> HIDE DEF after
<1>6. PassRight(after, more)
  BY <1>4, <1>5
<1> QED
  BY <1>6 DEF after

\* The arrows of the first n edges.
ArrowsUpTo(edges, n) == {<<edges[i].fromUser, edges[i].toUser>> : i \in 1 .. n}

\* The pass is right after all of them.
LEMMA SeenRight ==
    ASSUME NEW edges, Len(edges) \in Nat,
           \A i \in 1 .. Len(edges) : edges[i].fromUser # edges[i].toUser
    PROVE  PassRight(Seen(edges)[Len(edges)], ArrowsUpTo(edges, Len(edges)))
<1> DEFINE n == Len(edges)
           seen == Seen(edges)
           wrong == {m \in 0 .. n : ~ PassRight(seen[m], ArrowsUpTo(edges, m))}
<1>1. /\ seen[0] = [arrows |-> {}, pairs |-> {}]
      /\ \A i \in 1 .. n : seen[i] = Note(seen[i - 1], edges[i])
  <2>1. \A i \in 0 .. n :
           seen[i] = IF i = 0 THEN [arrows |-> {}, pairs |-> {}] ELSE Note(seen[i - 1], edges[i])
    BY OnePass DEF Pass
  <2> QED
    BY <2>1
<1> HIDE DEF seen
<1>2. PassRight(seen[0], ArrowsUpTo(edges, 0))
  <2>1. ArrowsUpTo(edges, 0) = {}
    BY DEF ArrowsUpTo
  <2> QED
    <3>1. seen[0].arrows = {} /\ seen[0].pairs = {}
      BY <1>1
    <3>2. \A pair : ~ Mutual(pair, {})
      BY DEF Mutual
    <3> QED
      BY <2>1, <3>1, <3>2 DEF PassRight
<1>3. ASSUME NEW m \in wrong PROVE FALSE
  <2>1. PICK l \in wrong : \A k \in wrong : l <= k
    <3>1. wrong \in SUBSET Nat /\ wrong # {}
      BY <1>3
    <3> QED
      BY <3>1, Least
  <2>2. l \in 1 .. n /\ l - 1 \in 0 .. n /\ l - 1 \notin wrong
    BY <1>2, <2>1
  <2>3. PassRight(Note(seen[l - 1], edges[l]),
                  ArrowsUpTo(edges, l - 1) \cup {<<edges[l].fromUser, edges[l].toUser>>})
    BY <2>2, NoteRight
  <2>4. ArrowsUpTo(edges, l) = ArrowsUpTo(edges, l - 1) \cup {<<edges[l].fromUser, edges[l].toUser>>}
    <3>1. 1 .. l = (1 .. l - 1) \cup {l}
      BY <2>2
    <3> QED
      BY <3>1 DEF ArrowsUpTo
  <2> QED
    BY <1>1, <2>1, <2>2, <2>3, <2>4
<1>4. n \in 0 .. n /\ n \notin wrong
  BY <1>3
<1> QED
  BY <1>4 DEF seen

---------------------------------------------------------------------------
(* Edges are between two users, whatever order the edits came in.          *)

\* What the classifier looks up is a sequence, also in a window out of order.
LEMMA CandidatesInRow ==
    ASSUME NEW rev, NEW revisions, IsASeq(revisions)
    PROVE  IsASeq(RevertCandidates(rev, revisions))
<1> DEFINE Before(i) == {j \in DOMAIN revisions :
                            \/ revisions[j].time < revisions[i].time
                            \/ revisions[j].time = revisions[i].time /\ j < i}
           At(k) == CHOOSE i \in DOMAIN revisions : Cardinality(Before(i)) = k - 1
           ordered == OrderedByTime(revisions)
           n == Len(revisions)
<1>1. n \in Nat /\ DOMAIN revisions = 1 .. n
  BY Appended
<1>2. ordered = [k \in 1 .. n |-> revisions[At(k)]]
  BY <1>1 DEF OrderedByTime
<1> HIDE DEF At, n
<1>3. ordered \in Seq({ordered[k] : k \in 1 .. n}) /\ Len(ordered) = n /\ DOMAIN ordered = 1 .. n
  BY <1>1, <1>2
<1> HIDE DEF ordered
<1>4. ASSUME NEW id, NEW current
      PROVE  IsASeq(FindRevisionsBetween(revisions, id, current))
  <2> DEFINE found == {i \in 1 .. Len(ordered) : ordered[i].id = id}
             from == SelectInSeq(ordered, LAMBDA r : r.id = id)
             rest == SubSeq(ordered, from + 1, Len(ordered))
             others == {i \in DOMAIN rest : rest[i].id # current}
  <2>1. from = IF found # {} THEN Min(found) ELSE 0
    BY DEF SelectInSeq
  <2>2. FindRevisionsBetween(revisions, id, current) = IF from = 0 THEN <<>> ELSE Picked(rest, others)
    BY DEF FindRevisionsBetween, Where, ordered
  <2> HIDE DEF from
  <2>3. from \in 0 .. n
    <3>1. found # {} => Min(found) \in found
      BY <1>1, <1>3, Smallest
    <3> QED
      BY <1>1, <1>3, <2>1, <3>1
  <2>4. DOMAIN rest = 1 .. Len(rest) /\ Len(rest) \in Nat
    BY <1>1, <1>3, <2>3
  <2>5. \A i \in others : i \in 1 .. Len(rest)
    BY <2>4
  <2> HIDE DEF rest, others
  <2>6. IsASeq(Picked(rest, others))
    BY <2>4, <2>5, Selected
  <2>7. IsASeq(<<>>)
    BY DEF IsASeq
  <2> QED
    BY <2>2, <2>6, <2>7
<1>5. IsASeq(<<>>)
  BY DEF IsASeq
<1> DEFINE to == SelectLastInSeq(revisions, LAMBDA r : r.sha # NoSha /\ r.sha = rev.sha)
<1>6. \/ RevertCandidates(rev, revisions) = <<>>
      \/ RevertCandidates(rev, revisions) = FindRevisionsBetween(revisions, revisions[to].id, rev.id)
  BY DEF RevertCandidates
<1> QED
  BY <1>4, <1>5, <1>6

\* Edges between two different users out of some names.
EdgesAmong(edges, names) ==
    /\ IsASeq(edges)
    /\ \A x \in ToSet(edges) : x.fromUser \in names /\ x.toUser \in names /\ x.fromUser # x.toUser

\* Those of an edit are between its user and the users remembered.
LEMMA NewEdgesBetween ==
    ASSUME NEW rev, NEW mem, IsASeq(mem.revisions), NEW names, rev.user \in names,
           \A r \in ToSet(mem.revisions) : r.user \in names
    PROVE  EdgesAmong(NewEdges(Classify(rev, mem), mem.revisions), names)
<1> DEFINE revisions == mem.revisions
           candidates == RevertCandidates(rev, revisions)
           edit == Classify(rev, mem)
           edges == NewEdges(edit, revisions)
           reverted == edit.reverted
           Remembered(id) == SelectLastInSeq(revisions, LAMBDA r : r.id = id)
           kept == {k \in DOMAIN reverted :
                       /\ Remembered(reverted[k]) # 0
                       /\ revisions[Remembered(reverted[k])].user # edit.user}
           others == Picked(reverted, kept)
           Edge(id) == [fromUser |-> edit.user, toUser |-> revisions[Remembered(id)].user,
                        from |-> edit.id, to |-> id, time |-> edit.time]
<1>1. edit.user = rev.user /\ reverted = [k \in DOMAIN candidates |-> candidates[k].id]
  BY DEF Classify
<1>2. edges = [i \in DOMAIN others |-> Edge(others[i])]
  BY DEF NewEdges, Where
<1>3. DOMAIN revisions = 1 .. Len(revisions) /\ Len(revisions) \in Nat
  BY Appended
<1> HIDE DEF edit, edges
<1>4. DOMAIN candidates = 1 .. Len(candidates) /\ Len(candidates) \in Nat
  BY CandidatesInRow, Appended
<1> HIDE DEF candidates, reverted
<1>5. DOMAIN reverted = 1 .. Len(candidates)
  BY <1>1, <1>4
<1>6. ASSUME NEW id, Remembered(id) # 0
      PROVE  revisions[Remembered(id)].user \in names
  <2> DEFINE found == {i \in 1 .. Len(revisions) : revisions[i].id = id}
  <2>1. Remembered(id) = IF found # {} THEN Max(found) ELSE 0
    BY DEF SelectLastInSeq
  <2> HIDE DEF Remembered
  <2>2. Remembered(id) \in found
    BY <1>3, <1>6, <2>1, Largest
  <2> QED
    BY <1>3, <2>2 DEF ToSet
<1> HIDE DEF Remembered
<1>7. /\ IsASeq(others) /\ Len(others) = Cardinality(kept)
      /\ \A i \in 1 .. Len(others) : Nth(kept, i) \in kept /\ others[i] = reverted[Nth(kept, i)]
  <2>1. \A k \in kept : k \in 1 .. Len(candidates)
    BY <1>5
  <2> HIDE DEF kept
  <2>2. IsASeq(others) /\ Len(others) = Cardinality(kept) /\ Cardinality(kept) \in Nat
    BY <1>4, <2>1, Selected
  <2>3. \A i \in 1 .. Cardinality(kept) : others[i] = reverted[Nth(kept, i)]
    BY <1>4, <2>1, Selected
  <2>4. \A i \in 1 .. Cardinality(kept) : Nth(kept, i) \in kept
    BY <1>4, <2>1, Numbering
  <2> QED
    BY <2>2, <2>3, <2>4
<1>8. DOMAIN others = 1 .. Len(others) /\ Len(others) \in Nat
  BY <1>7, Appended
<1> HIDE DEF others
<1>9. ASSUME NEW i \in 1 .. Len(others)
      PROVE  LET x == Edge(others[i]) IN
             x.fromUser \in names /\ x.toUser \in names /\ x.fromUser # x.toUser
  <2>1. PICK k \in kept : others[i] = reverted[k]
    BY <1>7
  <2>2. /\ Remembered(others[i]) # 0
        /\ revisions[Remembered(others[i])].user # edit.user
    BY <2>1
  <2> QED
    BY <1>1, <1>6, <2>2
<1> HIDE DEF Edge
<1>10. DOMAIN edges = 1 .. Len(others) /\ \A i \in 1 .. Len(others) : edges[i] = Edge(others[i])
  BY <1>2, <1>8
<1>11. edges \in Seq({Edge(others[i]) : i \in 1 .. Len(others)})
  BY <1>2, <1>8
<1>12. EdgesAmong(edges, names)
  BY <1>9, <1>10, <1>11 DEF EdgesAmong, IsASeq, ToSet
<1> QED
  BY <1>12 DEF edges, edit

EdgesBetween == \A p \in Processes : EdgesAmong(memory[p].edges, Users)

\* Only applying and dying touch the edges.
LEMMA StepEdges ==
  Loop!IInv /\ IInv /\ MemoriesTrue /\ EdgesBetween /\ [Next]_vars => EdgesBetween'
<1> SUFFICES ASSUME IInv, MemoriesTrue, EdgesBetween, [Next]_vars PROVE EdgesBetween'
  OBVIOUS
<1>1. Types
  BY DEF IInv
<1>2. CASE UNCHANGED memory
  BY <1>2 DEF EdgesBetween
<1>3. ASSUME NEW p \in Processes, ClassifyAndApply(p) PROVE EdgesBetween'
  <2> DEFINE rev == revision[p]
             mem == memory[p]
             edges == NewEdges(Classify(rev, mem), mem.revisions)
             new == Apply(mem, rev, Classify(rev, mem))
  <2>1. stage[p] = "apply" /\ memory' = [memory EXCEPT ![p] = new]
    BY <1>3 DEF ClassifyAndApply
  <2>2. memory'[p] = new /\ \A q \in Processes \ {p} : memory'[q] = memory[q]
    BY <1>1, <2>1 DEF Types
  <2>3. new.edges = Trim(mem.edges \o edges, RecentEditWindow)
    BY DEF Apply
  <2>4. /\ Faithful(page, unfetched[p], mem, applied[p]) /\ Given(page, unfetched[p], rev)
        /\ EdgesAmong(mem.edges, Users)
    BY <2>1 DEF MemoriesTrue, MemoryTrue, EdgesBetween
  <2> HIDE DEF mem, rev, new
  <2>5. \A i \in 1 .. Len(page) : page[i].user \in Users
    <3>1. \A i \in 1 .. Len(page) : page[i] \in Page
      BY <1>1 DEF Types
    <3> QED
      BY <3>1 DEF Page
  <2>6. /\ IsASeq(mem.revisions) /\ rev.user \in Users
        /\ \A r \in ToSet(mem.revisions) : r.user \in Users
    BY <2>4, <2>5 DEF Faithful, LastOf, Given
  <2>7. EdgesAmong(edges, Users)
    BY <2>6, NewEdgesBetween
  <2> HIDE DEF edges
  <2>8. /\ IsASeq(mem.edges \o edges)
        /\ ToSet(mem.edges \o edges) \subseteq ToSet(mem.edges) \cup ToSet(edges)
    BY <2>4, <2>7, ElementsJoined DEF EdgesAmong
  <2>9. IsASeq(new.edges) /\ ToSet(new.edges) \subseteq ToSet(mem.edges \o edges)
    BY <2>3, <2>8, WindowAssumption, TrimDrops
  <2>10. EdgesAmong(new.edges, Users)
    BY <2>4, <2>7, <2>8, <2>9 DEF EdgesAmong
  <2> QED
    BY <2>2, <2>10 DEF EdgesBetween
<1>4. ASSUME NEW p \in Processes, Die(p) PROVE EdgesBetween'
  <2>1. memory'[p] = EmptyMemory /\ \A q \in Processes \ {p} : memory'[q] = memory[q]
    BY <1>1, <1>4 DEF Die, Types
  <2>2. EdgesAmong(EmptyMemory.edges, Users)
    BY DEF EdgesAmong, EmptyMemory, IsASeq, ToSet
  <2> QED
    BY <2>1, <2>2 DEF EdgesBetween
<1>5. ASSUME NEW p \in Processes,
             \/ Upstream \/ Consume(p) \/ CommitOffset(p) \/ Membership(p) \/ UNCHANGED vars
             \/ ResolveRevision(p) \/ ResolveFallsBack(p)
             \/ Save(p) \/ SaveThrows(p) \/ Publish(p) \/ PublishThrows(p)
      PROVE  EdgesBetween'
  BY <1>2, <1>5, OutsideHandler, HandlerFrames
<1>6. Upstream \/ UNCHANGED vars => UNCHANGED memory
  BY DEF Upstream, SaveRevision, Replay, vars, stateVars
<1> QED
  BY <1>2, <1>3, <1>4, <1>5, <1>6 DEF Next, Handle

\* However its edits reached a process, an edge it remembers leads from one user of the
\* wiki to another.
THEOREM EdgesAreBetweenUsers == Spec => []EdgesBetween
<1>1. Init => EdgesBetween
  <2>1. EdgesAmong(<<>>, Users)
    BY DEF EdgesAmong, IsASeq, ToSet
  <2> QED
    BY <2>1 DEF Init, EdgesBetween, EmptyMemory
<1> QED
  BY <1>1, StepEdges, Inductive, MemoriesFaithful, PTL DEF Spec

\* What Where keeps are elements of the sequence, in a sequence.
LEMMA SelectedAmong ==
    ASSUME NEW seq, IsASeq(seq), NEW indices, \A i \in indices : i \in DOMAIN seq,
           NEW some, some = Picked(seq, indices)
    PROVE  IsASeq(some) /\ ToSet(some) = {seq[i] : i \in indices}
<1>1. DOMAIN seq = 1 .. Len(seq) /\ Len(seq) \in Nat
  BY Appended
<1>2. /\ IsASeq(some) /\ Len(some) = Cardinality(indices)
      /\ \A k \in 1 .. Cardinality(indices) : some[k] = seq[Nth(indices, k)]
  BY <1>1, Selected
<1>3. /\ \A k \in 1 .. Cardinality(indices) : Nth(indices, k) \in indices
      /\ \A i \in indices : \E k \in 1 .. Cardinality(indices) : Nth(indices, k) = i
  BY <1>1, Numbering
<1>4. DOMAIN some = 1 .. Cardinality(indices)
  BY <1>2, Appended
<1>5. ASSUME NEW x \in ToSet(some) PROVE x \in {seq[i] : i \in indices}
  BY <1>2, <1>3, <1>4, <1>5 DEF ToSet
<1>6. ASSUME NEW i \in indices PROVE seq[i] \in ToSet(some)
  <2>1. PICK k \in 1 .. Cardinality(indices) : Nth(indices, k) = i
    BY <1>3
  <2> QED
    BY <1>2, <1>4, <2>1 DEF ToSet
<1> QED
  BY <1>2, <1>5, <1>6

\* Recent keeps what is young enough.
LEMMA RecentAmong ==
    ASSUME NEW entries, IsASeq(entries), NEW edits, NEW age
    PROVE  /\ IsASeq(Recent(entries, edits, age))
           /\ ToSet(Recent(entries, edits, age)) =
                 {e \in ToSet(entries) : e.time >= edits[Len(edits)].time - age}
<1> DEFINE young == {i \in DOMAIN entries : entries[i].time >= edits[Len(edits)].time - age}
<1>1. Recent(entries, edits, age) = Picked(entries, young)
  BY DEF Recent, Where
<1>2. \A i \in young : i \in DOMAIN entries
  OBVIOUS
<1>3. {entries[i] : i \in young} = {e \in ToSet(entries) : e.time >= edits[Len(edits)].time - age}
  BY DEF ToSet
<1> HIDE DEF young
<1> QED
  BY <1>1, <1>2, <1>3, SelectedAmong

\* What has two elements is {u, v} of two different ones, and the reverse.
LEMMA TwoElements ==
    ASSUME NEW pair, IsFiniteSet(pair)
    PROVE  Cardinality(pair) = 2 <=> \E u, v : u # v /\ pair = {u, v}
<1>1. ASSUME NEW u, NEW v, u # v
      PROVE  Cardinality({u, v}) = 2
  <2>1. IsFiniteSet({u}) /\ Cardinality({u}) = 1
    BY FS_Singleton
  <2>2. {u} \cup {v} = {u, v} /\ v \notin {u}
    BY <1>1
  <2>3. Cardinality({u} \cup {v}) = Cardinality({u}) + 1
    BY <2>1, <2>2, FS_AddElement
  <2> QED
    BY <2>1, <2>2, <2>3
<1>2. ASSUME Cardinality(pair) = 2 PROVE \E u, v : u # v /\ pair = {u, v}
  <2>1. PICK u : u \in pair
    <3>1. pair # {}
      BY <1>2, FS_EmptySet
    <3> QED
      BY <3>1
  <2>2. IsFiniteSet(pair \ {u}) /\ Cardinality(pair \ {u}) = 1
    BY <1>2, <2>1, FS_RemoveElement
  <2>3. PICK v : pair \ {u} = {v}
    BY <2>2, FS_Singleton
  <2>4. v \in pair /\ v # u /\ pair = {u, v}
    BY <2>1, <2>3
  <2> QED
    BY <2>4
<1> QED
  BY <1>1, <1>2

\* The arrows of some edges.
ArrowsOf(edges) == {<<x.fromUser, x.toUser>> : x \in ToSet(edges)}

\* The pairs of a pass over edges between some names: those that go both ways.
LEMMA PairsSeen ==
    ASSUME NEW names, NEW edges, EdgesAmong(edges, names)
    PROVE  LET pairs == Seen(edges)[Len(edges)].pairs
           IN  /\ \A pair : pair \in pairs <=> Mutual(pair, ArrowsOf(edges))
               /\ pairs \subseteq SUBSET names
<1> DEFINE n == Len(edges)
           pairs == Seen(edges)[n].pairs
<1>1. n \in Nat /\ DOMAIN edges = 1 .. n
  BY Appended DEF EdgesAmong
<1>2. \A i \in 1 .. n : /\ edges[i].fromUser # edges[i].toUser
                        /\ edges[i].fromUser \in names /\ edges[i].toUser \in names
  BY <1>1 DEF EdgesAmong, ToSet
<1>3. ArrowsUpTo(edges, n) = ArrowsOf(edges)
  BY <1>1 DEF ArrowsUpTo, ArrowsOf, ToSet
<1>4. \A pair : pair \in pairs <=> Mutual(pair, ArrowsOf(edges))
  BY <1>1, <1>2, <1>3, SeenRight DEF PassRight
<1>5. ASSUME NEW pair, Mutual(pair, ArrowsOf(edges)) PROVE pair \subseteq names
  <2>1. PICK u, v : pair = {u, v} /\ <<u, v>> \in ArrowsOf(edges)
    BY <1>5 DEF Mutual
  <2>2. u \in names /\ v \in names
    BY <2>1 DEF ArrowsOf, EdgesAmong
  <2> QED
    BY <2>1, <2>2
<1> QED
  BY <1>4, <1>5

\* The single pass counts the pairs of users that reverted each other within the day,
\* however often and in whatever order, and however the edits reached the process.
THEOREM PairsCounted == Spec => []ReciprocalPairsExact
<1>1. ASSUME EdgesBetween PROVE ReciprocalPairsExact
  <2> SUFFICES ASSUME NEW p \in Processes
               PROVE  LET edges == ToSet(Recent(memory[p].edges, memory[p].edits, Day))
                          Reverted(u, v) == \E e \in edges : e.fromUser = u /\ e.toUser = v
                      IN  CountsOf(memory[p]).pairs =
                              Cardinality({pair \in SUBSET Users :
                                  /\ Cardinality(pair) = 2
                                  /\ \A u, v \in pair : u # v => Reverted(u, v)})
    BY DEF ReciprocalPairsExact
  <2> DEFINE recent == Recent(memory[p].edges, memory[p].edits, Day)
             Reverted(u, v) == \E e \in ToSet(recent) : e.fromUser = u /\ e.toUser = v
             reference == {pair \in SUBSET Users :
                              /\ Cardinality(pair) = 2
                              /\ \A u, v \in pair : u # v => Reverted(u, v)}
             pairs == Seen(recent)[Len(recent)].pairs
  <2>1. CountsOf(memory[p]).pairs = Cardinality(pairs)
    BY DEF CountsOf, CountReciprocalPairs
  <2>2. EdgesAmong(recent, Users)
    <3>1. EdgesAmong(memory[p].edges, Users)
      BY <1>1 DEF EdgesBetween
    <3> QED
      BY <3>1, RecentAmong DEF EdgesAmong
  <2> HIDE DEF recent
  <2>3. /\ \A pair : pair \in pairs <=> Mutual(pair, ArrowsOf(recent))
        /\ pairs \subseteq SUBSET Users
    BY <2>2, PairsSeen
  <2>4. \A u, v : <<u, v>> \in ArrowsOf(recent) <=> Reverted(u, v)
    BY DEF ArrowsOf
  <2>5. \A u, v : Reverted(u, v) => u # v
    BY <2>2 DEF EdgesAmong
  <2> HIDE DEF pairs, Reverted
  <2>6. ASSUME NEW pair \in SUBSET Users
        PROVE  Mutual(pair, ArrowsOf(recent)) <=>
                  Cardinality(pair) = 2 /\ \A u, v \in pair : u # v => Reverted(u, v)
    <3>1. Cardinality(pair) = 2 <=> \E u, v : u # v /\ pair = {u, v}
      BY UsersAssumption, FS_Subset, TwoElements
    <3>2. Mutual(pair, ArrowsOf(recent)) <=>
             \E u, v : pair = {u, v} /\ Reverted(u, v) /\ Reverted(v, u)
      BY <2>4 DEF Mutual
    <3> QED
      BY <2>5, <3>1, <3>2
  <2>7. pairs = reference
    BY <2>3, <2>6
  <2> QED
    BY <2>1, <2>7 DEF Reverted, recent
<1> QED
  BY <1>1, EdgesAreBetweenUsers, PTL

---------------------------------------------------------------------------
(* The score.                                                              *)

\* A prefix, element by element.
LEMMA PrefixFacts ==
    ASSUME NEW s, NEW t, IsASeq(s), IsASeq(t)
    PROVE  IsPrefix(s, t) <=> Len(s) <= Len(t) /\ \A i \in 1 .. Len(s) : s[i] = t[i]
<1>1. PICK S : s \in Seq(S)
  BY DEF IsASeq
<1>2. PICK T : t \in Seq(T)
  BY DEF IsASeq
<1>3. CASE Len(s) <= Len(t)
  <2> DEFINE a == SubSeq(s, 1, Len(s))
             b == SubSeq(t, 1, Len(s))
  <2>1. /\ a \in Seq(S) /\ Len(a) = Len(s) /\ \A i \in 1 .. Len(s) : a[i] = s[i]
    BY <1>1
  <2>2. /\ b \in Seq(T) /\ Len(b) = Len(s) /\ \A i \in 1 .. Len(s) : b[i] = t[i]
    BY <1>1, <1>2, <1>3
  <2>3. IsPrefix(s, t) <=> a = b
    BY <1>3 DEF IsPrefix
  <2> HIDE DEF a, b
  <2>4. a = b <=> \A i \in 1 .. Len(s) : a[i] = b[i]
    <3>1. a = [i \in 1 .. Len(s) |-> a[i]] /\ b = [i \in 1 .. Len(s) |-> b[i]]
      BY <2>1, <2>2
    <3> QED
      BY <3>1
  <2> QED
    BY <1>3, <2>1, <2>2, <2>3, <2>4
<1>4. CASE ~(Len(s) <= Len(t))
  BY <1>4 DEF IsPrefix
<1> QED
  BY <1>3, <1>4

\* Where two sets of indices agree up to a number, so do those of each rank.
LEMMA SameNth ==
    ASSUME NEW n \in Nat, NEW m \in Nat, NEW A, NEW B,
           \A i \in A : i \in 1 .. n, \A i \in B : i \in 1 .. m,
           A \subseteq B, \A i \in B : i <= n => i \in A
    PROVE  /\ Cardinality(A) \in Nat /\ Cardinality(B) \in Nat /\ Cardinality(A) <= Cardinality(B)
           /\ \A k \in 1 .. Cardinality(A) : Nth(B, k) = Nth(A, k) /\ Nth(A, k) \in A
<1>1. IsFiniteSet(B) /\ Cardinality(B) \in Nat
  BY Ranks
<1>2. Cardinality(A) \in Nat /\ Cardinality(A) <= Cardinality(B)
  BY <1>1, FS_Subset, FS_CardinalityType
<1>3. ASSUME NEW i \in A PROVE UpTo(A, i) = UpTo(B, i)
  BY <1>3 DEF UpTo
<1>4. ASSUME NEW l \in Nat, NEW h \in B, l < h
      PROVE  Cardinality(UpTo(B, l)) < Cardinality(UpTo(B, h))
  BY <1>4, Ranks
<1>5. ASSUME NEW k \in 1 .. Cardinality(A) PROVE Nth(B, k) = Nth(A, k) /\ Nth(A, k) \in A
  <2>1. Nth(A, k) \in A
    BY Numbering
  <2>2. Cardinality(UpTo(A, Nth(A, k))) = k
    BY Numbering
  <2>3. Nth(A, k) \in B /\ Cardinality(UpTo(B, Nth(A, k))) = k
    BY <1>3, <2>1, <2>2
  <2>4. Nth(B, k) \in B /\ Cardinality(UpTo(B, Nth(B, k))) = k
    BY <2>3 DEF Nth
  <2>5. Nth(A, k) \in Nat /\ Nth(B, k) \in Nat
    BY <2>3, <2>4
  <2>6. ~(k < k)
    BY <1>2
  <2>7. ~(Nth(A, k) < Nth(B, k)) /\ ~(Nth(B, k) < Nth(A, k))
    BY <1>4, <2>3, <2>4, <2>5, <2>6
  <2> QED
    BY <2>1, <2>5, <2>7
<1> QED
  BY <1>1, <1>2, <1>5

\* What is selected from a prefix is a prefix of what is selected from the whole.
LEMMA SelectedPrefix ==
    ASSUME NEW s, NEW t, IsASeq(s), IsASeq(t), IsPrefix(s, t),
           NEW A, NEW B, \A i \in A : i \in DOMAIN s, \A i \in B : i \in DOMAIN t,
           \A i \in DOMAIN s : i \in A <=> i \in B
    PROVE  IsPrefix(Picked(s, A), Picked(t, B))
<1> DEFINE a == Cardinality(A)
           ps == Picked(s, A)
           pt == Picked(t, B)
<1>1. /\ Len(s) \in Nat /\ Len(t) \in Nat /\ DOMAIN s = 1 .. Len(s) /\ DOMAIN t = 1 .. Len(t)
      /\ Len(s) <= Len(t) /\ \A i \in 1 .. Len(s) : s[i] = t[i]
  BY Appended, PrefixFacts
<1>2. (\A i \in A : i \in 1 .. Len(s)) /\ (\A i \in B : i \in 1 .. Len(t))
  BY <1>1
<1>4. /\ a \in Nat /\ Cardinality(B) \in Nat /\ a <= Cardinality(B)
      /\ \A k \in 1 .. a : Nth(B, k) = Nth(A, k) /\ Nth(A, k) \in A
  <2> DEFINE n == Len(s)
             m == Len(t)
  <2>1. n \in Nat /\ m \in Nat
    BY <1>1
  <2>2. \A i \in A : i \in 1 .. n
    BY <1>2
  <2>3. \A i \in B : i \in 1 .. m
    BY <1>2
  <2>4. A \subseteq B /\ \A i \in B : i <= n => i \in A
    BY <1>1, <1>2
  <2> HIDE DEF n, m
  <2> QED
    BY ONLY <2>1, <2>2, <2>3, <2>4, SameNth
<1>5. /\ IsASeq(ps) /\ Len(ps) = a
      /\ \A k \in 1 .. a : ps[k] = s[Nth(A, k)]
  BY <1>1, <1>2, Selected
<1>6. /\ IsASeq(pt) /\ Len(pt) = Cardinality(B)
      /\ \A k \in 1 .. Cardinality(B) : pt[k] = t[Nth(B, k)]
  BY <1>1, <1>2, Selected
<1> HIDE DEF a, ps, pt
<1>7. ASSUME NEW k \in 1 .. a PROVE ps[k] = pt[k]
  <2>1. k \in 1 .. Cardinality(B) /\ Nth(A, k) \in 1 .. Len(s)
    BY <1>2, <1>4
  <2> QED
    BY <1>1, <1>4, <1>5, <1>6, <2>1
<1>8. IsPrefix(ps, pt)
  BY <1>4, <1>5, <1>6, <1>7, PrefixFacts
<1> QED
  BY <1>8 DEF ps, pt

\* Where the young entries of a sequence are.
Young(entries, edits, age) ==
    {i \in DOMAIN entries : entries[i].time >= edits[Len(edits)].time - age}

\* A window that is written out again with one edit more.
NextWindow(old, new, edit) ==
    /\ IsASeq(old) /\ IsASeq(new) /\ Len(old) \in Nat \ {0} /\ Len(new) \in 1 .. Len(old) + 1
    /\ \A i \in 1 .. Len(old) : old[i].time \in Int
    /\ edit.time \in Int
    /\ \A i \in 1 .. Len(new) - 1 : new[i] = old[Len(old) + 1 - Len(new) + i]
    /\ new[Len(new)] = edit

\* When the young edits are all still there at the head of the young edits, none is young
\* again that was not before: it would come before the last edit of before, and leave no
\* room there for all of them.
LEMMA NothingReturns ==
    ASSUME NEW old, NEW new, NEW edit, NextWindow(old, new, edit), NEW age \in Nat,
           IsPrefix(Recent(old, old, age), Recent(new, new, age)),
           NEW i \in 1 .. Len(new) - 1, i \in Young(new, new, age)
    PROVE  Len(old) + 1 - Len(new) + i \in Young(old, old, age)
<1> DEFINE n == Len(old)
           m == Len(new)
           d == n + 1 - m
           A == Young(old, old, age)
           B == Young(new, new, age)
           k == Cardinality(A)
           R == Recent(old, old, age)
           S == Recent(new, new, age)
           cut == old[n].time - age
<1>1. /\ n \in Nat \ {0} /\ m \in 1 .. n + 1 /\ DOMAIN old = 1 .. n /\ DOMAIN new = 1 .. m
      /\ \A j \in 1 .. n : old[j].time \in Int
      /\ \A j \in 1 .. m - 1 : new[j] = old[d + j]
  BY Appended DEF NextWindow
<1>2. A = {j \in 1 .. n : old[j].time >= cut}
  BY <1>1 DEF Young
<1>3. \A j \in B : j \in 1 .. m
  BY <1>1 DEF Young
<1>4. R = Picked(old, A) /\ S = Picked(new, B)
  BY DEF Recent, Where, Young
<1>5. IsASeq(R) /\ IsASeq(S)
  BY RecentAmong DEF NextWindow
<1> HIDE DEF n, m, A, B, R, S
<1>6. \A j \in A : j \in 1 .. n
  BY <1>2
<1>7. IsFiniteSet(A) /\ k \in Nat
  BY <1>1, <1>6, Ranks
<1>8. /\ Len(R) = k
      /\ \A j \in 1 .. k : R[j] = old[Nth(A, j)] /\ Nth(A, j) \in A
  BY <1>1, <1>4, <1>6, Selected, Numbering
<1>9. /\ Len(S) = Cardinality(B)
      /\ \A j \in 1 .. Cardinality(B) : S[j] = new[Nth(B, j)] /\ Nth(B, j) \in B
      /\ \A h, l \in 1 .. Cardinality(B) : h < l => Nth(B, h) < Nth(B, l)
      /\ Cardinality(B) \in Nat
  BY <1>1, <1>3, <1>4, Selected, Numbering
<1>10. k <= Cardinality(B) /\ \A j \in 1 .. k : R[j] = S[j]
  <2>1. IsPrefix(R, S)
    BY DEF R, S
  <2> QED
    BY <1>5, <1>8, <1>9, <2>1, PrefixFacts
<1>11. n \in A
  BY <1>1, <1>2
<1> SUFFICES ASSUME d + i \notin A PROVE FALSE
  BY DEF n, m, A
<1>12. i \in 1 .. m - 1 /\ d + i \in 1 .. n /\ d + i # n /\ new[i] = old[d + i]
  BY <1>1, <1>11 DEF m
<1>13. ~(new[i].time >= cut)
  BY <1>2, <1>12
<1>14. PICK q \in 1 .. Cardinality(B) : Nth(B, q) = i
  <2>1. i \in B
    BY DEF B
  <2>2. m \in Nat
    BY <1>1
  <2>3. \A j \in B : \E h \in 1 .. Cardinality(B) : Nth(B, h) = j
    BY ONLY <1>3, <2>2, Numbering
  <2> QED
    BY <2>1, <2>3
<1>15. ASSUME NEW j \in 1 .. k
       PROVE  /\ Nth(B, j) \in 1 .. m - 1 /\ d + Nth(B, j) \in A \ {n}
              /\ j \in 1 .. Cardinality(B)
  <2>1. j \in 1 .. Cardinality(B)
    BY <1>7, <1>9, <1>10
  <2>2. new[Nth(B, j)] = old[Nth(A, j)] /\ Nth(A, j) \in A /\ Nth(B, j) \in B
    BY <1>8, <1>9, <1>10, <2>1
  <2>3. new[Nth(B, j)].time >= cut
    BY <1>2, <2>2
  <2> DEFINE x == Nth(B, j)
  <2>4. \A h \in 1 .. k : h # q
    <3>1. ASSUME NEW h \in 1 .. k, h = q PROVE FALSE
      <4>1. h \in 1 .. Cardinality(B)
        BY <1>7, <1>9, <1>10
      <4>2. new[Nth(B, h)] = old[Nth(A, h)] /\ Nth(A, h) \in A
        BY <1>8, <1>9, <1>10, <4>1
      <4>3. old[Nth(A, h)].time >= cut
        BY <1>2, <4>2
      <4> QED
        BY <1>13, <1>14, <3>1, <4>2, <4>3
    <3> QED
      BY <3>1
  <2>5. j < q
    BY <1>7, <1>9, <2>4
  <2>6. x < i
    BY <1>9, <1>14, <2>1, <2>5
  <2>7. x \in 1 .. m
    BY <1>3, <2>2
  <2> HIDE DEF x
  <2>8. x \in 1 .. m - 1 /\ d + x \in 1 .. n - 1
    BY <1>1, <1>12, <2>6, <2>7
  <2>9. old[d + x].time >= cut
    BY <1>1, <2>3, <2>8 DEF x
  <2> QED
    BY <1>1, <1>2, <2>1, <2>8, <2>9 DEF x
<1> DEFINE f == [j \in 1 .. k |-> d + Nth(B, j)]
<1>16. f \in [1 .. k -> A \ {n}]
  BY <1>15
<1>17. IsFiniteSet(A \ {n}) /\ Cardinality(A \ {n}) = k - 1
  <2> DEFINE others == A \ {n}
  <2>1. Cardinality(others) = IF n \in A THEN Cardinality(A) - 1 ELSE Cardinality(A)
    BY <1>7, FS_RemoveElement
  <2>2. IsFiniteSet(others)
    BY <1>7, FS_RemoveElement
  <2> HIDE DEF others
  <2>3. IsFiniteSet(others) /\ Cardinality(others) = k - 1
    BY <1>11, <2>1, <2>2
  <2> QED
    BY <2>3 DEF others
<1>18. IsFiniteSet(1 .. k) /\ Cardinality(1 .. k) = k
  <2> HIDE DEF k
  <2>1. k \in Int /\ 1 \in Int /\ (1 > k => k = 0)
    BY <1>7
  <2>2. IsFiniteSet(1 .. k)
    BY ONLY <2>1, FS_Interval
  <2>3. Cardinality(1 .. k) = IF 1 > k THEN 0 ELSE k - 1 + 1
    BY ONLY <2>1, FS_Interval
  <2> QED
    BY <2>1, <2>2, <2>3
<1>19. \E h, l \in 1 .. k : h # l /\ f[h] = f[l]
  <2> HIDE DEF f, k
  <2>1. Cardinality(A \ {n}) < Cardinality(1 .. k)
    BY <1>7, <1>17, <1>18
  <2> QED
    BY <1>16, <1>17, <1>18, <2>1, FS_PigeonHole
<1>20. PICK h \in 1 .. k, l \in 1 .. k : h # l /\ f[h] = f[l]
  BY <1>19
<1>21. Nth(B, h) = Nth(B, l)
  <2>1. Nth(B, h) \in Int /\ Nth(B, l) \in Int /\ d \in Int
    BY <1>1, <1>15
  <2> QED
    BY <1>20, <2>1
<1>22. h < l \/ l < h
  BY <1>7, <1>20
<1> QED
  BY <1>9, <1>15, <1>21, <1>22

\* What Having keeps of a selection, it keeps at the indices of the selection.
LEMMA HavingCount ==
    ASSUME NEW edits, IsASeq(edits), NEW actions
    PROVE  /\ IsASeq(Having(edits, actions))
           /\ Len(Having(edits, actions)) =
                 Cardinality({i \in 1 .. Len(edits) : edits[i].action \in actions})
           /\ Len(Having(edits, actions)) \in 0 .. Len(edits)
<1> DEFINE some == {i \in 1 .. Len(edits) : edits[i].action \in actions}
<1>1. DOMAIN edits = 1 .. Len(edits) /\ Len(edits) \in Nat
  BY Appended
<1>2. Having(edits, actions) = Picked(edits, some)
  BY <1>1 DEF Having, Where
<1>3. \A i \in some : i \in 1 .. Len(edits)
  OBVIOUS
<1> HIDE DEF some
<1>4. Cardinality(some) \in 0 .. Len(edits)
  BY <1>1, <1>3, Ranks
<1>5. IsASeq(Picked(edits, some)) /\ Len(Picked(edits, some)) = Cardinality(some)
  BY <1>1, <1>3, Selected
<1> QED
  BY <1>2, <1>4, <1>5 DEF some

\* So of actions that the new edit does not have, the window holds no more than before.
LEMMA NoMoreOf ==
    ASSUME NEW old, NEW new, NEW edit, NextWindow(old, new, edit), NEW age \in Nat,
           IsPrefix(Recent(old, old, age), Recent(new, new, age)),
           NEW actions, edit.action \notin actions
    PROVE  Len(Having(Recent(new, new, age), actions)) <= Len(Having(Recent(old, old, age), actions))
<1> DEFINE n == Len(old)
           m == Len(new)
           d == n + 1 - m
           A == Young(old, old, age)
           B == Young(new, new, age)
           k == Cardinality(A)
           l == Cardinality(B)
           R == Recent(old, old, age)
           S == Recent(new, new, age)
           before == {i \in 1 .. Len(R) : R[i].action \in actions}
           after == {i \in 1 .. Len(S) : S[i].action \in actions}
<1>1. /\ n \in Nat \ {0} /\ m \in 1 .. n + 1 /\ DOMAIN old = 1 .. n /\ DOMAIN new = 1 .. m
      /\ \A j \in 1 .. m - 1 : new[j] = old[d + j]
      /\ new[m] = edit
  BY Appended DEF NextWindow
<1>2. IsASeq(R) /\ IsASeq(S)
  BY RecentAmong DEF NextWindow
<1>3. Len(Having(R, actions)) = Cardinality(before) /\ Len(Having(S, actions)) = Cardinality(after)
  BY <1>2, HavingCount
<1>4. R = Picked(old, A) /\ S = Picked(new, B)
  BY DEF Recent, Where, Young
<1>5. \A i \in A : i \in 1 .. n
  BY <1>1 DEF Young
<1>6. \A i \in B : i \in 1 .. m
  BY <1>1 DEF Young
<1>7. \A i \in 1 .. m - 1 : i \in B => d + i \in A
  BY NothingReturns
<1> HIDE DEF n, m, A, B, R, S
<1>8. /\ Len(R) = k /\ k \in Nat
      /\ \A j \in 1 .. k : R[j] = old[Nth(A, j)]
      /\ \A i \in A : \E j \in 1 .. k : Nth(A, j) = i
  <2>1. n \in Nat
    BY <1>1
  <2>2. \A i \in A : \E j \in 1 .. k : Nth(A, j) = i
    BY ONLY <2>1, <1>5, Numbering
  <2> QED
    BY ONLY <2>1, <2>2, <1>4, <1>5, Selected
<1>9. /\ Len(S) = l /\ l \in Nat
      /\ \A j \in 1 .. l : S[j] = new[Nth(B, j)] /\ Nth(B, j) \in B
      /\ \A h, j \in 1 .. l : h < j => Nth(B, h) < Nth(B, j)
  <2>1. m \in Nat
    BY <1>1
  <2>2. \A j \in 1 .. l : Nth(B, j) \in B
    BY ONLY <2>1, <1>6, Numbering
  <2>3. \A h, j \in 1 .. l : h < j => Nth(B, h) < Nth(B, j)
    BY ONLY <2>1, <1>6, Numbering
  <2>4. Len(S) = l /\ l \in Nat /\ \A j \in 1 .. l : S[j] = new[Nth(B, j)]
    BY ONLY <2>1, <1>4, <1>6, Selected
  <2> QED
    BY <2>2, <2>3, <2>4
<1> HIDE DEF k, l
<1>10. ASSUME NEW j \in after
       PROVE  /\ j \in 1 .. l /\ Nth(B, j) \in 1 .. m - 1
              /\ \E i \in before : Nth(A, i) = d + Nth(B, j)
  <2>1. j \in 1 .. l /\ S[j].action \in actions
    BY <1>9
  <2>2. S[j] = new[Nth(B, j)] /\ Nth(B, j) \in B /\ Nth(B, j) \in 1 .. m
    BY <1>6, <1>9, <2>1
  <2>3. Nth(B, j) \in 1 .. m - 1
    BY <1>1, <2>1, <2>2
  <2>4. d + Nth(B, j) \in A /\ new[Nth(B, j)] = old[d + Nth(B, j)]
    BY <1>1, <1>7, <2>2, <2>3
  <2>5. PICK i \in 1 .. k : Nth(A, i) = d + Nth(B, j)
    BY <1>8, <2>4
  <2>6. R[i] = S[j]
    BY <1>8, <2>2, <2>4, <2>5
  <2> QED
    BY <1>8, <2>1, <2>3, <2>5, <2>6
<1> DEFINE f == [j \in after |-> CHOOSE i \in before : Nth(A, i) = d + Nth(B, j)]
<1>11. \A j \in after : f[j] \in before /\ Nth(A, f[j]) = d + Nth(B, j)
  BY <1>10
<1>12. ASSUME NEW h \in after, NEW j \in after, f[h] = f[j]
       PROVE  h = j
  <2>1. d + Nth(B, h) = d + Nth(B, j)
    BY <1>11, <1>12
  <2>2. h \in 1 .. l /\ j \in 1 .. l /\ Nth(B, h) \in Int /\ Nth(B, j) \in Int /\ d \in Int
    BY <1>1, <1>10
  <2>3. Nth(B, h) = Nth(B, j)
    BY <2>1, <2>2
  <2>4. ~(h < j) /\ ~(j < h)
    BY <1>9, <2>2, <2>3
  <2> QED
    BY <1>9, <2>2, <2>4
<1>13. IsFiniteSet(before)
  <2>1. before \subseteq 1 .. k /\ IsFiniteSet(1 .. k)
    BY <1>8, FS_Interval
  <2> QED
    BY <2>1, FS_Subset
<1>14. f \in Injection(after, before)
  <2>1. f \in [after -> before]
    BY <1>11
  <2> HIDE DEF f, before, after
  <2> QED
    BY <1>12, <2>1 DEF Injection, IsInjective
<1>15. Cardinality(after) <= Cardinality(before)
  <2> HIDE DEF f, before, after
  <2> QED
    BY <1>13, <1>14, FS_Injection
<1> QED
  BY <1>3, <1>15 DEF R, S

\* The reverts of a user are counted again among the edits that still are of the day.
LEMMA CountedAgain ==
    ASSUME NEW old, NEW new, IsASeq(old), IsASeq(new), NEW user,
           IsPrefix(Recent(old, old, Day), Recent(new, new, Day))
    PROVE  /\ IsPrefix(CountedReverts(old, user), CountedReverts(new, user))
           /\ IsASeq(CountedReverts(old, user)) /\ IsASeq(CountedReverts(new, user))
           /\ \A e \in ToSet(CountedReverts(new, user)) : e \in ToSet(new) /\ e.user = user
<1> DEFINE Reverts(edits) == Having(Recent(edits, edits, Day), {"ExactRevert"})
           A(edits) == {i \in DOMAIN Recent(edits, edits, Day) :
                           Recent(edits, edits, Day)[i].action \in {"ExactRevert"}}
           B(edits) == {i \in DOMAIN Reverts(edits) : Reverts(edits)[i].user = user}
           R(edits) == Recent(edits, edits, Day)
           C(edits) == CountedReverts(edits, user)
<1>1. /\ IsASeq(R(old)) /\ IsASeq(R(new))
      /\ ToSet(R(new)) \subseteq ToSet(new)
  BY RecentAmong
<1>2. \A edits : Reverts(edits) = Picked(R(edits), A(edits)) /\ C(edits) = Picked(Reverts(edits), B(edits))
  BY DEF Having, CountedReverts, Where
<1>3. \A edits : (\A i \in A(edits) : i \in DOMAIN R(edits)) /\ \A i \in B(edits) : i \in DOMAIN Reverts(edits)
  OBVIOUS
<1>4. IsPrefix(R(old), R(new))
  OBVIOUS
<1>5. \A i \in DOMAIN R(old) : i \in A(old) <=> i \in A(new)
  BY <1>1, <1>4, PrefixFacts, Appended
<1> HIDE DEF R, A
<1>6. IsPrefix(Reverts(old), Reverts(new))
  <2> HIDE DEF Reverts, B
  <2> QED
    BY <1>1, <1>2, <1>3, <1>4, <1>5, SelectedPrefix
<1>7. /\ IsASeq(Reverts(old)) /\ IsASeq(Reverts(new))
      /\ ToSet(Reverts(new)) \subseteq ToSet(R(new))
  <2> HIDE DEF Reverts, B
  <2>1. IsASeq(Reverts(old))
    BY <1>1, <1>2, <1>3, SelectedAmong
  <2>2. IsASeq(Reverts(new)) /\ ToSet(Reverts(new)) = {R(new)[i] : i \in A(new)}
    BY <1>1, <1>2, <1>3, SelectedAmong
  <2> QED
    BY <1>3, <2>1, <2>2 DEF ToSet
<1> HIDE DEF Reverts
<1>8. \A i \in DOMAIN Reverts(old) : i \in B(old) <=> i \in B(new)
  BY <1>6, <1>7, PrefixFacts, Appended
<1>9. \A i \in B(new) : Reverts(new)[i].user = user
  OBVIOUS
<1> HIDE DEF B, C
<1>10. IsPrefix(C(old), C(new))
  BY <1>2, <1>3, <1>6, <1>7, <1>8, SelectedPrefix
<1>11. IsASeq(C(old))
  BY <1>2, <1>3, <1>7, SelectedAmong
<1>12. IsASeq(C(new)) /\ ToSet(C(new)) = {Reverts(new)[i] : i \in B(new)}
  BY <1>2, <1>3, <1>7, SelectedAmong
<1>13. ASSUME NEW e \in ToSet(C(new)) PROVE e \in ToSet(new) /\ e.user = user
  <2>1. PICK i \in B(new) : e = Reverts(new)[i]
    BY <1>12
  <2>2. e \in ToSet(Reverts(new)) /\ e.user = user
    BY <1>3, <1>9, <2>1 DEF ToSet
  <2> QED
    BY <1>1, <1>7, <2>2
<1> QED
  BY <1>10, <1>11, <1>12, <1>13 DEF C

\* A risk stays while nothing of the day is lost.
LEMMA RiskStays ==
    ASSUME NEW old, NEW new, IsASeq(old), IsASeq(new),
           IsPrefix(Recent(old, old, Day), Recent(new, new, Day)), HasThreeRevertRisk(old)
    PROVE  HasThreeRevertRisk(new)
<1>1. PICK k \in DOMAIN old : Len(CountedReverts(old, old[k].user)) >= 3
  BY DEF HasThreeRevertRisk, ThreeRevertLimit
<1> DEFINE user == old[k].user
           before == CountedReverts(old, user)
           after == CountedReverts(new, user)
<1>2. /\ IsPrefix(before, after) /\ IsASeq(before) /\ IsASeq(after)
      /\ \A e \in ToSet(after) : e \in ToSet(new) /\ e.user = user
  BY CountedAgain
<1>3. Len(before) >= 3
  BY <1>1
<1> HIDE DEF before, after, user
<1>4. Len(after) >= 3 /\ Len(after) \in Nat /\ DOMAIN after = 1 .. Len(after)
  <2>1. Len(before) <= Len(after)
    BY <1>2, PrefixFacts
  <2>2. Len(before) \in Nat /\ Len(after) \in Nat /\ DOMAIN after = 1 .. Len(after)
    BY <1>2, Appended
  <2> QED
    BY <1>3, <2>1, <2>2
<1>5. after[1] \in ToSet(after)
  BY <1>4 DEF ToSet
<1>6. PICK j \in DOMAIN new : new[j].user = user
  <2>1. PICK j \in DOMAIN new : new[j] = after[1]
    BY <1>2, <1>5 DEF ToSet
  <2> QED
    BY <1>2, <1>5, <2>1
<1> QED
  BY <1>4, <1>6 DEF HasThreeRevertRisk, ThreeRevertLimit, after

\* More of what is worth points is worth no fewer.
LEMMA GainsGrow ==
    ASSUME NEW c, NEW d,
           c.edits \in Nat, c.reverts \in Nat, c.pairs \in Nat, c.participants \in Nat,
           d.edits \in Nat, d.reverts \in Nat, d.pairs \in Nat, d.participants \in Nat,
           c.edits <= d.edits, c.reverts <= d.reverts, c.pairs <= d.pairs,
           c.participants <= d.participants, c.risk => d.risk
    PROVE  Gains(c) \in Nat /\ Gains(d) \in Nat /\ Gains(c) <= Gains(d)
<1>1. ASSUME NEW x \in Nat, NEW y \in Nat, x <= y, NEW cap \in Nat
      PROVE  Capped(x, cap) \in Nat /\ Capped(y, cap) \in Nat /\ Capped(x, cap) <= Capped(y, cap)
  BY <1>1 DEF Capped
<1> DEFINE E(s) == Capped(s.edits, 20)
           R(s) == Capped(s.reverts, 6)
           P(s) == Capped(s.pairs, 2)
           Q(s) == Capped(s.participants, 8)
           K(s) == IF s.risk THEN 1000 ELSE 0
<1>2. E(c) \in Nat /\ E(d) \in Nat /\ E(c) <= E(d)
  BY <1>1
<1>3. R(c) \in Nat /\ R(d) \in Nat /\ R(c) <= R(d)
  BY <1>1
<1>4. P(c) \in Nat /\ P(d) \in Nat /\ P(c) <= P(d)
  BY <1>1
<1>5. Q(c) \in Nat /\ Q(d) \in Nat /\ Q(c) <= Q(d)
  BY <1>1
<1>6. K(c) \in Nat /\ K(d) \in Nat /\ K(c) <= K(d)
  OBVIOUS
<1>7. \A s : Gains(s) = 50 * E(s) + 500 * R(s) + 1250 * P(s) + 125 * Q(s) + K(s)
  BY DEF Gains
<1> HIDE DEF E, R, P, Q, K
<1> QED
  BY <1>2, <1>3, <1>4, <1>5, <1>6, <1>7

\* A score of more gains and more reverts, with no more cleanups, is not lower: the
\* penalty is a share of the reverts.
LEMMA ScoreGrows ==
    ASSUME NEW c, NEW d, Gains(c) \in Nat, Gains(d) \in Nat, Gains(c) <= Gains(d),
           c.reverts \in Nat, d.reverts \in Nat, c.reverts <= d.reverts,
           c.cleanups \in Nat, d.cleanups \in Nat, d.cleanups <= c.cleanups
    PROVE  LET before == Calculate(c)
               after == Calculate(d)
           IN  before.num * after.den <= after.num * before.den
<1> DEFINE x == Denominator(c)
           y == Denominator(d)
           g == Gains(c)
           h == Gains(d)
           s == 2000 * c.cleanups
           t == 2000 * d.cleanups
           p == g * x - s
           q == h * y - t
<1>1. /\ x \in Nat \ {0} /\ y \in Nat \ {0} /\ x <= y
      /\ g \in Nat /\ h \in Nat /\ g <= h
      /\ s \in Nat /\ t \in Nat /\ t <= s
  BY DEF Denominator
<1>2. /\ Calculate(c) = [num |-> Clamp(p, 0, 10000 * x), den |-> x]
      /\ Calculate(d) = [num |-> Clamp(q, 0, 10000 * y), den |-> y]
  BY DEF Calculate, Denominator
<1> HIDE DEF x, y, g, h, s, t
<1>3. p \in Int /\ q \in Int
  BY <1>1
<1>4. p * y <= q * x
  <2>1. (g * x) * y <= (h * y) * x
    <3>1. x * y \in Nat \ {0}
      BY <1>1
    <3>2. g * (x * y) <= h * (x * y)
      BY <1>1, <3>1, ProductOrder
    <3>3. (g * x) * y = g * (x * y) /\ (h * y) * x = h * (x * y)
      BY <1>1
    <3> QED
      BY <3>2, <3>3
  <2>2. t * x <= s * y
    <3>1. t * x <= s * x
      BY <1>1, ProductOrder
    <3>2. s * x <= s * y
      BY <1>1
    <3>3. t * x \in Int /\ s * x \in Int /\ s * y \in Int
      BY <1>1
    <3> QED
      BY <3>1, <3>2, <3>3
  <2>3. p * y = (g * x) * y - s * y /\ q * x = (h * y) * x - t * x
    BY <1>1
  <2>4. (g * x) * y \in Int /\ (h * y) * x \in Int /\ t * x \in Int /\ s * y \in Int
    BY <1>1
  <2> QED
    BY <2>1, <2>2, <2>3, <2>4
<1> HIDE DEF p, q
<1> DEFINE a == Clamp(p, 0, 10000 * x)
           b == Clamp(q, 0, 10000 * y)
<1>5. /\ a \in Nat /\ a <= 10000 * x /\ (a = 0 \/ a <= p)
      /\ b \in Nat /\ (b = 10000 * y \/ (b >= q /\ b >= 0))
  BY <1>1, <1>3 DEF Clamp
<1> HIDE DEF a, b
<1>6. a * y <= b * x
  <2>1. CASE a = 0
    BY <1>1, <1>5, <2>1
  <2>2. CASE b = 10000 * y
    <3>1. a * y <= (10000 * x) * y
      BY <1>1, <1>5, ProductOrder
    <3>2. (10000 * x) * y = (10000 * y) * x
      BY <1>1
    <3> QED
      BY <2>2, <3>1, <3>2
  <2>3. CASE a <= p /\ b >= q
    <3>1. a * y <= p * y
      BY <1>1, <1>3, <1>5, <2>3, ProductOrder
    <3>2. q * x <= b * x
      BY <1>1, <1>3, <1>5, <2>3, ProductOrder
    <3>3. a * y \in Int /\ p * y \in Int /\ q * x \in Int /\ b * x \in Int
      BY <1>1, <1>3, <1>5
    <3> QED
      BY <1>4, <3>1, <3>2, <3>3
  <2> QED
    BY <1>5, <2>1, <2>2, <2>3
<1> QED
  BY <1>2, <1>6 DEF a, b

\* A window of edits and edges of known users.
KnownMemory(mem) ==
    /\ IsASeq(mem.edits) /\ EdgesAmong(mem.edges, Users)
    /\ \A e \in ToSet(mem.edits) : e.user \in Users

\* What the score is computed from are numbers.
LEMMA CountsAreNumbers ==
    ASSUME NEW mem, KnownMemory(mem), NEW c, c = CountsOf(mem)
    PROVE  /\ c.edits \in Nat /\ c.reverts \in Nat /\ c.cleanups \in Nat
           /\ c.pairs \in Nat /\ c.participants \in Nat
<1> DEFINE quarter == Recent(mem.edits, mem.edits, SixHours)
           day == Recent(mem.edits, mem.edits, Day)
           edges == Recent(mem.edges, mem.edits, Day)
<1>1. /\ c.edits = Len(quarter) /\ c.reverts = Len(Having(quarter, NonSelfReverts))
      /\ c.cleanups = Len(Having(quarter, CleanupActions))
      /\ c.pairs = Cardinality(Seen(edges)[Len(edges)].pairs)
      /\ c.participants = Cardinality(Authors(day))
  BY DEF CountsOf, CountReciprocalPairs
<1>2. IsASeq(quarter) /\ IsASeq(day) /\ ToSet(day) \subseteq ToSet(mem.edits)
  BY RecentAmong DEF KnownMemory
<1>3. EdgesAmong(edges, Users)
  BY RecentAmong DEF KnownMemory, EdgesAmong
<1>4. IsFiniteSet(Authors(day))
  <2>1. Authors(day) \subseteq Users
    BY <1>2 DEF Authors, KnownMemory, ToSet
  <2> QED
    BY <2>1, UsersAssumption, FS_Subset
<1>5. IsFiniteSet(Seen(edges)[Len(edges)].pairs)
  <2> DEFINE pairs == Seen(edges)[Len(edges)].pairs
  <2>1. pairs \subseteq SUBSET Users
    BY <1>3, PairsSeen
  <2>2. IsFiniteSet(SUBSET Users)
    BY UsersAssumption, FS_SUBSET
  <2> HIDE DEF pairs
  <2> QED
    BY <2>1, <2>2, FS_Subset DEF pairs
<1> HIDE DEF quarter, day, edges
<1>6. Len(quarter) \in Nat
  BY <1>2, Appended
<1>7. Len(Having(quarter, NonSelfReverts)) \in Nat /\ Len(Having(quarter, CleanupActions)) \in Nat
  BY <1>2, <1>6, HavingCount
<1> QED
  BY <1>1, <1>4, <1>5, <1>6, <1>7, FS_CardinalityType

\* A selection of a prefix is no longer than that of the whole.
LEMMA HavingGrows ==
    ASSUME NEW s, NEW t, IsASeq(s), IsASeq(t), IsPrefix(s, t), NEW actions
    PROVE  Len(Having(s, actions)) <= Len(Having(t, actions))
<1> DEFINE A == {i \in DOMAIN s : s[i].action \in actions}
           B == {i \in DOMAIN t : t[i].action \in actions}
<1>1. Having(s, actions) = Picked(s, A) /\ Having(t, actions) = Picked(t, B)
  BY DEF Having, Where
<1>2. /\ \A i \in A : i \in DOMAIN s
      /\ \A i \in B : i \in DOMAIN t
  OBVIOUS
<1>3. \A i \in DOMAIN s : i \in A <=> i \in B
  BY PrefixFacts, Appended
<1> HIDE DEF A, B
<1>4. IsPrefix(Picked(s, A), Picked(t, B))
  BY <1>2, <1>3, SelectedPrefix
<1>5. IsASeq(Picked(s, A)) /\ IsASeq(Picked(t, B))
  BY <1>2, SelectedAmong
<1> QED
  BY <1>1, <1>4, <1>5, PrefixFacts

\* The pairs of a prefix of the edges are among those of all.
LEMMA PairsGrow ==
    ASSUME NEW s, NEW t, EdgesAmong(s, Users), EdgesAmong(t, Users), IsPrefix(s, t)
    PROVE  CountReciprocalPairs(s) <= CountReciprocalPairs(t)
<1> DEFINE S == Seen(s)[Len(s)].pairs
           T == Seen(t)[Len(t)].pairs
<1>1. /\ \A pair : pair \in S <=> Mutual(pair, ArrowsOf(s))
      /\ \A pair : pair \in T <=> Mutual(pair, ArrowsOf(t))
      /\ T \subseteq SUBSET Users
  BY PairsSeen
<1>2. ArrowsOf(s) \subseteq ArrowsOf(t)
  <2>1. ToSet(s) \subseteq ToSet(t)
    <3>1. IsASeq(s) /\ IsASeq(t)
      BY DEF EdgesAmong
    <3>2. /\ DOMAIN s = 1 .. Len(s) /\ DOMAIN t = 1 .. Len(t)
          /\ Len(s) \in Nat /\ Len(t) \in Nat /\ Len(s) <= Len(t)
          /\ \A i \in 1 .. Len(s) : s[i] = t[i]
      BY <3>1, PrefixFacts, Appended
    <3> QED
      BY <3>2 DEF ToSet
  <2> QED
    BY <2>1 DEF ArrowsOf
<1> HIDE DEF S, T
<1>3. ASSUME NEW pair \in S PROVE pair \in T
  <2>1. PICK u, v : pair = {u, v} /\ <<u, v>> \in ArrowsOf(s) /\ <<v, u>> \in ArrowsOf(s)
    BY <1>1 DEF Mutual
  <2>2. Mutual(pair, ArrowsOf(t))
    BY <1>2, <2>1 DEF Mutual
  <2> QED
    BY <1>1, <2>2
<1>4. IsFiniteSet(T)
  <2>1. IsFiniteSet(SUBSET Users)
    BY UsersAssumption, FS_SUBSET
  <2> QED
    BY <1>1, <2>1, FS_Subset
<1>5. Cardinality(S) <= Cardinality(T)
  BY <1>3, <1>4, FS_Subset
<1> QED
  BY <1>5 DEF CountReciprocalPairs, S, T

\* The users of a prefix are among those of all.
LEMMA AuthorsGrow ==
    ASSUME NEW s, NEW t, IsASeq(s), IsASeq(t), IsPrefix(s, t), \A e \in ToSet(t) : e.user \in Users
    PROVE  Cardinality(Authors(s)) <= Cardinality(Authors(t))
<1>1. Authors(s) \subseteq Authors(t)
  <2>1. /\ DOMAIN s = 1 .. Len(s) /\ DOMAIN t = 1 .. Len(t)
        /\ Len(s) \in Nat /\ Len(t) \in Nat /\ Len(s) <= Len(t)
        /\ \A i \in 1 .. Len(s) : s[i] = t[i]
    BY PrefixFacts, Appended
  <2> QED
    BY <2>1 DEF Authors
<1>2. Authors(t) \subseteq Users
  BY DEF Authors, ToSet
<1>3. IsFiniteSet(Authors(t))
  BY <1>2, UsersAssumption, FS_Subset
<1> QED
  BY <1>1, <1>3, FS_Subset

\* An edit that is no cleanup, and for which nothing leaves a window, does not lower the
\* score.
LEMMA ScoreKept ==
    ASSUME NEW mem, NEW then, KnownMemory(mem), KnownMemory(then),
           NEW edit, NextWindow(mem.edits, then.edits, edit), edit.action \notin CleanupActions,
           IsPrefix(Recent(mem.edits, mem.edits, SixHours), Recent(then.edits, then.edits, SixHours)),
           IsPrefix(Recent(mem.edits, mem.edits, Day), Recent(then.edits, then.edits, Day)),
           IsPrefix(Recent(mem.edges, mem.edits, Day), Recent(then.edges, then.edits, Day))
    PROVE  LET score == BuildSnapshot(mem).score
               after == BuildSnapshot(then).score
           IN  score.num * after.den <= after.num * score.den
<1> DEFINE c == CountsOf(mem)
           d == CountsOf(then)
           Quarter(m) == Recent(m.edits, m.edits, SixHours)
           Today(m) == Recent(m.edits, m.edits, Day)
           Edges(m) == Recent(m.edges, m.edits, Day)
<1>1. /\ c.edits \in Nat /\ c.reverts \in Nat /\ c.cleanups \in Nat
      /\ c.pairs \in Nat /\ c.participants \in Nat
  BY CountsAreNumbers
<1>2. /\ d.edits \in Nat /\ d.reverts \in Nat /\ d.cleanups \in Nat
      /\ d.pairs \in Nat /\ d.participants \in Nat
  BY CountsAreNumbers
<1>3. \A m : /\ CountsOf(m).edits = Len(Quarter(m))
             /\ CountsOf(m).reverts = Len(Having(Quarter(m), NonSelfReverts))
             /\ CountsOf(m).cleanups = Len(Having(Quarter(m), CleanupActions))
             /\ CountsOf(m).pairs = CountReciprocalPairs(Edges(m))
             /\ CountsOf(m).participants = Cardinality(Authors(Today(m)))
             /\ CountsOf(m).risk = HasThreeRevertRisk(m.edits)
  BY DEF CountsOf
<1>4. SixHours \in Nat /\ Day \in Nat
  BY DurationAssumption
<1>5. /\ IsASeq(Quarter(mem)) /\ IsASeq(Quarter(then)) /\ IsASeq(Today(mem)) /\ IsASeq(Today(then))
      /\ ToSet(Today(then)) \subseteq ToSet(then.edits)
  BY RecentAmong DEF KnownMemory
<1>6. EdgesAmong(Edges(mem), Users) /\ EdgesAmong(Edges(then), Users)
  BY RecentAmong DEF KnownMemory, EdgesAmong
<1>7. d.cleanups <= c.cleanups
  <2> DEFINE old == mem.edits
             new == then.edits
  <2>1. NextWindow(old, new, edit) /\ IsPrefix(Recent(old, old, SixHours), Recent(new, new, SixHours))
    OBVIOUS
  <2> HIDE DEF old, new
  <2>2. Len(Having(Recent(new, new, SixHours), CleanupActions))
           <= Len(Having(Recent(old, old, SixHours), CleanupActions))
    BY <1>4, <2>1, NoMoreOf
  <2> QED
    BY <1>3, <2>2 DEF old, new
<1>8. c.edits <= d.edits
  <2>1. IsPrefix(Quarter(mem), Quarter(then))
    OBVIOUS
  <2>2. c.edits = Len(Quarter(mem)) /\ d.edits = Len(Quarter(then))
    BY <1>3
  <2> HIDE DEF Quarter, c, d
  <2> QED
    BY <1>5, <2>1, <2>2, PrefixFacts
<1>9. c.reverts <= d.reverts
  BY <1>3, <1>5, HavingGrows
<1>10. c.pairs <= d.pairs
  BY <1>3, <1>6, PairsGrow
<1>11. c.participants <= d.participants
  <2>1. \A e \in ToSet(Today(then)) : e.user \in Users
    BY <1>5 DEF KnownMemory
  <2>2. IsPrefix(Today(mem), Today(then))
    OBVIOUS
  <2> HIDE DEF Today
  <2> QED
    BY <1>3, <1>5, <2>1, <2>2, AuthorsGrow
<1>12. c.risk => d.risk
  BY <1>3, RiskStays DEF KnownMemory
<1> HIDE DEF c, d
<1>13. Gains(c) \in Nat /\ Gains(d) \in Nat /\ Gains(c) <= Gains(d)
  BY <1>1, <1>2, <1>8, <1>9, <1>10, <1>11, <1>12, GainsGrow
<1>14. LET before == Calculate(c)
           after == Calculate(d)
       IN  before.num * after.den <= after.num * before.den
  BY <1>1, <1>2, <1>7, <1>9, <1>13, ScoreGrows
<1>15. BuildSnapshot(mem).score = Calculate(c) /\ BuildSnapshot(then).score = Calculate(d)
  BY DEF BuildSnapshot, c, d
<1> QED
  BY <1>14, <1>15

\* What a faithful memory keeps of users and times.
LEMMA FaithfulKnown ==
    ASSUME NEW pages, pages \in Seq(Page), NEW gaps, NEW mem, NEW all, Faithful(pages, gaps, mem, all)
    PROVE  /\ IsASeq(mem.edits)
           /\ \A e \in ToSet(mem.edits) : e.user \in Users /\ e.time \in Nat
<1>1. \A i \in 1 .. Len(pages) : pages[i].user \in Users /\ pages[i].time \in Nat
  <2>1. \A i \in 1 .. Len(pages) : pages[i] \in Page
    OBVIOUS
  <2> QED
    BY <2>1 DEF Page
<1> QED
  BY <1>1 DEF Faithful, LastOf, GivenEdit

\* A window that gets an edit is written out again with one edit more.
LEMMA NextWindowApplied ==
    ASSUME NEW old, IsASeq(old), Len(old) # 0, \A e \in ToSet(old) : e.time \in Nat,
           NEW edit, edit.time \in Nat, NEW n \in Int
    PROVE  NextWindow(old, Trim(Append(old, edit), n), edit)
<1> DEFINE longer == Append(old, edit)
           new == Trim(longer, n)
           l == Len(old)
<1>1. /\ l \in Nat /\ DOMAIN old = 1 .. l /\ IsASeq(longer)
      /\ \A i \in 1 .. l : longer[i] = old[i]
      /\ longer[l + 1] = edit
  BY Appended
<1>2. Len(longer) = l + 1
  BY DEF IsASeq
<1>3. \A i \in 1 .. l : old[i].time \in Nat
  BY <1>1 DEF ToSet
<1>4. Len(new) # 0
  <2> HIDE DEF longer
  <2>1. PICK S : longer \in Seq(S)
    BY <1>1 DEF IsASeq
  <2> QED
    BY <1>1, <1>2, <2>1 DEF Trim
<1> HIDE DEF longer
<1>5. IsASeq(new) /\ EndOf(new, longer)
  BY <1>1, TrimDrops
<1> HIDE DEF new
<1>6. PICK d \in 0 .. l + 1 : Len(new) = l + 1 - d /\ \A i \in 1 .. l + 1 - d : new[i] = longer[d + i]
  BY <1>2, <1>5 DEF EndOf
<1> HIDE DEF l
<1>7. Len(new) \in 1 .. l + 1 /\ d = l + 1 - Len(new)
  BY <1>1, <1>4, <1>6
<1>8. \A i \in 1 .. Len(new) - 1 : new[i] = old[d + i]
  BY <1>1, <1>6
<1>9. new[Len(new)] = edit
  BY <1>1, <1>6, <1>7
<1>10. NextWindow(old, new, edit)
  BY <1>1, <1>3, <1>5, <1>7, <1>8, <1>9 DEF NextWindow, l
<1> QED
  BY <1>10 DEF new, longer

\* An edit that is no cleanup lowers the score of its article only when an edit or an
\* edge leaves a window: however the edits reached the process, and however many of
\* their times were out of order.
THEOREM ScoreFallsOnlyAsSaid == Spec => ScoreFallsOnlyByExpiryOrCleanup
<1> DEFINE Falls ==
        \A p \in Processes :
            LET old == memory[p].edits
                new == memory'[p].edits
                Kept(age) == IsPrefix(Recent(old, old, age), Recent(new, new, age))
                score == BuildSnapshot(memory[p]).score
                then == BuildSnapshot(memory'[p]).score
            IN  /\ stage[p] = "apply" /\ stage'[p] = "save" /\ old # <<>>
                /\ work'[p].edit.action \notin CleanupActions
                /\ Kept(SixHours) /\ Kept(Day)
                /\ IsPrefix(Recent(memory[p].edges, old, Day), Recent(memory'[p].edges, new, Day))
                => score.num * then.den <= then.num * score.den
<1>1. ASSUME IInv, IInv', MemoriesTrue, MemoriesTrue', EdgesBetween, EdgesBetween', [Next]_vars
      PROVE  Falls
  <2> SUFFICES ASSUME NEW p \in Processes,
                      stage[p] = "apply", stage'[p] = "save", memory[p].edits # <<>>,
                      work'[p].edit.action \notin CleanupActions,
                      IsPrefix(Recent(memory[p].edits, memory[p].edits, SixHours),
                               Recent(memory'[p].edits, memory'[p].edits, SixHours)),
                      IsPrefix(Recent(memory[p].edits, memory[p].edits, Day),
                               Recent(memory'[p].edits, memory'[p].edits, Day)),
                      IsPrefix(Recent(memory[p].edges, memory[p].edits, Day),
                               Recent(memory'[p].edges, memory'[p].edits, Day))
               PROVE  BuildSnapshot(memory[p]).score.num * BuildSnapshot(memory'[p]).score.den
                         <= BuildSnapshot(memory'[p]).score.num * BuildSnapshot(memory[p]).score.den
    OBVIOUS
  <2>1. Types /\ Types'
    BY <1>1 DEF IInv
  <2>2. ClassifyAndApply(p)
    <3>1. ASSUME NEW q \in Processes, q # p, Consume(q) \/ Handle(q) \/ Die(q)
          PROVE  stage'[p] = stage[p]
      BY <2>1, <3>1 DEF Consume, Handle, ResolveRevision, ResolveFallsBack, ClassifyAndApply, Save,
         SaveThrows, Publish, PublishThrows, Die, Leave, Goto, Types
    <3>2. ASSUME NEW q \in Processes, CommitOffset(q) \/ Membership(q)
          PROVE  stage' = stage
      BY <3>2 DEF CommitOffset, Membership, handlerVars
    <3>3. ~(UNCHANGED vars \/ Upstream)
      BY DEF vars, handlerVars, Upstream, SaveRevision, Replay
    <3>4. ~(Consume(p) \/ Die(p))
      BY <2>1 DEF Consume, Die, Leave, Goto, Types
    <3>5. ~(ResolveRevision(p) \/ ResolveFallsBack(p) \/ Save(p) \/ SaveThrows(p) \/ Publish(p)
            \/ PublishThrows(p))
      BY DEF ResolveRevision, ResolveFallsBack, Save, SaveThrows, Publish, PublishThrows
    <3> QED
      BY <1>1, <3>1, <3>2, <3>3, <3>4, <3>5 DEF Next, Handle
  <2> DEFINE rev == revision[p]
             mem == memory[p]
             edit == Classify(rev, mem)
             then == memory'[p]
             pages == page'
             gaps == unfetched'[p]
             all == applied'[p]
  <2>3. work'[p].edit = edit /\ then = Apply(mem, rev, edit)
    BY <2>1, <2>2 DEF ClassifyAndApply, Types
  <2>4. /\ Faithful(page, unfetched[p], mem, applied[p]) /\ Given(page, unfetched[p], rev)
        /\ page \in Seq(Page) /\ EdgesAmong(mem.edges, Users)
    BY <1>1, <2>1 DEF MemoriesTrue, MemoryTrue, Types, EdgesBetween
  <2>5. /\ Faithful(pages, gaps, then, all) /\ pages \in Seq(Page) /\ EdgesAmong(then.edges, Users)
    BY <1>1, <2>1 DEF MemoriesTrue, MemoryTrue, Types, EdgesBetween
  <2>6. then.edits = Trim(Append(mem.edits, edit), RecentEditWindow) /\ edit.time = rev.time
    BY <2>3 DEF Apply, Classify
  <2>7. rev.time \in Nat
    <3>1. \A i \in 1 .. Len(page) : page[i] \in Page
      BY <2>4
    <3> QED
      BY <2>4, <3>1 DEF Given, Page
  <2> HIDE DEF mem, rev, edit, then, pages, gaps, all
  <2>8. /\ IsASeq(mem.edits)
        /\ \A e \in ToSet(mem.edits) : e.user \in Users /\ e.time \in Nat
    BY <2>4, FaithfulKnown
  <2>9. /\ IsASeq(then.edits)
        /\ \A e \in ToSet(then.edits) : e.user \in Users /\ e.time \in Nat
    BY <2>5, FaithfulKnown
  <2>10. KnownMemory(mem) /\ KnownMemory(then)
    BY <2>4, <2>5, <2>8, <2>9 DEF KnownMemory
  <2>11. NextWindow(mem.edits, then.edits, edit)
    <3>1. Len(mem.edits) # 0
      BY <2>8 DEF IsASeq, mem
    <3> QED
      BY <2>6, <2>7, <2>8, <3>1, WindowAssumption, NextWindowApplied
  <2>12. edit.action \notin CleanupActions
    BY <2>3
  <2>13. /\ IsPrefix(Recent(mem.edits, mem.edits, SixHours), Recent(then.edits, then.edits, SixHours))
         /\ IsPrefix(Recent(mem.edits, mem.edits, Day), Recent(then.edits, then.edits, Day))
         /\ IsPrefix(Recent(mem.edges, mem.edits, Day), Recent(then.edges, then.edits, Day))
    BY DEF mem, then
  <2>14. BuildSnapshot(mem).score.num * BuildSnapshot(then).score.den
            <= BuildSnapshot(then).score.num * BuildSnapshot(mem).score.den
    BY <2>10, <2>11, <2>12, <2>13, ScoreKept
  <2> QED
    BY <2>14 DEF mem, then
<1>2. Spec => [][Falls]_vars
  BY <1>1, Inductive, MemoriesFaithful, EdgesAreBetweenUsers, PTL DEF Spec
<1> QED
  BY <1>2, PTL DEF ScoreFallsOnlyByExpiryOrCleanup
=============================================================================
