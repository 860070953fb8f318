-------------------------- MODULE Collector_proofs --------------------------
(***************************************************************************)
(* Theorems about Collector, for any wikis, listing, memory, edits and     *)
(* faults.  The first part is about the order of first publications, the   *)
(* second about how often an edit is taken.                                *)
(***************************************************************************)
EXTENDS Collector, FiniteSetTheorems, SequenceTheorems, TLAPS

\* The elements of a batch and of the memory, by position.
Types ==
    /\ changes \in [Wikis -> Seq(Nat)]
    /\ \A w \in Wikis : Len(changes[w]) <= MaxEdits
    /\ pc \in {"poll", "publish", "delay", "down"}
    /\ at \in 1 .. Len(Polled)
    /\ batch \in Seq(1 .. Len(changes[Here]))
    /\ seen \in Seq(Edits) /\ taken \in Seq(Edits)
    /\ published \in Seq(Edits) /\ dropped \subseteq Edits
    /\ \A e \in ToSet(taken) \cup ToSet(published) \cup dropped : Saved(e)
    /\ Len(seen) <= Capacity
    /\ \A i, j \in 1 .. Len(seen) : i # j => seen[i] # seen[j]

\* Each wiki saves its edits in the order of time.
InTime ==
    \A w \in Wikis : \A i, j \in 1 .. Len(changes[w]) : i < j => changes[w][i] <= changes[w][j]

\* The batch is in the order of time.
Sorted ==
    \A i, j \in 1 .. Len(batch) : i < j => changes[Here][batch[i]] <= changes[Here][batch[j]]

\* What is remembered was produced, or its ProduceAsync threw.
Known == ToSet(seen) \subseteq ToSet(published) \cup dropped

InBatch(e) == e[1] = Here /\ e[2] \in ToSet(batch)

\* The worker will not publish the edit for the first time any more, unless it was dropped.
Past(e) ==
    \/ e \in ToSet(published) \cup dropped
    \/ ScrolledOff(e) /\ ~InBatch(e)

Older(e, f) == e[1] = f[1] /\ TimeOf(e) < TimeOf(f)

\* What is older than an edit of the batch is in the batch or past; what is older than
\* one that was published is past.
BatchComplete ==
    \A f \in Edits : InBatch(f) =>
        \A e \in Edits : Saved(e) /\ Older(e, f) => InBatch(e) \/ Past(e)

PublishedComplete ==
    \A f \in ToSet(published) : \A e \in Edits : Saved(e) /\ Older(e, f) => Past(e)

---------------------------------------------------------------------------
(* Several wikis in one memory.                                            *)

\* The memory is the end of what was taken, and all of it until it is full.
LastTaken ==
    /\ Len(seen) <= Len(taken)
    /\ Len(seen) < Capacity => Len(seen) = Len(taken)
    /\ \A i \in 1 .. Len(seen) : seen[i] = taken[Len(taken) - Len(seen) + i]

\* When the wiki was asked n edits had been saved: the batch holds edits listed then, and
\* nothing newer of this wiki was ever taken.
Window ==
    \E n \in 0 .. Len(changes[Here]) :
        /\ \A i \in 1 .. Len(batch) : n - Limit < batch[i] /\ batch[i] <= n
        /\ \A i \in 1 .. Len(taken) : taken[i][1] = Here => taken[i][2] <= n

\* What is taken after an edit of its wiki is less than a listing older than that edit.
NearOrNewer ==
    \A i, j \in 1 .. Len(taken) :
        i < j /\ taken[i][1] = taken[j][1] => taken[j][2] > taken[i][2] - Limit

\* An edit is taken again only when Capacity edits came after it.
Spread == \A i, j \in 1 .. Len(taken) : i < j /\ taken[i] = taken[j] => j > i + Capacity

IInv ==
    /\ Types /\ InTime /\ Sorted /\ Known
    /\ BatchComplete /\ PublishedComplete
    /\ LastTaken /\ Window /\ NearOrNewer /\ Spread

---------------------------------------------------------------------------
(* Sequences.                                                              *)

LEMMA Adding ==
  ASSUME NEW S, NEW s \in Seq(S), NEW e \in S
  PROVE  /\ Append(s, e) \in Seq(S)
         /\ Len(s) \in Nat /\ Len(Append(s, e)) = Len(s) + 1
         /\ \A i \in 1 .. Len(s) : Append(s, e)[i] = s[i]
         /\ Append(s, e)[Len(s) + 1] = e
         /\ ToSet(Append(s, e)) = ToSet(s) \cup {e}
<1>1. /\ Append(s, e) \in Seq(S) /\ Append(s, e) # <<>>
      /\ Len(s) \in Nat /\ Len(Append(s, e)) = Len(s) + 1
      /\ \A i \in 1 .. Len(s) : Append(s, e)[i] = s[i]
      /\ Append(s, e)[Len(s) + 1] = e
      /\ DOMAIN s = 1 .. Len(s) /\ DOMAIN Append(s, e) = 1 .. Len(s) + 1
  OBVIOUS
<1> DEFINE t == Append(s, e)
<1> HIDE DEF t
<1>2. ToSet(t) = ToSet(s) \cup {e}
  <2>1. \A x \in ToSet(t) : x \in ToSet(s) \cup {e}
    BY <1>1 DEF ToSet, t
  <2>2. \A x \in ToSet(s) \cup {e} : x \in ToSet(t)
    BY <1>1 DEF ToSet, t
  <2> QED
    BY <2>1, <2>2
<1> QED
  BY <1>1, <1>2 DEF t

LEMMA Removing ==
  ASSUME NEW S, NEW s \in Seq(S), s # <<>>
  PROVE  /\ Tail(s) \in Seq(S) /\ Head(s) \in S
         /\ Len(s) \in Nat \ {0} /\ Len(Tail(s)) = Len(s) - 1
         /\ \A i \in 1 .. Len(Tail(s)) : i + 1 \in 1 .. Len(s) /\ Tail(s)[i] = s[i + 1]
         /\ Head(s) = s[1] /\ Head(s) \in ToSet(s)
         /\ ToSet(Tail(s)) \subseteq ToSet(s)
         /\ ToSet(s) \subseteq ToSet(Tail(s)) \cup {Head(s)}
<1>1. /\ Tail(s) \in Seq(S) /\ Head(s) \in S
      /\ Len(s) \in Nat \ {0} /\ Len(Tail(s)) = Len(s) - 1
      /\ \A i \in 1 .. Len(Tail(s)) : i + 1 \in 1 .. Len(s) /\ Tail(s)[i] = s[i + 1]
      /\ Head(s) = s[1]
      /\ DOMAIN s = 1 .. Len(s) /\ DOMAIN Tail(s) = 1 .. Len(s) - 1
  OBVIOUS
<1> DEFINE t == Tail(s)
<1>2. DOMAIN t = 1 .. Len(s) - 1 /\ \A i \in 1 .. Len(s) - 1 : t[i] = s[i + 1]
  BY <1>1
<1> HIDE DEF t
<1>3. ToSet(t) \subseteq ToSet(s)
  BY <1>1, <1>2 DEF ToSet
<1>4. ToSet(s) \subseteq ToSet(t) \cup {s[1]}
  <2> SUFFICES ASSUME NEW i \in 1 .. Len(s), i # 1 PROVE s[i] \in ToSet(t)
    BY <1>1 DEF ToSet
  <2>1. i - 1 \in 1 .. Len(s) - 1 /\ t[i - 1] = s[i]
    BY <1>1, <1>2
  <2> QED
    BY <1>2, <2>1 DEF ToSet
<1>5. s[1] \in ToSet(s)
  BY <1>1 DEF ToSet
<1> QED
  BY <1>1, <1>3, <1>4, <1>5 DEF t

LEMMA Widening ==
  ASSUME NEW S, NEW T, S \subseteq T, NEW s \in Seq(S)
  PROVE  s \in Seq(T)
<1>1. /\ Len(s) \in Nat /\ DOMAIN s = 1 .. Len(s)
      /\ \A i \in 1 .. Len(s) : s[i] \in T
  OBVIOUS
<1>2. s \in [1 .. Len(s) -> T]
  BY <1>1
<1> QED
  BY <1>1, <1>2

LEMMA Empty == ToSet(<<>>) = {} /\ Len(<<>>) = 0 /\ (\A S : <<>> \in Seq(S))
  BY DEF ToSet

\* The memory after an edit was remembered: the edit is the newest, the others keep their
\* order, and only the oldest of a full memory is gone.
Remembered(s, e, t) ==
    /\ t \in Seq(Edits) /\ Len(t) \in Nat \ {0} /\ Len(t) <= Capacity
    /\ t[Len(t)] = e
    /\ \E k \in {0, 1} : \A i \in 1 .. Len(t) - 1 : i + k \in 1 .. Len(s) /\ t[i] = s[i + k]
    /\ \A i, j \in 1 .. Len(t) : i # j => t[i] # t[j]
    /\ ToSet(t) \subseteq ToSet(s) \cup {e} /\ e \in ToSet(t)
    /\ \A x \in ToSet(s) : x \in ToSet(t) \/ (Len(s) = Capacity /\ x = s[1])

Distinct(s) == \A i, j \in 1 .. Len(s) : i # j => s[i] # s[j]

LEMMA Remembering ==
  ASSUME NEW s \in Seq(Edits), Len(s) <= Capacity, Distinct(s),
         NEW e \in Edits, e \notin ToSet(s),
         NEW t, t = IF Len(s) < Capacity THEN Append(s, e) ELSE Append(Tail(s), e)
  PROVE  Remembered(s, e, t)
<1> USE DEF Distinct
<1>0. /\ Capacity \in Nat \ {0} /\ Len(s) \in Nat /\ DOMAIN s = 1 .. Len(s)
      /\ \A i \in 1 .. Len(s) : s[i] # e
  BY CollectorAssumption DEF ToSet
<1> DEFINE k == IF Len(s) < Capacity THEN 0 ELSE 1
           r == IF Len(s) < Capacity THEN s ELSE Tail(s)
<1>1. /\ k \in {0, 1} /\ r \in Seq(Edits) /\ t = Append(r, e)
      /\ Len(r) = Len(s) - k /\ Len(r) < Capacity
      /\ \A i \in 1 .. Len(r) : i + k \in 1 .. Len(s) /\ r[i] = s[i + k]
      /\ ToSet(r) \subseteq ToSet(s)
      /\ \A x \in ToSet(s) : x \in ToSet(r) \/ (Len(s) = Capacity /\ x = s[1])
  <2>1. CASE Len(s) < Capacity
    <3>1. r = s /\ k = 0 /\ t = Append(r, e)
      BY <2>1
    <3> HIDE DEF r, k
    <3>2. \A i \in 1 .. Len(s) : i + 0 = i
      BY <1>0
    <3>3. Len(r) = Len(s) - k
      BY ONLY <1>0, <3>1
    <3> QED
      BY <1>0, <2>1, <3>1, <3>2, <3>3
  <2>2. CASE ~(Len(s) < Capacity)
    <3>0. r = Tail(s) /\ k = 1
      BY <2>2
    <3>4. s # <<>> /\ Len(s) = Capacity
      <4>1. Capacity \in Nat \ {0} /\ Len(s) \in Nat /\ Len(s) <= Capacity
        BY <1>0
      <4>2. Len(s) = Capacity
        BY ONLY <2>2, <4>1
      <4>3. Len(s) # Len(<<>>)
        BY ONLY <4>1, <4>2, Empty
      <4> QED
        BY ONLY <4>2, <4>3
    <3>1. s # <<>> /\ Len(s) = Capacity /\ r = Tail(s) /\ k = 1
      BY <3>0, <3>4
    <3>2. /\ Tail(s) \in Seq(Edits)
          /\ Len(Tail(s)) = Len(s) - 1 /\ Head(s) = s[1]
          /\ \A i \in 1 .. Len(Tail(s)) : i + 1 \in 1 .. Len(s) /\ Tail(s)[i] = s[i + 1]
          /\ ToSet(Tail(s)) \subseteq ToSet(s)
          /\ ToSet(s) \subseteq ToSet(Tail(s)) \cup {Head(s)}
      BY <3>1, Removing
    <3>3. t = Append(r, e)
      BY <2>2
    <3> HIDE DEF r, k
    <3> QED
      BY <1>0, <3>1, <3>2, <3>3
  <2> QED
    BY <2>1, <2>2
<1> HIDE DEF r, k
<1>2. /\ t \in Seq(Edits) /\ Len(r) \in Nat /\ Len(t) = Len(r) + 1
      /\ \A i \in 1 .. Len(r) : t[i] = r[i]
      /\ t[Len(r) + 1] = e /\ ToSet(t) = ToSet(r) \cup {e}
  <2>1. r \in Seq(Edits) /\ t = Append(r, e)
    BY <1>1
  <2>2. /\ Append(r, e) \in Seq(Edits)
        /\ Len(r) \in Nat /\ Len(Append(r, e)) = Len(r) + 1
        /\ \A i \in 1 .. Len(r) : Append(r, e)[i] = r[i]
        /\ Append(r, e)[Len(r) + 1] = e
        /\ ToSet(Append(r, e)) = ToSet(r) \cup {e}
    BY ONLY <2>1, e \in Edits, Adding
  <2> QED
    BY ONLY <2>1, <2>2
<1>3. /\ Len(t) \in Nat \ {0} /\ Len(t) <= Capacity /\ t[Len(t)] = e
      /\ \A i \in 1 .. Len(t) - 1 : i + k \in 1 .. Len(s) /\ t[i] = s[i + k]
  <2>1. \A i \in 1 .. Len(t) - 1 : i \in 1 .. Len(r)
    BY <1>2
  <2>2. Len(t) \in Nat \ {0} /\ Len(t) <= Capacity /\ t[Len(t)] = e
    <3>1. Capacity \in Nat /\ Len(r) < Capacity
      BY ONLY <1>0, <1>1
    <3>2. Len(r) \in Nat /\ Len(t) = Len(r) + 1 /\ t[Len(r) + 1] = e
      BY ONLY <1>2
    <3> QED
      BY ONLY <3>1, <3>2
  <2> QED
    BY <1>1, <1>2, <2>1, <2>2
<1>4. ASSUME NEW i \in 1 .. Len(t), NEW j \in 1 .. Len(t), i < j PROVE t[i] # t[j]
  <2>1. i \in 1 .. Len(t) - 1 /\ t[i] = s[i + k] /\ i + k \in 1 .. Len(s)
    BY <1>3, <1>4
  <2>2. CASE j = Len(t)
    BY <1>0, <1>3, <2>1, <2>2
  <2>3. CASE j # Len(t)
    <3>1. j \in 1 .. Len(t) - 1 /\ t[j] = s[j + k] /\ j + k \in 1 .. Len(s) /\ i + k # j + k
      BY <1>3, <1>4, <2>3
    <3> QED
      BY <2>1, <3>1
  <2> QED
    BY <2>2, <2>3
<1>5. ASSUME NEW i \in 1 .. Len(t), NEW j \in 1 .. Len(t), i # j PROVE t[i] # t[j]
  <2>1. i < j \/ j < i
    BY <1>3, <1>5
  <2> QED
    BY <1>4, <2>1
<1>6. \E h \in {0, 1} : \A i \in 1 .. Len(t) - 1 : i + h \in 1 .. Len(s) /\ t[i] = s[i + h]
  BY <1>1, <1>3
<1>7. ToSet(t) \subseteq ToSet(s) \cup {e} /\ e \in ToSet(t)
  BY <1>1, <1>2
<1>8. \A x \in ToSet(s) : x \in ToSet(t) \/ (Len(s) = Capacity /\ x = s[1])
  BY <1>1, <1>2
<1> QED
  BY <1>2, <1>3, <1>5, <1>6, <1>7, <1>8 DEF Remembered

---------------------------------------------------------------------------
(* The order of first publications.                                        *)

LEMMA Polling ==
  /\ Polled \in Seq(Wikis) /\ Len(Polled) \in Nat \ {0} /\ 1 \in 1 .. Len(Polled)
  /\ \A i \in 1 .. Len(Polled) : Polled[i] \in Wikis
<1>1. Polled \in Seq(Wikis) /\ Polled # <<>>
  BY CollectorAssumption
<1>2. Len(Polled) \in Nat \ {0}
  BY <1>1
<1> QED
  BY <1>1, <1>2

\* The worker is at one of the wikis.
LEMMA Place ==
  ASSUME Types
  PROVE  /\ Polled \in Seq(Wikis) /\ Len(Polled) \in Nat \ {0}
         /\ 1 \in 1 .. Len(Polled) /\ Here \in Wikis
  BY Polling DEF Types, Here

USE DEF Here

\* Edits are only added, at the end.
LEMMA Saving ==
  ASSUME Types, NEW w \in Wikis, NEW step \in TimeSteps, SaveEdit(w, step)
  PROVE  /\ changes' \in [Wikis -> Seq(Nat)]
         /\ \A v \in Wikis : /\ Len(changes[v]) <= Len(changes'[v]) /\ Len(changes'[v]) <= MaxEdits
                             /\ \A i \in 1 .. Len(changes[v]) : changes'[v][i] = changes[v][i]
         /\ Len(changes'[w]) = Len(changes[w]) + 1
         /\ \A v \in Wikis \ {w} : changes'[v] = changes[v]
         /\ changes[w] # <<>> =>
               changes'[w][Len(changes[w]) + 1] >= changes[w][Len(changes[w])]
<1> DEFINE now == IF changes[w] = <<>> THEN 0 ELSE Last(changes[w]) + step
<1>1. /\ changes \in [Wikis -> Seq(Nat)] /\ step \in Nat /\ MaxEdits \in Nat
      /\ \A v \in Wikis : changes[v] \in Seq(Nat) /\ Len(changes[v]) \in Nat
                          /\ Len(changes[v]) <= MaxEdits
  BY CollectorAssumption DEF Types
<1>2. /\ now \in Nat
      /\ changes[w] # <<>> => now >= changes[w][Len(changes[w])]
  <2>1. CASE changes[w] = <<>>
    BY <2>1
  <2>2. CASE changes[w] # <<>>
    <3>1. Len(changes[w]) \in 1 .. Len(changes[w])
      BY <1>1, <2>2
    <3>2. changes[w][Len(changes[w])] \in Nat
      BY <1>1, <3>1
    <3>3. now = changes[w][Len(changes[w])] + step
      BY <2>2 DEF Last
    <3> QED
      BY <1>1, <3>2, <3>3
  <2> QED
    BY <2>1, <2>2
<1>3. changes' = [changes EXCEPT ![w] = Append(@, now)] /\ Len(changes[w]) < MaxEdits
  BY DEF SaveEdit
<1> HIDE DEF now
<1>5. changes'[w] = Append(changes[w], now)
  BY <1>1, <1>3
<1>6. \A v \in Wikis \ {w} : changes'[v] = changes[v]
  BY <1>1, <1>3
<1>7. /\ changes'[w] \in Seq(Nat) /\ Len(changes'[w]) = Len(changes[w]) + 1
      /\ \A i \in 1 .. Len(changes[w]) : changes'[w][i] = changes[w][i]
      /\ changes'[w][Len(changes[w]) + 1] = now
  BY <1>1, <1>2, <1>5, Adding
<1>8. changes' \in [Wikis -> Seq(Nat)]
  BY <1>1, <1>3, <1>5, <1>7
<1> QED
  BY <1>1, <1>2, <1>3, <1>6, <1>7, <1>8

\* A listing holds the newest edits of the wiki, in the order of time.
LEMMA Listing ==
  ASSUME Types, NEW w \in Wikis, NEW b \in RecentChanges(w)
  PROVE  /\ b \in Seq(1 .. Len(changes[w]))
         /\ ToSet(b) = Listed(w)
         /\ \A i, j \in 1 .. Len(b) : i < j => changes[w][b[i]] <= changes[w][b[j]]
<1> DEFINE n == Cardinality(Listed(w))
<1>0. changes[w] \in Seq(Nat) /\ Len(changes[w]) \in Nat /\ Limit \in Nat
  BY CollectorAssumption DEF Types
<1>1. n \in Nat
  <2>1. Listed(w) \subseteq 1 .. Len(changes[w])
    BY DEF Listed
  <2>2. IsFiniteSet(Listed(w))
    <3>1. IsFiniteSet(1 .. Len(changes[w]))
      BY <1>0, FS_Interval
    <3> QED
      BY <2>1, <3>1, FS_Subset
  <2> QED
    BY <2>2, FS_CardinalityType
<1>2. /\ b \in [1 .. n -> Listed(w)] /\ ToSet(b) = Listed(w)
      /\ \A i, j \in DOMAIN b : i < j => Before(w, b[i], b[j])
  BY DEF RecentChanges
<1> HIDE DEF n
<1>3. b \in Seq(Listed(w)) /\ Len(b) = n /\ DOMAIN b = 1 .. n
  BY <1>1, <1>2
<1>4. \A i \in 1 .. n : b[i] \in 1 .. Len(changes[w])
  <2>1. \A i \in 1 .. n : b[i] \in Listed(w)
    BY <1>2
  <2> QED
    BY <2>1 DEF Listed
<1>5. \A i, j \in 1 .. n : i < j => changes[w][b[i]] <= changes[w][b[j]]
  <2> SUFFICES ASSUME NEW i \in 1 .. n, NEW j \in 1 .. n, i < j
               PROVE  changes[w][b[i]] <= changes[w][b[j]]
    OBVIOUS
  <2>0. DOMAIN b = 1 .. n
    BY <1>2
  <2>1. Before(w, b[i], b[j])
    BY <1>2, <2>0
  <2>2. changes[w][b[i]] \in Nat /\ changes[w][b[j]] \in Nat
    <3>1. b[i] \in 1 .. Len(changes[w]) /\ b[j] \in 1 .. Len(changes[w])
      BY <1>4
    <3> QED
      BY ONLY <1>0, <3>1, SMTT(30)
  <2> QED
    BY <2>1, <2>2 DEF Before
<1>6. b \in Seq(1 .. Len(changes[w]))
  BY <1>1, <1>2, <1>3, <1>4
<1> QED
  BY <1>2, <1>3, <1>5, <1>6

LEMMA Bounds ==
  ASSUME Types
  PROVE  /\ \A w \in Wikis : changes[w] \in Seq(Nat) /\ Len(changes[w]) \in 0 .. MaxEdits
         /\ MaxEdits \in Nat /\ Capacity \in Nat \ {0} /\ Limit \in Nat \ {0}
         /\ \A e \in Edits : /\ e[1] \in Wikis /\ e[2] \in 1 .. MaxEdits /\ e = <<e[1], e[2]>>
                             /\ Saved(e) => e[2] \in 1 .. Len(changes[e[1]]) /\ TimeOf(e) \in Nat
         /\ \A f \in Edits : InBatch(f) => f[2] \in 1 .. Len(changes[Here]) /\ Saved(f)
<1>1. /\ \A w \in Wikis : changes[w] \in Seq(Nat) /\ Len(changes[w]) \in 0 .. MaxEdits
      /\ MaxEdits \in Nat /\ Capacity \in Nat \ {0} /\ Limit \in Nat \ {0}
  BY CollectorAssumption DEF Types
<1>2. \A e \in Edits : e[1] \in Wikis /\ e[2] \in 1 .. MaxEdits /\ e = <<e[1], e[2]>>
  BY DEF Edits
<1>3. ASSUME NEW e \in Edits, Saved(e)
      PROVE  e[2] \in 1 .. Len(changes[e[1]]) /\ TimeOf(e) \in Nat
  <2>1. e[1] \in Wikis /\ e[2] \in 1 .. MaxEdits
    BY <1>2
  <2>2. e[2] \in 1 .. Len(changes[e[1]])
    BY <1>1, <1>3, <2>1 DEF Saved
  <2>3. changes[e[1]] \in Seq(Nat)
    BY <1>1, <2>1
  <2> QED
    BY <2>2, <2>3 DEF TimeOf
<1>4. ASSUME NEW f \in Edits, InBatch(f)
      PROVE  f[2] \in 1 .. Len(changes[Here]) /\ Saved(f)
  <2>1. \A x \in ToSet(batch) : x \in 1 .. Len(changes[Here])
    BY DEF Types, ToSet
  <2> QED
    BY <1>4, <2>1 DEF InBatch, Saved
<1> QED
  BY <1>1, <1>2, <1>3, <1>4

LEMMA CurrentEdit ==
  ASSUME Types, batch # <<>>
  PROVE  Current \in Edits /\ Saved(Current) /\ InBatch(Current) /\ Current = <<Here, Head(batch)>>
<1>1. Here \in Wikis /\ batch \in Seq(1 .. Len(changes[Here]))
  BY Place DEF Types
<1>2. Head(batch) \in 1 .. Len(changes[Here]) /\ Head(batch) \in ToSet(batch)
  BY <1>1, Removing
<1>3. Head(batch) \in 1 .. MaxEdits
  BY <1>1, <1>2, Bounds
<1>4. Current = <<Here, Head(batch)>> /\ Current[1] = Here /\ Current[2] = Head(batch)
  BY DEF Current
<1> HIDE DEF Current
<1>5. Current \in Edits
  BY <1>1, <1>3, <1>4 DEF Edits
<1> QED
  BY <1>2, <1>4, <1>5 DEF Saved, InBatch

\* What remembering the current edit does to the memory.
LEMMA RememberCurrent ==
  ASSUME Types, batch # <<>>, Current \notin ToSet(seen), Remember(Current)
  PROVE  Remembered(seen, Current, seen')
<1>1. seen \in Seq(Edits) /\ Len(seen) <= Capacity /\ Distinct(seen)
  BY DEF Types, Distinct
<1>2. Current \in Edits
  BY CurrentEdit
<1>3. seen' = IF Len(seen) < Capacity THEN Append(seen, Current) ELSE Append(Tail(seen), Current)
  BY DEF Remember
<1> HIDE DEF Current
<1> QED
  BY <1>1, <1>2, <1>3, Remembering

\* Of what was taken, what it was and the current edit.
LEMMA TakeCurrent ==
  ASSUME Types, batch # <<>>, taken' = Append(taken, Current)
  PROVE  taken' \in Seq(Edits) /\ ToSet(taken') = ToSet(taken) \cup {Current}
<1>1. taken \in Seq(Edits) /\ Current \in Edits
  BY CurrentEdit DEF Types
<1> QED
  BY <1>1, Adding

\* Of published, what it was and the current edit.
LEMMA PublishCurrent ==
  ASSUME Types, batch # <<>>, published' = Append(published, Current)
  PROVE  published' \in Seq(Edits) /\ ToSet(published') = ToSet(published) \cup {Current}
<1>1. published \in Seq(Edits) /\ Current \in Edits
  BY CurrentEdit DEF Types
<1> QED
  BY <1>1, Adding

LEMMA StepTypes == Types /\ [Next]_vars => Types'
<1> SUFFICES ASSUME Types, [Next]_vars PROVE Types'
  OBVIOUS
<1>0. /\ Len(Polled) \in Nat \ {0} /\ 1 \in 1 .. Len(Polled) /\ Here \in Wikis
      /\ at \in 1 .. Len(Polled) /\ batch \in Seq(1 .. Len(changes[Here]))
  BY Place DEF Types
<1>1. ASSUME NEW w \in Wikis, NEW step \in TimeSteps, SaveEdit(w, step)
      PROVE  Types'
  <2>1. /\ changes' \in [Wikis -> Seq(Nat)]
        /\ \A v \in Wikis : /\ Len(changes[v]) <= Len(changes'[v])
                            /\ Len(changes'[v]) <= MaxEdits
    BY <1>1, Saving
  <2>2. UNCHANGED <<workerVars, published, dropped, taken, faults>>
    BY <1>1 DEF SaveEdit
  <2>3. \A v \in Wikis : Len(changes[v]) \in Nat /\ Len(changes'[v]) \in Nat
    BY <2>1, Bounds
  <2>4. 1 .. Len(changes[Here]) \subseteq 1 .. Len(changes'[Here])
    BY <1>0, <2>1, <2>3
  <2>5. batch \in Seq(1 .. Len(changes'[Here]))
    BY <1>0, <2>4, Widening
  <2>6. \A e \in Edits : Saved(e) => e[2] <= Len(changes'[e[1]])
    BY <2>1, <2>3, Bounds DEF Saved
  <2>7. ToSet(taken) \cup ToSet(published) \cup dropped \subseteq Edits
    BY DEF Types, ToSet
  <2> QED
    BY <2>1, <2>2, <2>5, <2>6, <2>7 DEF Types, Saved, workerVars
<1>2. ASSUME NextWiki PROVE pc' \in {"poll", "delay"} /\ at' \in 1 .. Len(Polled)
                            /\ batch' \in Seq(1 .. Len(changes[Here']))
  BY <1>0, <1>2, Empty DEF NextWiki
<1>3. CASE Fetch
  <2>1. batch' \in Seq(1 .. Len(changes[Here]))
    BY <1>0, <1>3, Listing DEF Fetch
  <2> QED
    BY <1>3, <2>1 DEF Types, Fetch, Saved
<1>4. CASE FetchFails \/ BatchDone
  <2> NextWiki /\ UNCHANGED <<changes, seen, published, dropped, taken>>
    BY <1>4 DEF FetchFails, BatchDone
  <2> QED
    BY <1>2 DEF Types, Saved
<1>5. CASE SkipSeen
  <2>1. batch' \in Seq(1 .. Len(changes[Here]))
    BY <1>0, <1>5, Removing DEF SkipSeen
  <2> QED
    BY <1>5, <2>1 DEF SkipSeen, Types, Saved
<1>6. CASE Publish
  <2>1. batch # <<>> /\ Current \notin ToSet(seen) /\ Remember(Current)
    BY <1>6 DEF Publish
  <2>2. batch' \in Seq(1 .. Len(changes[Here]))
    BY <1>0, <1>6, Removing DEF Publish
  <2>3. /\ seen' \in Seq(Edits) /\ Len(seen') <= Capacity
        /\ \A i, j \in 1 .. Len(seen') : i # j => seen'[i] # seen'[j]
    BY <2>1, RememberCurrent DEF Remembered
  <2>4. published' \in Seq(Edits) /\ ToSet(published') = ToSet(published) \cup {Current}
    BY <1>6, <2>1, PublishCurrent DEF Publish
  <2>5. UNCHANGED <<changes, pc, at, dropped>>
    BY <1>6 DEF Publish
  <2>t. taken' \in Seq(Edits) /\ ToSet(taken') = ToSet(taken) \cup {Current}
    BY <1>6, <2>1, TakeCurrent DEF Publish
  <2>6. \A e \in ToSet(taken') \cup ToSet(published') \cup dropped' : Saved(e)
    BY <2>1, <2>4, <2>5, <2>t, CurrentEdit DEF Types
  <2> QED
    BY <2>2, <2>3, <2>4, <2>5, <2>6, <2>t DEF Types, Saved
<1>7. CASE PublishThrows
  <2>1. batch # <<>> /\ Current \notin ToSet(seen) /\ Remember(Current)
    BY <1>7 DEF PublishThrows
  <2>2. pc' \in {"poll", "delay"} /\ at' \in 1 .. Len(Polled) /\ batch' \in Seq(1 .. Len(changes[Here']))
    BY <1>2, <1>7 DEF PublishThrows
  <2>3. /\ seen' \in Seq(Edits) /\ Len(seen') <= Capacity
        /\ \A i, j \in 1 .. Len(seen') : i # j => seen'[i] # seen'[j]
    BY <2>1, RememberCurrent DEF Remembered
  <2>4. published' \in Seq(Edits) /\ ToSet(published') \subseteq ToSet(published) \cup {Current}
    BY <1>7, <2>1, PublishCurrent DEF PublishThrows, Types
  <2>5. changes' = changes /\ dropped' = dropped \cup {Current}
    BY <1>7 DEF PublishThrows
  <2>t. taken' \in Seq(Edits) /\ ToSet(taken') = ToSet(taken) \cup {Current}
    BY <1>7, <2>1, TakeCurrent DEF PublishThrows
  <2>6. \A e \in ToSet(taken') \cup ToSet(published') \cup dropped' : Saved(e)
    BY <2>1, <2>4, <2>5, <2>t, CurrentEdit DEF Types
  <2>7. dropped' \subseteq Edits
    BY <2>1, <2>5, CurrentEdit DEF Types
  <2> QED
    BY <2>2, <2>3, <2>4, <2>5, <2>6, <2>7, <2>t DEF Types, Saved
<1>8. CASE DelayOver
  BY <1>8 DEF DelayOver, Types, Saved
<1>9. CASE Crash
  BY <1>0, <1>9, Empty, Bounds DEF Crash, Types, Saved
<1>10. CASE Restart
  BY <1>10 DEF Restart, Types, Saved
<1>11. CASE UNCHANGED vars
  BY <1>11 DEF vars, workerVars, Types, Saved
<1> QED
  BY <1>1, <1>3, <1>4, <1>5, <1>6, <1>7, <1>8, <1>9, <1>10, <1>11 DEF Next, Worker

\* Saving adds the newest edit, everything else leaves the wikis alone.
LEMMA StepInTime == Types /\ InTime /\ [Next]_vars => InTime'
<1> SUFFICES ASSUME Types, InTime, [Next]_vars PROVE InTime'
  OBVIOUS
<1>1. ASSUME NEW w \in Wikis, NEW step \in TimeSteps, SaveEdit(w, step)
      PROVE  InTime'
  <2> SUFFICES ASSUME NEW v \in Wikis,
                      NEW i \in 1 .. Len(changes'[v]), NEW j \in 1 .. Len(changes'[v]), i < j
               PROVE  changes'[v][i] <= changes'[v][j]
    BY DEF InTime
  <2>0. changes[v] \in Seq(Nat) /\ Len(changes[v]) \in Nat /\ changes'[v] \in Seq(Nat)
    BY <1>1, Bounds, Saving
  <2>1. /\ \A k \in 1 .. Len(changes[v]) : changes'[v][k] = changes[v][k]
        /\ v # w => changes'[v] = changes[v]
        /\ v = w => Len(changes'[v]) = Len(changes[v]) + 1
    BY <1>1, Saving
  <2>2. CASE j \in 1 .. Len(changes[v])
    <3>1. i \in 1 .. Len(changes[v])
      BY <2>0, <2>2
    <3>2. changes[v][i] <= changes[v][j]
      BY <2>2, <3>1 DEF InTime
    <3> QED
      BY <2>1, <2>2, <3>1, <3>2
  <2>3. CASE j \notin 1 .. Len(changes[v])
    <3> DEFINE n == Len(changes[v])
    <3>1. v = w /\ j = n + 1 /\ i \in 1 .. n
      BY <2>0, <2>1, <2>3
    <3>2. n \in 1 .. n /\ changes[v] # <<>>
      BY <2>0, <3>1, Empty
    <3>3. changes'[v][j] >= changes[v][n]
      BY <1>1, <3>1, <3>2, Saving
    <3>4. i < n \/ i = n
      BY <2>0, <3>1
    <3>5. changes[v][i] <= changes[v][n]
      <4>1. changes[v][n] \in Nat
        BY ONLY <2>0, <3>2
      <4> QED
        BY <3>1, <3>2, <3>4, <4>1 DEF InTime
    <3>6. changes[v][i] \in Nat /\ changes[v][n] \in Nat /\ changes'[v][j] \in Nat
      <4>1. \A s \in Seq(Nat) : \A k \in 1 .. Len(s) : s[k] \in Nat
        OBVIOUS
      <4> QED
        BY <2>0, <3>1, <3>2, <4>1
    <3> QED
      BY <2>1, <3>1, <3>3, <3>5, <3>6
  <2> QED
    BY <2>2, <2>3
<1>2. CASE changes' = changes
  BY <1>2 DEF InTime
<1>3. UNCHANGED vars \/ Worker \/ Crash \/ Restart => changes' = changes
  BY DEF vars, Worker, Fetch, FetchFails, SkipSeen, Publish, PublishThrows, BatchDone,
         DelayOver, Crash, Restart
<1> QED
  BY <1>1, <1>2, <1>3 DEF Next

\* Listed in order, a batch stays in order as it is read from the front.
LEMMA StepSorted == Types /\ Sorted /\ [Next]_vars => Sorted'
<1> SUFFICES ASSUME Types, Sorted, [Next]_vars PROVE Sorted'
  OBVIOUS
<1>0. Here \in Wikis /\ batch \in Seq(1 .. Len(changes[Here]))
  BY Place DEF Types
<1>1. ASSUME NEW w \in Wikis, NEW step \in TimeSteps, SaveEdit(w, step)
      PROVE  Sorted'
  <2>1. \A i \in 1 .. Len(batch) : changes'[Here][batch[i]] = changes[Here][batch[i]]
    <3>1. \A i \in 1 .. Len(batch) : batch[i] \in 1 .. Len(changes[Here])
      BY <1>0
    <3> QED
      BY <1>0, <1>1, <3>1, Saving
  <2>2. batch' = batch /\ at' = at
    BY <1>1 DEF SaveEdit, workerVars
  <2> QED
    BY <2>1, <2>2 DEF Sorted
<1>2. CASE Fetch
  BY <1>0, <1>2, Listing DEF Fetch, Sorted
<1>3. CASE SkipSeen \/ Publish
  <2>1. batch # <<>> /\ batch' = Tail(batch) /\ at' = at /\ changes' = changes
    BY <1>3 DEF SkipSeen, Publish
  <2>2. /\ Len(batch) \in Nat /\ Len(batch') = Len(batch) - 1
        /\ \A i \in 1 .. Len(batch') : i + 1 \in 1 .. Len(batch) /\ batch'[i] = batch[i + 1]
    BY <1>0, <2>1, Removing
  <2> SUFFICES ASSUME NEW i \in 1 .. Len(batch'), NEW j \in 1 .. Len(batch'), i < j
               PROVE  changes[Here][batch'[i]] <= changes[Here][batch'[j]]
    BY <2>1 DEF Sorted
  <2>3. i + 1 < j + 1
    BY <2>2
  <2> QED
    BY <2>2, <2>3 DEF Sorted
<1>4. CASE batch' = <<>>
  BY <1>4, Empty DEF Sorted
<1>5. CASE UNCHANGED <<batch, at, changes>>
  BY <1>5 DEF Sorted
<1>6. FetchFails \/ PublishThrows \/ BatchDone \/ Crash => batch' = <<>>
  BY DEF FetchFails, PublishThrows, BatchDone, Crash, NextWiki
<1>7. DelayOver \/ Restart \/ UNCHANGED vars => UNCHANGED <<batch, at, changes>>
  BY DEF DelayOver, Restart, vars, workerVars
<1> QED
  BY <1>1, <1>2, <1>3, <1>4, <1>5, <1>6, <1>7 DEF Next, Worker

\* An edit is remembered together with its publication or its failure.
LEMMA StepKnown == Types /\ Known /\ [Next]_vars => Known'
<1> SUFFICES ASSUME Types, Known, [Next]_vars PROVE Known'
  OBVIOUS
<1>1. CASE Publish
  <2>1. ToSet(seen') \subseteq ToSet(seen) \cup {Current}
    BY <1>1, RememberCurrent DEF Publish, Remembered
  <2>2. ToSet(published') = ToSet(published) \cup {Current} /\ dropped' = dropped
    BY <1>1, PublishCurrent DEF Publish
  <2> QED
    BY <2>1, <2>2 DEF Known
<1>2. CASE PublishThrows
  <2>1. ToSet(seen') \subseteq ToSet(seen) \cup {Current}
    BY <1>2, RememberCurrent DEF PublishThrows, Remembered
  <2>2. ToSet(published) \subseteq ToSet(published') /\ dropped' = dropped \cup {Current}
    BY <1>2, PublishCurrent DEF PublishThrows
  <2> QED
    BY <2>1, <2>2 DEF Known
<1>3. CASE Crash
  BY <1>3, Empty DEF Crash, Known
<1>4. CASE UNCHANGED <<seen, published, dropped>>
  BY <1>4 DEF Known
<1> QED
  BY <1>1, <1>2, <1>3, <1>4
     DEF Next, Worker, SaveEdit, Fetch, FetchFails, SkipSeen, BatchDone, DelayOver, Restart,
         vars, workerVars

\* An edit that is no longer listed is not listed again.
LEMMA GoneStays ==
  ASSUME Types, [Next]_vars, NEW e \in Edits, ScrolledOff(e), ~InBatch(e)
  PROVE  ScrolledOff(e)' /\ ~InBatch(e)'
<1>0. /\ Here \in Wikis /\ batch \in Seq(1 .. Len(changes[Here])) /\ e[1] \in Wikis
      /\ e[2] \in Nat /\ Limit \in Nat
      /\ \A w \in Wikis : Len(changes[w]) \in Nat
  <2>1. Here \in Wikis /\ batch \in Seq(1 .. Len(changes[Here]))
    BY Place DEF Types
  <2>2. e[1] \in Wikis /\ e[2] \in Nat /\ Limit \in Nat /\ \A w \in Wikis : Len(changes[w]) \in Nat
    BY Bounds
  <2> QED
    BY <2>1, <2>2
<1>1. ASSUME NEW w \in Wikis, NEW step \in TimeSteps, SaveEdit(w, step)
      PROVE  ScrolledOff(e)' /\ ~InBatch(e)'
  <2>1. Len(changes[e[1]]) <= Len(changes'[e[1]]) /\ Len(changes'[e[1]]) \in Nat
    BY <1>0, <1>1, Saving
  <2>2. batch' = batch /\ at' = at
    BY <1>1 DEF SaveEdit, workerVars
  <2> QED
    BY <1>0, <2>1, <2>2 DEF ScrolledOff, InBatch
<1>2. CASE Fetch
  <2>1. ToSet(batch') = Listed(Here) /\ at' = at /\ changes' = changes
    BY <1>0, <1>2, Listing DEF Fetch
  <2>2. e[1] = Here => e[2] \notin Listed(Here)
    BY <1>0 DEF ScrolledOff, Listed
  <2> QED
    BY <2>1, <2>2 DEF ScrolledOff, InBatch
<1>3. CASE SkipSeen \/ Publish
  <2>1. batch # <<>> /\ batch' = Tail(batch) /\ at' = at /\ changes' = changes
    BY <1>3 DEF SkipSeen, Publish
  <2>2. ToSet(batch') \subseteq ToSet(batch)
    BY <1>0, <2>1, Removing
  <2> QED
    BY <2>1, <2>2 DEF ScrolledOff, InBatch
<1>4. CASE FetchFails \/ PublishThrows \/ BatchDone \/ Crash
  <2>1. batch' = <<>> /\ changes' = changes
    BY <1>4 DEF FetchFails, PublishThrows, BatchDone, Crash, NextWiki
  <2> QED
    BY <2>1, Empty DEF ScrolledOff, InBatch
<1>5. CASE DelayOver \/ Restart \/ UNCHANGED vars
  <2>1. UNCHANGED <<batch, at, changes>>
    BY <1>5 DEF DelayOver, Restart, vars, workerVars
  <2> QED
    BY <2>1 DEF ScrolledOff, InBatch
<1> QED
  BY <1>1, <1>2, <1>3, <1>4, <1>5 DEF Next, Worker

LEMMA HistoryGrows ==
  ASSUME Types, [Next]_vars
  PROVE  ToSet(published) \subseteq ToSet(published') /\ dropped \subseteq dropped'
<1>1. CASE Publish
  BY <1>1, PublishCurrent DEF Publish
<1>2. CASE PublishThrows
  BY <1>2, PublishCurrent DEF PublishThrows
<1>3. CASE UNCHANGED <<published, dropped>>
  BY <1>3
<1> QED
  BY <1>1, <1>2, <1>3
     DEF Next, Worker, SaveEdit, Fetch, FetchFails, SkipSeen, BatchDone, DelayOver, Restart,
         Crash, vars, workerVars

LEMMA PastStays ==
  ASSUME Types, [Next]_vars, NEW e \in Edits, Past(e)
  PROVE  Past(e)'
<1>1. CASE e \in ToSet(published) \cup dropped
  BY <1>1, HistoryGrows DEF Past
<1>2. CASE ScrolledOff(e) /\ ~InBatch(e)
  BY <1>2, GoneStays DEF Past
<1> QED
  BY <1>1, <1>2 DEF Past

\* Of two edits of a wiki that had been saved, the older one stays the older one; and the
\* edit just saved is not older than any.
LEMMA OlderStays ==
  ASSUME Types, InTime, [Next]_vars,
         NEW e \in Edits, NEW f \in Edits, Saved(f), Saved(e)', Older(e, f)'
  PROVE  Saved(e) /\ Older(e, f)
<1>1. ASSUME NEW w \in Wikis, NEW step \in TimeSteps, SaveEdit(w, step)
      PROVE  Saved(e) /\ Older(e, f)
  <2> DEFINE v == f[1]
  <2>0. /\ v \in Wikis /\ e[1] = v /\ e[2] \in Nat \ {0} /\ f[2] \in 1 .. Len(changes[v])
        /\ Len(changes[v]) \in Nat /\ changes'[v][e[2]] < changes'[v][f[2]]
        /\ e[2] <= Len(changes'[v])
    BY Bounds DEF Older, Saved, TimeOf
  <2>1. /\ \A k \in 1 .. Len(changes[v]) : changes'[v][k] = changes[v][k]
        /\ Len(changes[v]) <= Len(changes'[v]) /\ Len(changes'[v]) \in Nat
        /\ changes'[v] \in Seq(Nat)
    BY <1>1, <2>0, Saving
  <2>2. InTime'
    BY StepInTime
  <2>3. e[2] \in 1 .. Len(changes'[v]) /\ f[2] \in 1 .. Len(changes'[v])
    BY <2>0, <2>1
  <2>4. changes'[v][e[2]] \in Nat /\ changes'[v][f[2]] \in Nat
    <3>1. \A s \in Seq(Nat) : \A k \in 1 .. Len(s) : s[k] \in Nat
      OBVIOUS
    <3> QED
      BY <2>1, <2>3, <3>1
  <2>5. ~(f[2] < e[2])
    BY <2>0, <2>2, <2>3, <2>4 DEF InTime
  <2>6. e[2] \in 1 .. Len(changes[v])
    BY <2>0, <2>1, <2>5
  <2> QED
    <3>2. changes'[v][e[2]] = changes[v][e[2]] /\ changes'[v][f[2]] = changes[v][f[2]]
      BY ONLY <2>0, <2>1, <2>6
    <3>1. changes[v][e[2]] < changes[v][f[2]] /\ e[2] <= Len(changes[v])
      BY ONLY <2>0, <2>6, <3>2
    <3> QED
      BY <2>0, <3>1 DEF Saved, Older, TimeOf
<1>2. CASE changes' = changes
  BY <1>2 DEF Saved, Older, TimeOf
<1>3. UNCHANGED vars \/ Worker \/ Crash \/ Restart => changes' = changes
  BY DEF vars, Worker, Fetch, FetchFails, SkipSeen, Publish, PublishThrows, BatchDone,
         DelayOver, Crash, Restart
<1> QED
  BY <1>1, <1>2, <1>3 DEF Next

\* The listing reaches down to an edit or the edit has scrolled off; a batch loses its first
\* edit, which is then published.
LEMMA StepBatchComplete == IInv /\ [Next]_vars => BatchComplete'
<1> SUFFICES ASSUME IInv, [Next]_vars, NEW f \in Edits, InBatch(f)',
                    NEW e \in Edits, Saved(e)', Older(e, f)'
             PROVE  InBatch(e)' \/ Past(e)'
  BY DEF BatchComplete
<1>0. /\ Types /\ InTime /\ Known /\ Here \in Wikis /\ batch \in Seq(1 .. Len(changes[Here]))
      /\ Limit \in Nat \ {0} /\ e[2] \in Nat \ {0}
      /\ \A w \in Wikis : Len(changes[w]) \in Nat
  <2>1. Types /\ InTime /\ Known
    BY DEF IInv
  <2>2. Here \in Wikis /\ batch \in Seq(1 .. Len(changes[Here]))
    BY <2>1, Place DEF Types
  <2>3. /\ Limit \in Nat \ {0} /\ e[2] \in Nat \ {0}
        /\ \A w \in Wikis : Len(changes[w]) \in Nat
    BY <2>1, Bounds
  <2> QED
    BY <2>1, <2>2, <2>3
<1>1. ASSUME InBatch(f), InBatch(e) => InBatch(e)' \/ Past(e)'
      PROVE  InBatch(e)' \/ Past(e)'
  <2>1. Saved(f)
    BY <1>0, <1>1, Bounds
  <2>2. Saved(e) /\ Older(e, f)
    BY <1>0, <2>1, OlderStays
  <2>3. InBatch(e) \/ Past(e)
    BY <1>1, <2>2 DEF IInv, BatchComplete
  <2> QED
    BY <1>0, <1>1, <2>3, PastStays
<1>2. CASE UNCHANGED <<batch, at>>
  BY <1>1, <1>2 DEF InBatch
<1>3. CASE Fetch
  <2>1. ToSet(batch') = Listed(Here) /\ at' = at /\ changes' = changes
    BY <1>0, <1>3, Listing DEF Fetch
  <2>2. e[1] = Here /\ e[2] \in 1 .. Len(changes[Here])
    BY <1>0, <2>1 DEF InBatch, Older, Saved
  <2>3. e[2] \in Listed(Here) \/ Len(changes[Here]) >= e[2] + Limit
    BY <1>0, <2>2 DEF Listed
  <2> QED
    BY <2>1, <2>2, <2>3 DEF Past, InBatch, ScrolledOff
<1>4. CASE SkipSeen \/ Publish
  <2>1. batch # <<>> /\ batch' = Tail(batch) /\ at' = at
    BY <1>4 DEF SkipSeen, Publish
  <2>2. /\ ToSet(batch') \subseteq ToSet(batch)
        /\ ToSet(batch) \subseteq ToSet(batch') \cup {Head(batch)}
    BY <1>0, <2>1, Removing
  <2>3. Current \in ToSet(published') \cup dropped'
    <3>1. CASE SkipSeen
      BY <1>0, <3>1 DEF SkipSeen, Known
    <3>2. CASE Publish
      BY <1>0, <3>2, PublishCurrent DEF Publish
    <3> QED
      BY <1>4, <3>1, <3>2
  <2>4. InBatch(e) => InBatch(e)' \/ Past(e)'
    <3> SUFFICES ASSUME InBatch(e), ~InBatch(e)' PROVE Past(e)'
      OBVIOUS
    <3>1. e[1] = Here /\ e[2] = Head(batch) /\ e = <<e[1], e[2]>>
      BY <1>0, <2>1, <2>2, Bounds DEF InBatch
    <3> QED
      BY <2>3, <3>1 DEF Past, Current
  <2>5. InBatch(f)
    BY <2>1, <2>2 DEF InBatch
  <2> QED
    BY <1>1, <2>4, <2>5
<1>5. CASE batch' = <<>>
  BY <1>5, Empty DEF InBatch
<1>6. FetchFails \/ PublishThrows \/ BatchDone \/ Crash => batch' = <<>>
  BY DEF FetchFails, PublishThrows, BatchDone, Crash, NextWiki
<1>7. ASSUME NEW w \in Wikis, NEW step \in TimeSteps, SaveEdit(w, step)
      PROVE  UNCHANGED <<batch, at>>
  BY <1>7 DEF SaveEdit, workerVars
<1>8. DelayOver \/ Restart \/ UNCHANGED vars => UNCHANGED <<batch, at>>
  BY DEF DelayOver, Restart, vars, workerVars
<1> QED
  BY <1>2, <1>3, <1>4, <1>5, <1>6, <1>7, <1>8 DEF Next, Worker

\* Only the current edit is published for the first time.
LEMMA FirstTime ==
  ASSUME Types, [Next]_vars, NEW f \in ToSet(published'), f \notin ToSet(published)
  PROVE  (Publish \/ PublishThrows) /\ f = Current
<1>1. published' # published
  OBVIOUS
<1>2. Publish \/ PublishThrows
  BY <1>1 DEF Next, Worker, SaveEdit, Fetch, FetchFails, SkipSeen, BatchDone, DelayOver, Restart,
              Crash, vars
<1>3. batch # <<>> /\ published' = Append(published, Current)
  BY <1>1, <1>2 DEF Publish, PublishThrows
<1>4. ToSet(published') = ToSet(published) \cup {Current}
  BY <1>3, PublishCurrent
<1> QED
  BY <1>2, <1>4

\* What is older than the edit the worker is at is past.
LEMMA CurrentIsNext ==
  ASSUME IInv, batch # <<>>, NEW e \in Edits, Saved(e), Older(e, Current)
  PROVE  Past(e)
<1>0. /\ Types /\ Sorted /\ Here \in Wikis /\ batch \in Seq(1 .. Len(changes[Here]))
      /\ changes[Here] \in Seq(Nat)
  BY Place, Bounds DEF IInv, Types
<1>1. Current \in Edits /\ InBatch(Current) /\ Current = <<Here, Head(batch)>>
  BY <1>0, CurrentEdit
<1>2. InBatch(e) \/ Past(e)
  BY <1>1 DEF IInv, BatchComplete
<1>3. ASSUME InBatch(e) PROVE FALSE
  <2>1. PICK i \in 1 .. Len(batch) : batch[i] = e[2]
    <3>1. DOMAIN batch = 1 .. Len(batch)
      BY <1>0
    <3> QED
      BY <1>3, <3>1 DEF InBatch, ToSet
  <2>2. e[1] = Here /\ changes[Here][batch[i]] < changes[Here][batch[1]] /\ 1 \in 1 .. Len(batch)
    <3>1. Head(batch) = batch[1] /\ Len(batch) \in Nat \ {0}
      BY <1>0, Removing
    <3> QED
      BY <1>1, <2>1, <3>1 DEF Older, TimeOf
  <2>3. changes[Here][batch[i]] \in Nat /\ changes[Here][batch[1]] \in Nat
    <3>1. batch[i] \in 1 .. Len(changes[Here]) /\ batch[1] \in 1 .. Len(changes[Here])
      <4>1. ASSUME NEW S, NEW b \in Seq(S) PROVE \A k \in 1 .. Len(b) : b[k] \in S
        OBVIOUS
      <4> QED
        BY ONLY <1>0, <2>2, <4>1, i \in 1 .. Len(batch)
    <3>2. ASSUME NEW s \in Seq(Nat) PROVE \A k \in 1 .. Len(s) : s[k] \in Nat
      OBVIOUS
    <3> QED
      BY ONLY <1>0, <3>1, <3>2
  <2>4. 1 < i
    BY <2>2, <2>3
  <2> QED
    BY <1>0, <2>2, <2>3, <2>4, SMTT(30) DEF Sorted
<1> QED
  BY <1>2, <1>3

LEMMA StepPublishedComplete == IInv /\ [Next]_vars => PublishedComplete'
<1> SUFFICES ASSUME IInv, [Next]_vars, NEW f \in ToSet(published'),
                    NEW e \in Edits, Saved(e)', Older(e, f)'
             PROVE  Past(e)'
  BY DEF PublishedComplete
<1>0. Types /\ InTime /\ ToSet(published) \subseteq Edits
  BY DEF IInv, Types, ToSet
<1>1. CASE f \in ToSet(published)
  <2>1. f \in Edits /\ Saved(f)
    BY <1>0, <1>1 DEF Types
  <2>2. Saved(e) /\ Older(e, f)
    BY <1>0, <2>1, OlderStays
  <2>3. Past(e)
    BY <1>1, <2>2 DEF IInv, PublishedComplete
  <2> QED
    BY <1>0, <2>3, PastStays
<1>2. ASSUME f \notin ToSet(published)
      PROVE  (Publish \/ PublishThrows) /\ f = Current
  BY <1>0, <1>2, FirstTime
<1>3. CASE (Publish \/ PublishThrows) /\ f = Current
  <2>1. batch # <<>>
    BY <1>3 DEF Publish, PublishThrows
  <2>2. Current \in Edits /\ Saved(Current)
    BY <1>0, <2>1, CurrentEdit
  <2>3. Saved(e) /\ Older(e, f)
    BY <1>0, <1>3, <2>2, OlderStays
  <2>4. Past(e)
    BY <1>3, <2>1, <2>3, CurrentIsNext
  <2> QED
    BY <1>0, <2>4, PastStays
<1> QED
  BY <1>1, <1>2, <1>3

---------------------------------------------------------------------------
(* Several wikis in one memory.                                            *)

\* What is taken is remembered with it, and both are lost together.
LEMMA Taking ==
  ASSUME [Next]_vars
  PROVE  \/ UNCHANGED <<taken, seen>>
         \/ taken' = <<>> /\ seen' = <<>> /\ batch' = <<>> /\ changes' = changes
         \/ /\ batch # <<>> /\ Current \notin ToSet(seen) /\ Remember(Current)
            /\ taken' = Append(taken, Current) /\ changes' = changes
            /\ batch' = <<>> \/ (batch' = Tail(batch) /\ at' = at)
<1>1. CASE Publish
  BY <1>1 DEF Publish
<1>2. CASE PublishThrows
  BY <1>2 DEF PublishThrows, NextWiki
<1>3. CASE Crash
  BY <1>3 DEF Crash
<1>4. CASE ~Publish /\ ~PublishThrows /\ ~Crash
  BY <1>4 DEF Next, Worker, SaveEdit, Fetch, FetchFails, SkipSeen, BatchDone, DelayOver, Restart,
              vars, workerVars
<1> QED
  BY <1>1, <1>2, <1>3, <1>4

LEMMA TakenGrows ==
  ASSUME Types, batch # <<>>, taken' = Append(taken, Current)
  PROVE  /\ Len(taken) \in Nat /\ Len(taken') = Len(taken) + 1
         /\ \A i \in 1 .. Len(taken) : taken[i] \in Edits /\ taken'[i] = taken[i]
         /\ taken'[Len(taken) + 1] = Current /\ Current \in Edits
<1>1. taken \in Seq(Edits) /\ Current \in Edits
  BY CurrentEdit DEF Types
<1> HIDE DEF Current
<1>2. \A i \in 1 .. Len(taken) : taken[i] \in Edits
  BY <1>1
<1> QED
  BY <1>1, <1>2, Adding

\* The current edit is in the batch, whose edits were listed when the wiki was asked.
LEMMA CurrentInWindow ==
  ASSUME Types, batch # <<>>, NEW n,
         \A i \in 1 .. Len(batch) : n - Limit < batch[i] /\ batch[i] <= n
  PROVE  Current[1] = Here /\ n - Limit < Current[2] /\ Current[2] <= n
<1>1. batch \in Seq(1 .. Len(changes[Here]))
  BY DEF Types
<1>2. Head(batch) = batch[1] /\ 1 \in 1 .. Len(batch)
  BY <1>1, Removing
<1> QED
  BY <1>2 DEF Current

LEMMA StepLastTaken == Types /\ LastTaken /\ [Next]_vars => LastTaken'
<1> SUFFICES ASSUME Types, LastTaken, [Next]_vars PROVE LastTaken'
  OBVIOUS
<1>1. CASE UNCHANGED <<taken, seen>>
  BY <1>1 DEF LastTaken
<1>2. CASE taken' = <<>> /\ seen' = <<>>
  BY <1>2, Empty DEF LastTaken
<1>3. ASSUME batch # <<>>, Remember(Current), taken' = Append(taken, Current)
      PROVE  LastTaken'
  <2>1. /\ Len(taken) \in Nat /\ Len(taken') = Len(taken) + 1
        /\ \A i \in 1 .. Len(taken) : taken'[i] = taken[i]
        /\ taken'[Len(taken) + 1] = Current /\ Current \in Edits
    BY <1>3, TakenGrows
  <2>2. /\ seen' = IF Len(seen) < Capacity THEN Append(seen, Current)
                                           ELSE Append(Tail(seen), Current)
        /\ seen \in Seq(Edits) /\ Len(seen) \in Nat /\ Len(seen) <= Capacity
        /\ Capacity \in Nat \ {0}
    BY <1>3, CollectorAssumption DEF Remember, Types
  <2> HIDE DEF Current
  <2>3. CASE Len(seen) < Capacity
    <3>1. /\ Len(seen) = Len(taken) /\ Len(seen') = Len(seen) + 1
          /\ \A i \in 1 .. Len(seen) : seen'[i] = seen[i]
          /\ seen'[Len(seen) + 1] = Current
      BY <2>1, <2>2, <2>3, Adding DEF LastTaken
    <3>2. \A i \in 1 .. Len(seen) : seen[i] = taken[i]
      BY <2>1, <3>1 DEF LastTaken
    <3>3. \A i \in 1 .. Len(seen') : seen'[i] = taken'[i]
      BY <2>1, <3>1, <3>2
    <3> QED
      BY <2>1, <3>1, <3>3 DEF LastTaken
  <2>4. CASE ~(Len(seen) < Capacity)
    <3> DEFINE tail == Tail(seen)
    <3>0. Len(seen) = Capacity /\ seen # <<>>
      BY <2>2, <2>4, Empty
    <3>1. /\ tail \in Seq(Edits) /\ Len(tail) = Capacity - 1
          /\ \A i \in 1 .. Len(tail) : i + 1 \in 1 .. Len(seen) /\ tail[i] = seen[i + 1]
      BY <2>2, <3>0, Removing
    <3>2. seen' = Append(tail, Current)
      BY <2>2, <2>4
    <3> HIDE DEF tail
    <3>3. /\ Len(seen') = Capacity
          /\ \A i \in 1 .. Capacity - 1 : seen'[i] = seen[i + 1] /\ i + 1 \in 1 .. Len(seen)
          /\ seen'[Capacity] = Current
      <4>1. /\ Len(tail) \in Nat /\ Len(seen') = Len(tail) + 1
            /\ \A i \in 1 .. Len(tail) : seen'[i] = tail[i]
            /\ seen'[Len(tail) + 1] = Current
        BY <2>1, <3>1, <3>2, Adding
      <4> QED
        BY <2>2, <3>1, <4>1
    <3>4. Len(taken) >= Capacity
      BY <3>0 DEF LastTaken
    <3>5. ASSUME NEW i \in 1 .. Capacity - 1 PROVE seen'[i] = taken'[Len(taken') - Capacity + i]
      <4>1. seen'[i] = seen[i + 1] /\ i + 1 \in 1 .. Len(seen)
        BY <3>3, <3>5
      <4>2. seen[i + 1] = taken[Len(taken) - Len(seen) + (i + 1)]
        BY <4>1 DEF LastTaken
      <4>3. /\ Len(taken) - Len(seen) + (i + 1) = Len(taken') - Capacity + i
            /\ Len(taken') - Capacity + i \in 1 .. Len(taken)
        BY <2>1, <2>2, <3>0, <3>4, <3>5
      <4>4. taken'[Len(taken') - Capacity + i] = taken[Len(taken') - Capacity + i]
        BY <2>1, <4>3
      <4> QED
        BY <4>1, <4>2, <4>3, <4>4
    <3>6. seen'[Capacity] = taken'[Len(taken') - Capacity + Capacity]
      <4>1. Len(taken') - Capacity + Capacity = Len(taken) + 1
        BY <2>1, <2>2
      <4> QED
        BY <2>1, <3>3, <4>1
    <3>7. \A i \in 1 .. Capacity : i = Capacity \/ i \in 1 .. Capacity - 1
      BY <2>2
    <3>8. \A i \in 1 .. Len(seen') : seen'[i] = taken'[Len(taken') - Len(seen') + i]
      BY ONLY <3>3, <3>5, <3>6, <3>7
    <3>9. Len(seen') <= Len(taken') /\ ~(Len(seen') < Capacity)
      BY ONLY <2>1, <2>2, <3>3, <3>4
    <3> QED
      BY ONLY <3>8, <3>9 DEF LastTaken
  <2> QED
    BY <2>3, <2>4
<1> QED
  BY <1>1, <1>2, <1>3, Taking

\* An edit that is taken is not remembered, so that Capacity others were taken since.
LEMMA StepSpread == Types /\ LastTaken /\ Spread /\ [Next]_vars => Spread'
<1> SUFFICES ASSUME Types, LastTaken, Spread, [Next]_vars PROVE Spread'
  OBVIOUS
<1>1. CASE UNCHANGED <<taken, seen>>
  BY <1>1 DEF Spread
<1>2. CASE taken' = <<>>
  BY <1>2, Empty DEF Spread
<1>3. ASSUME batch # <<>>, Current \notin ToSet(seen), taken' = Append(taken, Current)
      PROVE  Spread'
  <2>1. /\ Len(taken) \in Nat /\ Len(taken') = Len(taken) + 1
        /\ \A i \in 1 .. Len(taken) : taken'[i] = taken[i]
        /\ taken'[Len(taken) + 1] = Current
    BY <1>3, TakenGrows
  <2>2. /\ Len(seen) \in Nat /\ Len(seen) <= Capacity /\ Capacity \in Nat
        /\ \A i \in 1 .. Len(seen) : seen[i] \in ToSet(seen)
    <3>1. seen \in Seq(Edits) /\ Len(seen) <= Capacity /\ Capacity \in Nat
      BY CollectorAssumption DEF Types
    <3>2. Len(seen) \in Nat /\ DOMAIN seen = 1 .. Len(seen)
      BY <3>1
    <3> QED
      BY <3>1, <3>2 DEF ToSet
  <2> HIDE DEF Current
  <2>3. ASSUME NEW i \in 1 .. Len(taken), taken[i] = Current, Len(taken) + 1 <= i + Capacity
        PROVE  FALSE
    <3> DEFINE m == i - (Len(taken) - Len(seen))
    <3>1. m \in 1 .. Len(seen) /\ Len(taken) - Len(seen) + m = i
      BY <2>1, <2>2, <2>3 DEF LastTaken
    <3>2. seen[m] = taken[i]
      BY <3>1 DEF LastTaken
    <3> QED
      BY <1>3, <2>2, <2>3, <3>1, <3>2
  <2> SUFFICES ASSUME NEW i \in 1 .. Len(taken'), NEW j \in 1 .. Len(taken'), i < j,
                      taken'[i] = taken'[j]
               PROVE  j > i + Capacity
    BY DEF Spread
  <2>4. i \in 1 .. Len(taken) /\ taken'[i] = taken[i]
    BY <2>1
  <2>5. CASE j \in 1 .. Len(taken)
    BY <2>1, <2>4, <2>5 DEF Spread
  <2>6. CASE j \notin 1 .. Len(taken)
    <3>1. j = Len(taken) + 1
      BY <2>1, <2>6
    <3>2. taken[i] = Current
      BY <2>1, <2>4, <3>1
    <3> QED
      BY ONLY <2>1, <2>2, <2>3, <2>4, <3>1, <3>2
  <2> QED
    BY <2>5, <2>6
<1> QED
  BY <1>1, <1>2, <1>3, Taking

\* The bound of the window moves only when a wiki is asked.
LEMMA StepWindow == Types /\ Window /\ [Next]_vars => Window'
<1> SUFFICES ASSUME Types, Window, [Next]_vars PROVE Window'
  OBVIOUS
<1>0. /\ Here \in Wikis /\ batch \in Seq(1 .. Len(changes[Here])) /\ taken \in Seq(Edits)
      /\ Limit \in Nat \ {0} /\ \A w \in Wikis : Len(changes[w]) \in Nat
      /\ Types' /\ Here' \in Wikis
  <2>1. Here \in Wikis /\ batch \in Seq(1 .. Len(changes[Here])) /\ taken \in Seq(Edits)
    BY Place DEF Types
  <2>2. Limit \in Nat \ {0} /\ \A w \in Wikis : Len(changes[w]) \in Nat
    BY Bounds
  <2>3. Types'
    BY StepTypes
  <2>4. Here' \in Wikis
    BY <2>3, Polling DEF Types
  <2> QED
    BY <2>1, <2>2, <2>3, <2>4
<1>w. PICK n \in 0 .. Len(changes[Here]) :
         /\ \A i \in 1 .. Len(batch) : n - Limit < batch[i] /\ batch[i] <= n
         /\ \A i \in 1 .. Len(taken) : taken[i][1] = Here => taken[i][2] <= n
  BY DEF Window
<1>1. ASSUME batch' = <<>> PROVE Window'
  <2> DEFINE m == Len(changes'[Here'])
  <2>1. taken' \in Seq(Edits) /\ m \in Nat /\ \A e \in ToSet(taken') : e[2] <= Len(changes'[e[1]])
    <3>1. taken' \in Seq(Edits) /\ \A e \in ToSet(taken') : e[2] <= Len(changes'[e[1]])
      BY <1>0 DEF Types, Saved
    <3>2. changes' \in [Wikis -> Seq(Nat)]
      BY <1>0 DEF Types
    <3>3. \A s \in Seq(Nat) : Len(s) \in Nat
      OBVIOUS
    <3> QED
      BY <1>0, <3>1, <3>2, <3>3
  <2>2. \A i \in 1 .. Len(taken') : taken'[i] \in ToSet(taken')
    <3>1. DOMAIN taken' = 1 .. Len(taken')
      BY <2>1
    <3> QED
      BY <3>1 DEF ToSet
  <2>3. \A i \in 1 .. Len(taken') : taken'[i][1] = Here' => taken'[i][2] <= m
    BY <2>1, <2>2
  <2>4. m \in 0 .. Len(changes'[Here'])
    BY <2>1
  <2> HIDE DEF m
  <2> QED
    BY <1>1, <2>3, <2>4, Empty DEF Window
<1>2. ASSUME at' = at, n \in 0 .. Len(changes'[Here]),
             \A i \in 1 .. Len(batch') : n - Limit < batch'[i] /\ batch'[i] <= n,
             \A i \in 1 .. Len(taken') : taken'[i][1] = Here => taken'[i][2] <= n
      PROVE  Window'
  BY <1>2 DEF Window
<1>3. ASSUME NEW w \in Wikis, NEW step \in TimeSteps, SaveEdit(w, step)
      PROVE  Window'
  <2>1. Len(changes'[Here]) \in Nat /\ Len(changes[Here]) <= Len(changes'[Here])
    BY <1>0, <1>3, Saving
  <2>2. UNCHANGED <<batch, taken, at>>
    BY <1>3 DEF SaveEdit, workerVars
  <2>3. n \in 0 .. Len(changes'[Here])
    BY <1>0, <2>1
  <2> QED
    BY <1>w, <1>2, <2>2, <2>3
<1>4. CASE Fetch
  <2> DEFINE m == Len(changes[Here])
  <2>1. /\ batch' \in RecentChanges(Here) /\ UNCHANGED <<changes, taken, at>>
        /\ ToSet(batch') = Listed(Here) /\ DOMAIN batch' = 1 .. Len(batch')
    BY <1>0, <1>4, Listing DEF Fetch
  <2>2. \A i \in 1 .. Len(batch') : batch'[i] \in Listed(Here)
    BY <2>1 DEF ToSet
  <2>3. \A i \in 1 .. Len(batch') : m - Limit < batch'[i] /\ batch'[i] <= m
    BY <1>0, <2>2 DEF Listed
  <2>4. \A i \in 1 .. Len(taken) : taken[i][1] = Here => taken[i][2] <= m
    <3>1. \A i \in 1 .. Len(taken) : taken[i] \in Edits
      BY <1>0
    <3>2. \A e \in Edits : e[2] \in Nat
      BY Bounds
    <3>3. n <= m /\ n \in Nat /\ m \in Nat
      BY <1>0
    <3> HIDE DEF m
    <3>4. ASSUME NEW x \in Nat, x <= n PROVE x <= m
      BY ONLY <3>3, <3>4
    <3> QED
      BY <1>w, <3>1, <3>2, <3>4
  <2>5. m \in 0 .. Len(changes'[Here'])
    BY <1>0, <2>1
  <2> HIDE DEF m
  <2> QED
    BY <2>1, <2>3, <2>4, <2>5 DEF Window
<1>5. ASSUME batch # <<>>, batch' = Tail(batch)
      PROVE  \A i \in 1 .. Len(batch') : n - Limit < batch'[i] /\ batch'[i] <= n
  BY <1>0, <1>5, <1>w, Removing
<1>6. CASE SkipSeen
  <2>1. UNCHANGED <<changes, taken, at>> /\ batch # <<>> /\ batch' = Tail(batch)
    BY <1>6 DEF SkipSeen
  <2>2. n \in 0 .. Len(changes'[Here])
    BY <2>1
  <2> QED
    BY <1>w, <1>2, <1>5, <2>1, <2>2
<1>7. CASE Publish
  <2>1. /\ changes' = changes /\ at' = at /\ taken' = Append(taken, Current)
        /\ batch # <<>> /\ batch' = Tail(batch)
    BY <1>7 DEF Publish
  <2>2. Current[2] <= n
    BY <1>w, <2>1, CurrentInWindow
  <2>3. /\ Len(taken) \in Nat /\ Len(taken') = Len(taken) + 1
        /\ \A i \in 1 .. Len(taken) : taken'[i] = taken[i]
        /\ taken'[Len(taken) + 1] = Current
    BY <2>1, TakenGrows
  <2> HIDE DEF Current
  <2>4. \A i \in 1 .. Len(taken') : i \in 1 .. Len(taken) \/ i = Len(taken) + 1
    BY <2>3
  <2>5. \A i \in 1 .. Len(taken') : taken'[i][1] = Here => taken'[i][2] <= n
    BY <1>w, <2>2, <2>3, <2>4
  <2>6. n \in 0 .. Len(changes'[Here])
    BY <2>1
  <2> QED
    BY <1>2, <1>5, <2>1, <2>5, <2>6
<1>8. CASE FetchFails \/ PublishThrows \/ BatchDone \/ Crash
  BY <1>1, <1>8 DEF FetchFails, PublishThrows, BatchDone, Crash, NextWiki
<1>9. CASE UNCHANGED <<changes, batch, taken, at>>
  BY <1>9 DEF Window
<1> QED
  BY <1>3, <1>4, <1>6, <1>7, <1>8, <1>9 DEF Next, Worker, DelayOver, Restart, vars, workerVars

\* An edit that is taken was listed, and the listing's oldest edit is less than a listing
\* older than any that was saved by then.
LEMMA StepNearOrNewer == Types /\ Window /\ NearOrNewer /\ [Next]_vars => NearOrNewer'
<1> SUFFICES ASSUME Types, Window, NearOrNewer, [Next]_vars PROVE NearOrNewer'
  OBVIOUS
<1>1. ASSUME batch # <<>>, taken' = Append(taken, Current)
      PROVE  NearOrNewer'
  <2>1. /\ Len(taken) \in Nat /\ Len(taken') = Len(taken) + 1
        /\ \A i \in 1 .. Len(taken) : taken[i] \in Edits /\ taken'[i] = taken[i]
        /\ taken'[Len(taken) + 1] = Current /\ Current \in Edits
    BY <1>1, TakenGrows
  <2>2. PICK n \in 0 .. Len(changes[Here]) :
           /\ \A i \in 1 .. Len(batch) : n - Limit < batch[i] /\ batch[i] <= n
           /\ \A i \in 1 .. Len(taken) : taken[i][1] = Here => taken[i][2] <= n
    BY DEF Window
  <2>3. Current[1] = Here /\ n - Limit < Current[2]
    BY <1>1, <2>2, CurrentInWindow
  <2>4. \A e \in Edits : e[2] \in Nat
    BY Bounds
  <2>5. n \in Int /\ Limit \in Int
    BY CollectorAssumption
  <2> HIDE DEF Current
  <2> SUFFICES ASSUME NEW i \in 1 .. Len(taken'), NEW j \in 1 .. Len(taken'), i < j,
                      taken'[i][1] = taken'[j][1]
               PROVE  taken'[j][2] > taken'[i][2] - Limit
    BY DEF NearOrNewer
  <2>6. i \in 1 .. Len(taken) /\ taken'[i] = taken[i]
    BY <2>1
  <2>7. CASE j \in 1 .. Len(taken)
    BY <2>1, <2>6, <2>7 DEF NearOrNewer
  <2>8. CASE j \notin 1 .. Len(taken)
    <3>1. j = Len(taken) + 1
      BY <2>1, <2>8
    <3>2. taken'[j] = Current /\ taken[i][1] = Here
      BY <2>1, <2>3, <2>6, <3>1
    <3>3. taken[i][2] <= n /\ taken[i][2] \in Nat /\ Current[2] \in Nat
      BY <2>1, <2>2, <2>4, <2>6, <3>2
    <3> QED
      BY ONLY <2>3, <2>5, <2>6, <3>2, <3>3
  <2> QED
    BY <2>7, <2>8
<1>2. CASE taken' = <<>>
  BY <1>2, Empty DEF NearOrNewer
<1>3. CASE taken' = taken
  BY <1>3 DEF NearOrNewer
<1> QED
  BY <1>1, <1>2, <1>3, Taking

---------------------------------------------------------------------------
(* Theorems.                                                               *)

LEMMA InitIInv == Init => IInv
<1> SUFFICES ASSUME Init PROVE IInv
  OBVIOUS
<1>1. /\ changes = [w \in Wikis |-> <<>>] /\ \A w \in Wikis : changes[w] = <<>>
      /\ 1 \in 1 .. Len(Polled) /\ Polled[1] \in Wikis /\ MaxEdits \in Nat /\ Capacity \in Nat
  BY CollectorAssumption, Polling DEF Init
<1>2. Types
  BY <1>1, Empty DEF Init, Types
<1>3. InTime /\ Sorted
  BY <1>1, Empty DEF Init, InTime, Sorted
<1>4. Known /\ BatchComplete /\ PublishedComplete
  BY Empty DEF Init, Known, BatchComplete, PublishedComplete, InBatch
<1>5. taken = <<>> /\ seen = <<>> /\ batch = <<>> /\ Polled[at] = Polled[1]
  BY DEF Init
<1>6. LastTaken /\ NearOrNewer /\ Spread
  BY <1>5, Empty DEF LastTaken, NearOrNewer, Spread
<1>7. Window
  <2>1. 0 \in 0 .. Len(changes[Here])
    BY <1>1, <1>5, Empty
  <2> QED
    BY <1>5, <2>1, Empty DEF Window
<1> QED
  BY <1>2, <1>3, <1>4, <1>6, <1>7 DEF IInv

\* The inductive invariant, for any number of wikis that share the memory.
THEOREM Inductive == Spec => []IInv
<1>1. Init => IInv
  BY InitIInv
<1>2. IInv /\ [Next]_vars => IInv'
  BY StepTypes, StepInTime, StepSorted, StepKnown, StepBatchComplete, StepPublishedComplete,
     StepLastTaken, StepWindow, StepNearOrNewer, StepSpread
     DEF IInv
<1> QED
  BY <1>1, <1>2, PTL DEF Spec

\* The batch holds edits of the wiki the worker is at, and the memory (HashSet and Queue) holds
\* the last edits taken, each once and never more than Capacity of them.
THEOREM TypeCorrect == Spec => []TypeOK
<1>1. IInv => TypeOK
  <2> SUFFICES ASSUME Types, LastTaken PROVE TypeOK
    BY DEF IInv
  <2>1. ToSet(taken) \cup ToSet(published) \cup dropped \subseteq {e \in Edits : Saved(e)}
    BY DEF Types, ToSet
  <2>2. IsInjective(seen)
    <3>1. DOMAIN seen = 1 .. Len(seen)
      BY DEF Types
    <3> QED
      BY <3>1 DEF Types, IsInjective
  <2>3. seen = SubSeq(taken, Len(taken) - Len(seen) + 1, Len(taken))
    <3> DEFINE n == Len(taken)
               m == Len(seen)
    <3>1. seen \in Seq(Edits) /\ taken \in Seq(Edits) /\ n \in Nat /\ m \in Nat /\ m <= n
      BY DEF Types, LastTaken
    <3>2. \A i \in 1 .. m : seen[i] = taken[n - m + i]
      BY DEF LastTaken
    <3>3. seen = [i \in 1 .. m |-> seen[i]]
      BY <3>1
    <3> HIDE DEF n, m
    <3>4. SubSeq(taken, n - m + 1, n) = [i \in 1 .. m |-> taken[n - m + i]]
      <4> DEFINE end == SubSeq(taken, n - m + 1, n)
      <4>1. \A i \in n - m + 1 .. n : taken[i] \in Edits
        BY <3>1 DEF n
      <4>2. /\ end \in Seq(Edits)
            /\ Len(end) = IF n - m + 1 <= n THEN n - (n - m + 1) + 1 ELSE 0
            /\ \A i \in 1 .. n - (n - m + 1) + 1 : end[i] = taken[n - m + 1 + i - 1]
        BY <3>1, <4>1, SubSeqProperties
      <4>3. n - (n - m + 1) + 1 = m /\ \A i \in 1 .. m : n - m + 1 + i - 1 = n - m + i
        BY <3>1
      <4>4. Len(end) = m
        BY <3>1, <4>2, <4>3
      <4> HIDE DEF end
      <4>5. \A i \in 1 .. m : end[i] = taken[n - m + i]
        BY <4>2, <4>3
      <4>6. end = [i \in 1 .. m |-> end[i]]
        BY <4>2, <4>4
      <4> QED
        BY <4>5, <4>6 DEF end
    <3> QED
      BY <3>2, <3>3, <3>4 DEF n, m
  <2>4. DOMAIN Polled = 1 .. Len(Polled)
    BY Polling
  <2> QED
    BY <2>1, <2>2, <2>3, <2>4 DEF TypeOK, Types
<1> QED
  BY <1>1, Inductive, PTL

\* Whatever polls fail half-way and whenever the process restarts, an edit of a wiki is not
\* published for the first time after a newer one, unless its ProduceAsync threw before.
THEOREM InTimeOrder == Spec => FirstPublishedInTimeOrder
<1>1. IInv /\ [Next]_vars =>
        [\A e \in ToSet(published') \ ToSet(published), f \in ToSet(published) :
            e[1] = f[1] /\ TimeOf(e) < TimeOf(f) => e \in dropped]_vars
  <2> SUFFICES ASSUME IInv, [Next]_vars, NEW e \in ToSet(published') \ ToSet(published),
                      NEW f \in ToSet(published), e[1] = f[1], TimeOf(e) < TimeOf(f)
               PROVE  e \in dropped
    OBVIOUS
  <2>0. Types
    BY DEF IInv
  <2>1. (Publish \/ PublishThrows) /\ e = Current
    BY <2>0, FirstTime
  <2>2. e \in Edits /\ Saved(e) /\ InBatch(e)
    BY <2>0, <2>1, CurrentEdit DEF Publish, PublishThrows
  <2>3. Past(e)
    BY <2>2 DEF IInv, PublishedComplete, Older
  <2> QED
    BY <2>2, <2>3 DEF Past
<1> QED
  BY <1>1, Inductive, PTL DEF Spec, FirstPublishedInTimeOrder


\* Of the Capacity edits taken after an edit and before it is taken again, those of its own
\* wiki are different, other than it, and less than a listing away on either side.
LEMMA OwnWikiBetween ==
  ASSUME Types, NearOrNewer, Spread,
         NEW i \in 1 .. Len(taken), NEW j \in 1 .. Len(taken), i < j, taken[i] = taken[j]
  PROVE  LET own == {k \in i + 1 .. i + Capacity : taken[k][1] = taken[i][1]}
         IN  IsFiniteSet(own) /\ Cardinality(own) <= 2 * Limit - 2
<1> DEFINE own == {k \in i + 1 .. i + Capacity : taken[k][1] = taken[i][1]}
           h == taken[i][2]
           full == h - Limit + 1 .. h + Limit - 1
           number == [k \in own |-> taken[k][2]]
<1>1. /\ Len(taken) \in Nat /\ i \in Nat /\ j \in Nat /\ Limit \in Nat \ {0} /\ Capacity \in Nat
      /\ \A k \in 1 .. Len(taken) : taken[k] \in Edits
  <2>1. taken \in Seq(Edits)
    BY DEF Types
  <2> QED
    BY <2>1, CollectorAssumption
<1>2. j > i + Capacity
  BY DEF Spread
<1>3. \A e \in Edits : e[2] \in Nat /\ e = <<e[1], e[2]>>
  BY Bounds
<1>4. taken[i] \in Edits /\ h \in Nat
  BY <1>1, <1>3
<1>5. ASSUME NEW k \in own
      PROVE  /\ k \in 1 .. Len(taken) /\ i < k /\ k < j /\ k <= i + Capacity
             /\ taken[k] \in Edits /\ taken[k][1] = taken[i][1] /\ taken[k][2] \in Nat
  <2>1. k \in i + 1 .. i + Capacity /\ taken[k][1] = taken[i][1]
    OBVIOUS
  <2>2. k \in 1 .. Len(taken) /\ i < k /\ k < j /\ k <= i + Capacity
    BY ONLY <1>1, <1>2, <2>1, j \in 1 .. Len(taken)
  <2> QED
    BY <1>1, <1>3, <2>1, <2>2
<1> HIDE DEF own
<1>6. \A k \in own : taken[k][2] \in full \ {h}
  <2> SUFFICES ASSUME NEW k \in own PROVE taken[k][2] \in full \ {h}
    OBVIOUS
  <2>1. taken[k][2] > h - Limit
    BY <1>5 DEF NearOrNewer
  <2>2. h > taken[k][2] - Limit
    BY <1>5 DEF NearOrNewer
  <2>3. taken[k][2] # h
    <3> SUFFICES ASSUME taken[k][2] = h PROVE FALSE
      OBVIOUS
    <3>1. taken[k] = taken[i]
      BY ONLY <1>3, <1>4, <1>5, taken[k][2] = h, k \in own
    <3>2. k > i + Capacity
      BY <1>5, <3>1 DEF Spread
    <3> QED
      BY <1>1, <1>5, <3>2
  <2>4. taken[k][2] \in Nat
    BY <1>5
  <2> HIDE DEF h
  <2> QED
    BY <1>1, <1>4, <2>1, <2>2, <2>3, <2>4
<1>7. ASSUME NEW k \in own, NEW l \in own, k < l PROVE taken[k][2] # taken[l][2]
  <2> SUFFICES ASSUME taken[k][2] = taken[l][2] PROVE FALSE
    OBVIOUS
  <2>0. /\ taken[k] \in Edits /\ taken[l] \in Edits /\ taken[k][1] = taken[l][1]
        /\ k \in 1 .. Len(taken) /\ l \in 1 .. Len(taken) /\ i < k /\ l <= i + Capacity
    BY <1>5
  <2>1. taken[k] = taken[l]
    BY ONLY <1>3, <2>0, taken[k][2] = taken[l][2]
  <2>2. l > k + Capacity
    BY <1>7, <2>0, <2>1 DEF Spread
  <2> QED
    BY ONLY <1>1, <2>0, <2>2
<1>8. \A k, l \in own : number[k] = number[l] => k = l
  <2> SUFFICES ASSUME NEW k \in own, NEW l \in own, k # l PROVE taken[k][2] # taken[l][2]
    OBVIOUS
  <2>1. k \in 1 .. Len(taken) /\ l \in 1 .. Len(taken)
    BY <1>5
  <2>2. k < l \/ l < k
    BY <1>1, <2>1
  <2> QED
    BY <1>7, <2>2
<1>9. IsFiniteSet(full \ {h}) /\ Cardinality(full \ {h}) = 2 * Limit - 2
  <2> DEFINE a == h - Limit + 1
             b == h + Limit - 1
  <2>0. h \in Nat /\ Limit \in Nat /\ Limit >= 1
    BY <1>1, <1>4
  <2> HIDE DEF h
  <2>1. a \in Int /\ b \in Int /\ a <= b /\ h \in a .. b /\ b - a + 1 = 2 * Limit - 1
    BY <2>0
  <2>2. full = a .. b
    OBVIOUS
  <2> HIDE DEF a, b, full
  <2>3. IsFiniteSet(full) /\ Cardinality(full) = 2 * Limit - 1
    BY <2>1, <2>2, FS_Interval
  <2>4. IsFiniteSet(full \ {h}) /\ Cardinality(full \ {h}) = Cardinality(full) - 1
    BY <2>1, <2>2, <2>3, FS_RemoveElement
  <2> QED
    BY <1>1, <2>3, <2>4
<1> HIDE DEF full, h
<1>10. number \in Injection(own, full \ {h})
  <2>1. number \in [own -> full \ {h}]
    BY <1>6
  <2>2. DOMAIN number = own
    OBVIOUS
  <2> HIDE DEF number
  <2> QED
    BY <1>8, <2>1, <2>2 DEF Injection, IsInjective
<1>11. IsFiniteSet(own) /\ Cardinality(own) <= 2 * Limit - 2
  BY <1>9, <1>10, FS_Injection
<1> QED
  BY <1>11 DEF own

\* For any wikis that share the memory, whichever of them are polled and in what order: in one
\* life of the process an edit is given to ProduceAsync again only after so many edits of other
\* wikis that those of its own were too few to push its key out of the queue.  A worker of
\* one wiki whose memory holds two listings less one edit gives no edit twice.
THEOREM TakenOnceAmongOwn == Spec => []TakenAgainOnlyAfterOthers
<1>1. IInv => TakenAgainOnlyAfterOthers
  <2> SUFFICES ASSUME Types, NearOrNewer, Spread,
                      NEW i \in 1 .. Len(taken), NEW j \in 1 .. Len(taken), i < j,
                      taken[i] = taken[j]
               PROVE  Cardinality({k \in i .. j : taken[k][1] # taken[i][1]})
                         >= Capacity - (2 * Limit - 2)
    <3>1. Types => DOMAIN taken = 1 .. Len(taken)
      BY DEF Types
    <3> QED
      BY <3>1 DEF IInv, TakenAgainOnlyAfterOthers
  <2> DEFINE after == i + 1 .. i + Capacity
             own == {k \in after : taken[k][1] = taken[i][1]}
             others == {k \in i .. j : taken[k][1] # taken[i][1]}
  <2>1. i \in Nat /\ j \in Nat /\ Capacity \in Nat /\ Limit \in Nat /\ j > i + Capacity
    <3>1. Len(taken) \in Nat /\ j > i + Capacity
      BY DEF Types, Spread
    <3> QED
      BY <3>1, CollectorAssumption
  <2>2. IsFiniteSet(own) /\ Cardinality(own) <= 2 * Limit - 2
    BY OwnWikiBetween
  <2>3. IsFiniteSet(after) /\ Cardinality(after) = Capacity
    <3> DEFINE a == i + 1
               b == i + Capacity
    <3>1. a \in Int /\ b \in Int /\ b - a + 1 = Capacity /\ (a > b => Capacity = 0)
      BY <2>1
    <3>2. after = a .. b
      OBVIOUS
    <3> HIDE DEF a, b, after
    <3> QED
      BY <2>1, <3>1, <3>2, FS_Interval
  <2>4. IsFiniteSet(after \ own) /\ Cardinality(after \ own) = Capacity - Cardinality(own)
    <3>1. after \cap own = own
      OBVIOUS
    <3> HIDE DEF after, own
    <3> QED
      BY <2>3, <3>1, FS_Difference
  <2>5. IsFiniteSet(others) /\ after \ own \subseteq others
    <3>1. IsFiniteSet(i .. j) /\ others \subseteq i .. j
      BY <2>1, FS_Interval
    <3>2. after \subseteq i .. j
      BY <2>1
    <3> QED
      BY <3>1, <3>2, FS_Subset
  <2> HIDE DEF after, own, others
  <2>6. Cardinality(after \ own) <= Cardinality(others)
    BY <2>5, FS_Subset
  <2>7. Cardinality(own) \in Nat /\ Cardinality(others) \in Nat
    BY <2>2, <2>5, FS_CardinalityType
  <2>8. Cardinality(others) >= Capacity - (2 * Limit - 2)
    BY ONLY <2>1, <2>2, <2>4, <2>6, <2>7
  <2> QED
    BY <2>8 DEF others
<1> QED
  BY <1>1, Inductive, PTL
=============================================================================
