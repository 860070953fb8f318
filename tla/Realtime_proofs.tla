--------------------------- MODULE Realtime_proofs ---------------------------
(***************************************************************************)
(* Theorems about Realtime, for any number of updates, faults and reloads. *)
(***************************************************************************)
EXTENDS Realtime, TLAPS

Messages == [stream : Streams, version : Versions]

Types ==
    /\ saved \in Versions /\ row \in Versions /\ stored \in Versions
    /\ published \in [Streams -> Versions] /\ sent \in [Streams -> Versions]
    /\ kind \in Kinds
    /\ pc \in {"closed", "load", "list", "connect", "join", "live", "offline", "dead"}
    /\ connection \in {"none", "up", "failed", "reconnecting", "closed"}
    /\ groups \subseteq {GroupOf[kind]}
    /\ inbox \in Seq(Messages)
    /\ answer \in Versions \cup {Nothing}
    /\ reload \in {"no", "asked", "answered"}
    /\ shown \in [Streams -> Versions]
    /\ loaded \in [Streams -> Versions \cup {Nothing}]
    /\ excused \subseteq Streams

\* Saved, then published, then stored as a topic, then published, then sent.
InOrder ==
    /\ published["topic"] <= stored /\ stored <= published["article"]
    /\ published["article"] <= saved
    /\ \A s \in Streams : sent[s] <= published[s]

\* The page joins last, and is sent nothing before.
Joined ==
    /\ groups # {} => connection = "up" /\ pc = "live"
    /\ inbox # <<>> => groups # {}
    /\ pc \in {"closed", "load", "list", "connect"} => connection = "none"

\* One REST call is in progress, of the page or of the button.
Asking ==
    /\ pc = "list" => kind = "topic"
    /\ reload # "no" => kind = "topic" /\ Rendered
    /\ answer # Nothing => Loading \/ reload = "answered"
    /\ reload = "answered" => answer # Nothing

\* A page that is rendered has loaded what it follows, and shows just that until it
\* has joined.
LoadedFirst ==
    /\ Rendered => \A s \in Follows[kind] : loaded[s] # Nothing
    /\ pc = "list" => loaded["topic"] # Nothing
    /\ pc \in {"closed", "load", "list", "connect", "join"} =>
          \A s \in Streams : shown[s] = loaded[s] \/ shown[s] = 0

\* The messages under way: of what the page follows, in the order they were sent, and
\* the last of a stream is the last that was sent.
Underway ==
    \A i \in 1 .. Len(inbox) :
        /\ inbox[i].stream \in Follows[kind]
        /\ inbox[i].version <= sent[inbox[i].stream]
        /\ \/ inbox[i].version = sent[inbox[i].stream]
           \/ \E j \in i + 1 .. Len(inbox) : inbox[j].stream = inbox[i].stream
        /\ \A j \in i + 1 .. Len(inbox) :
              inbox[j].stream = inbox[i].stream => inbox[j].version > inbox[i].version

\* A member shows what it has loaded, or a version it was sent that is older than
\* those under way.
Forward ==
    \A s \in Streams :
        \/ shown[s] = loaded[s]
        \/ groups = {}
        \/ /\ shown[s] <= sent[s]
           /\ \A i \in 1 .. Len(inbox) : inbox[i].stream = s => inbox[i].version > shown[s]

\* The version the page shows, or will when the answer under way is in.
Held(s) == IF Answering(s) THEN answer ELSE shown[s]

\* Of the stream, the page has all it will get without another update: it has loaded
\* or been answered once, no message is under way, and no answer to "Show more".
Settled(s) ==
    /\ Answering(s) \/ loaded[s] # Nothing
    /\ s = "article" => reload = "no"
    /\ \A i \in 1 .. Len(inbox) : inbox[i].stream # s

\* What has settled is current but for what it is excused for.
Current ==
    pc # "dead" => \A s \in Follows[kind] \ excused : Settled(s) => Held(s) >= sent[s]

IInv == Types /\ InOrder /\ Joined /\ Asking /\ LoadedFirst /\ Underway /\ Forward /\ Current

---------------------------------------------------------------------------

\* What is under way after a message is sent, and after one is delivered.
LEMMA Sending ==
  ASSUME NEW s \in Seq(Messages), NEW m \in Messages
  PROVE  /\ Append(s, m) \in Seq(Messages) /\ Append(s, m) # <<>>
         /\ Len(s) \in Nat /\ Len(Append(s, m)) = Len(s) + 1
         /\ \A i \in 1 .. Len(s) : s[i] \in Messages /\ Append(s, m)[i] = s[i]
         /\ Append(s, m)[Len(s) + 1] = m
  OBVIOUS

LEMMA Delivering ==
  ASSUME NEW s \in Seq(Messages), s # <<>>
  PROVE  /\ Tail(s) \in Seq(Messages)
         /\ Len(s) \in Nat \ {0} /\ Len(Tail(s)) = Len(s) - 1
         /\ \A i \in 1 .. Len(s) : s[i] \in Messages
         /\ \A i \in 1 .. Len(Tail(s)) : Tail(s)[i] = s[i + 1]
         /\ Head(s) = s[1] /\ Head(s) \in Messages
  OBVIOUS

LEMMA StepTypes == Types /\ Asking /\ [Next]_vars => Types'
<1> SUFFICES ASSUME Types, Asking, [Next]_vars PROVE Types'
  OBVIOUS
<1> USE BoundAssumption DEF Types, Versions, Streams
<1> USE DEF storeVars, pageVars, wireVars, history
<1>0. CASE UNCHANGED vars
  BY <1>0 DEF vars
<1>1. CASE Backend
  <2>1. CASE DetectorSaves
    BY <2>1, SMTT(30) DEF DetectorSaves
  <2>2. CASE DetectorPublishes
    BY <2>2 DEF DetectorPublishes
  <2>3. CASE AggregatorStores
    BY <2>3 DEF AggregatorStores
  <2>4. CASE AggregatorPublishes
    BY <2>4 DEF AggregatorPublishes
  <2> QED
    BY <1>1, <2>1, <2>2, <2>3, <2>4 DEF Backend
<1>2. ASSUME NEW s \in Streams, Broadcast(s) PROVE Types'
  <2>1. sent[s] + 1 \in Versions /\ sent' \in [Streams -> Versions]
    BY <1>2, SMTT(30) DEF Broadcast
  <2>2. Message(s, sent[s] + 1) \in Messages
    BY <2>1 DEF Message, Messages
  <2>3. inbox' \in Seq(Messages)
    BY <1>2, <2>2, Sending DEF Broadcast
  <2>4. excused' \subseteq Streams
    BY <1>2 DEF Broadcast
  <2> QED
    BY <1>2, <2>1, <2>3, <2>4 DEF Broadcast
<1>3. ASSUME Disconnect
      PROVE  /\ connection' = "reconnecting" /\ groups' = {} /\ inbox' = <<>>
             /\ inbox' \in Seq(Messages) /\ excused' \subseteq Streams
  <2>1. \A i \in DOMAIN inbox : inbox[i] \in Messages
    OBVIOUS
  <2>2. \A m \in Messages : m.stream \in Streams
    BY DEF Messages
  <2>3. \A i \in DOMAIN inbox : inbox[i].stream \in Streams
    BY <2>1, <2>2
  <2>4. excused' \subseteq Streams
    BY <1>3, <2>3 DEF Disconnect
  <2>5. <<>> \in Seq(Messages)
    OBVIOUS
  <2> QED
    BY <1>3, <2>4, <2>5 DEF Disconnect
<1>4. CASE GatewayRestarts
  <2>1. sent' \in [Streams -> Versions]
    BY <1>4 DEF GatewayRestarts
  <2> QED
    BY <1>3, <1>4, <2>1 DEF GatewayRestarts
<1>5. CASE Open
  BY <1>5 DEF Open
<1>6. CASE Page
  <2>0. Wanted \in Streams
    BY DEF Wanted
  <2>1. CASE Read
    <3>1. Readable(Wanted) \subseteq Versions
      BY DEF Readable
    <3>2. excused' \subseteq Streams
      BY <2>0, <2>1 DEF Read
    <3> QED
      BY <2>1, <3>1, <3>2 DEF Read
  <2>2. CASE Loaded
    <3>1. answer \in Versions
      BY <2>2 DEF Loaded, Nothing
    <3> QED
      BY <2>2, <2>0, <3>1 DEF Loaded
  <2>3. CASE LoadFails
    BY <2>3 DEF LoadFails
  <2>4. CASE Start \/ StartFails \/ JoinFails
    BY <2>4 DEF Start, StartFails, JoinFails
  <2>5. CASE Join
    BY <2>5 DEF Join
  <2>6. CASE Reloaded
    <3>1. answer \in Versions
      BY <2>6 DEF Reloaded, Asking, Nothing
    <3> QED
      BY <2>6, <3>1 DEF Reloaded
  <2>7. CASE ReloadFails
    BY <2>7 DEF ReloadFails
  <2> QED
    BY <1>6, <2>1, <2>2, <2>3, <2>4, <2>5, <2>6, <2>7 DEF Page
<1>7. CASE Deliver
  <2>1. inbox' \in Seq(Messages) /\ Head(inbox) \in Messages
    BY <1>7, Delivering DEF Deliver
  <2>2. Head(inbox).stream \in Streams /\ Head(inbox).version \in Versions
    BY <2>1 DEF Messages
  <2> QED
    BY <1>7, <2>1, <2>2 DEF Deliver
<1>8. CASE ShowMore
  BY <1>8 DEF ShowMore
<1>9. CASE LoseConnection
  BY <1>3, <1>9 DEF LoseConnection
<1>10. CASE Reconnect
  BY <1>10 DEF Reconnect
<1> QED
  BY <1>0, <1>1, <1>2, <1>4, <1>5, <1>6, <1>7, <1>8, <1>9, <1>10 DEF Next

LEMMA StepInOrder == Types /\ InOrder /\ [Next]_vars => InOrder'
<1> SUFFICES ASSUME Types, InOrder, [Next]_vars PROVE InOrder'
  OBVIOUS
<1> USE BoundAssumption DEF Types, InOrder, Versions, Streams
<1> USE DEF storeVars, pageVars, wireVars, history
<1>0. CASE UNCHANGED vars
  BY <1>0 DEF vars
<1>1. CASE DetectorSaves
  BY <1>1 DEF DetectorSaves
<1>2. CASE DetectorPublishes
  BY <1>2 DEF DetectorPublishes
<1>3. CASE AggregatorStores
  BY <1>3 DEF AggregatorStores
<1>4. CASE AggregatorPublishes
  BY <1>4 DEF AggregatorPublishes
<1>5. ASSUME NEW s \in Streams, Broadcast(s) PROVE InOrder'
  BY <1>5 DEF Broadcast
<1>6. CASE GatewayRestarts
  <2>1. ASSUME NEW s \in Streams PROVE sent'[s] <= published[s]
    BY <1>6, SMTT(30) DEF GatewayRestarts
  <2> QED
    BY <1>6, <2>1 DEF GatewayRestarts
<1>7. CASE Open \/ Page \/ Deliver \/ ShowMore \/ LoseConnection \/ Reconnect
  <2> UNCHANGED <<storeVars, sent>>
    BY <1>7 DEF Open, Page, Read, Loaded, LoadFails, Start, StartFails, Join, JoinFails,
                Reloaded, ReloadFails, Deliver, ShowMore, LoseConnection, Reconnect
  <2> QED
    OBVIOUS
<1> QED
  BY <1>0, <1>1, <1>2, <1>3, <1>4, <1>5, <1>6, <1>7 DEF Next, Backend

\* Losing the connection empties the groups and what is under way.
LEMMA StepJoined == Types /\ Joined /\ [Next]_vars => Joined'
<1> SUFFICES ASSUME Types, Joined, [Next]_vars PROVE Joined'
  OBVIOUS
<1> USE DEF Joined, storeVars, pageVars, wireVars, history
<1>0. CASE UNCHANGED vars
  BY <1>0 DEF vars
<1>1. CASE Backend
  BY <1>1 DEF Backend, DetectorSaves, DetectorPublishes, AggregatorStores, AggregatorPublishes
<1>2. ASSUME NEW s \in Streams, Broadcast(s) PROVE Joined'
  BY <1>2 DEF Broadcast
<1>3. CASE GatewayRestarts \/ LoseConnection
  BY <1>3 DEF GatewayRestarts, LoseConnection, Disconnect
<1>4. CASE Open \/ Loaded \/ LoadFails
  BY <1>4 DEF Open, Loaded, Loading, LoadFails
<1>5. CASE Read \/ Reloaded \/ ShowMore
  BY <1>5 DEF Read, Reloaded, ShowMore
<1>6. CASE Start \/ StartFails \/ Join \/ JoinFails
  BY <1>6 DEF Start, StartFails, Join, JoinFails
<1>7. CASE ReloadFails \/ Reconnect
  BY <1>7 DEF ReloadFails, Reconnect
<1>8. CASE Deliver
  BY <1>8 DEF Deliver
<1> QED
  BY <1>0, <1>1, <1>2, <1>3, <1>4, <1>5, <1>6, <1>7, <1>8 DEF Next, Page

\* The button works on a page that is rendered, whose own loading is done.
LEMMA StepAsking == Types /\ Asking /\ [Next]_vars => Asking'
<1> SUFFICES ASSUME Types, Asking, [Next]_vars PROVE Asking'
  OBVIOUS
<1> USE DEF Asking, Rendered, Loading, storeVars, pageVars, wireVars, history
<1>0. CASE UNCHANGED vars
  BY <1>0 DEF vars
<1>1. CASE Backend \/ GatewayRestarts \/ LoseConnection \/ Reconnect \/ Deliver
  BY <1>1 DEF Backend, DetectorSaves, DetectorPublishes, AggregatorStores,
              AggregatorPublishes, GatewayRestarts, LoseConnection, Reconnect, Deliver
<1>2. ASSUME NEW s \in Streams, Broadcast(s) PROVE Asking'
  BY <1>2 DEF Broadcast
<1>3. CASE Read
  <2>1. Readable(Wanted) \subseteq Versions /\ Nothing \notin Versions
    BY BoundAssumption DEF Readable, Types, Versions, Streams, Nothing
  <2> QED
    BY <1>3, <2>1 DEF Read
<1>4. CASE Loaded \/ LoadFails
  BY <1>4 DEF Loaded, LoadFails
<1>5. CASE Open \/ Start \/ StartFails \/ Join \/ JoinFails
  BY <1>5 DEF Open, Start, StartFails, Join, JoinFails
<1>6. CASE ShowMore \/ Reloaded \/ ReloadFails
  BY <1>6 DEF ShowMore, Reloaded, ReloadFails
<1> QED
  BY <1>0, <1>1, <1>2, <1>3, <1>4, <1>5, <1>6 DEF Next, Page

LEMMA Nothings == Nothing \notin Versions /\ 0 \in Versions /\ Versions \subseteq Nat
  BY BoundAssumption DEF Nothing, Versions

\* Reloading touches only what a rendered page has loaded.
LEMMA StepLoadedFirst == Types /\ Joined /\ Asking /\ LoadedFirst /\ [Next]_vars => LoadedFirst'
<1> SUFFICES ASSUME Types, Joined, Asking, LoadedFirst, [Next]_vars PROVE LoadedFirst'
  OBVIOUS
<1> /\ Nothing \notin Versions /\ "article" \in Streams /\ "topic" \in Streams
    /\ shown \in [Streams -> Versions] /\ loaded \in [Streams -> Versions \cup {Nothing}]
    /\ kind \in Kinds /\ answer \in Versions \cup {Nothing}
  BY Nothings DEF Types, Streams
<1> USE DEF LoadedFirst, Rendered, storeVars, pageVars, wireVars, history
<1>0. CASE UNCHANGED vars
  BY <1>0 DEF vars
<1>1. CASE Backend \/ GatewayRestarts \/ LoseConnection \/ Reconnect \/ Read \/ ShowMore
  BY <1>1 DEF Backend, DetectorSaves, DetectorPublishes, AggregatorStores,
              AggregatorPublishes, GatewayRestarts, LoseConnection, Reconnect, Read, ShowMore
<1>2. ASSUME NEW s \in Streams, Broadcast(s) PROVE LoadedFirst'
  BY <1>2 DEF Broadcast
<1>3. CASE Loaded
  <2>1. answer # Nothing
    BY <1>3 DEF Loaded
  <2>2. Wanted = IF kind = "article" \/ pc = "list" THEN "article" ELSE "topic"
    BY <1>3 DEF Loaded, Wanted, Loading, Asking
  <2>3. pc' = "list" => loaded'["topic"] # Nothing
    BY <1>3, <2>1, <2>2 DEF Loaded, Loading
  <2>4. Rendered' => \A s \in Follows'[kind'] : loaded'[s] # Nothing
    BY <1>3, <2>1, <2>2 DEF Loaded, Loading, Follows, Streams, Kinds, Asking
  <2>5. \A s \in Streams : shown'[s] = loaded'[s] \/ shown'[s] = 0
    BY <1>3, <2>1, <2>2 DEF Loaded, Loading
  <2> QED
    BY <2>3, <2>4, <2>5
<1>4. CASE Open \/ LoadFails \/ Start \/ StartFails \/ Join \/ JoinFails
  BY <1>4 DEF Open, LoadFails, Start, StartFails, Join, JoinFails
<1>5. CASE Reloaded
  <2>1. answer # Nothing /\ pc # "list"
    BY <1>5 DEF Reloaded, Asking
  <2>2. \A s \in Streams : loaded[s] # Nothing => loaded'[s] # Nothing
    BY <1>5, <2>1 DEF Reloaded
  <2>3. \A s \in Streams : shown[s] = loaded[s] \/ shown[s] = 0 =>
                               shown'[s] = loaded'[s] \/ shown'[s] = 0
    BY <1>5 DEF Reloaded
  <2>4. Follows[kind] \subseteq Streams
    BY DEF Follows, Streams, Kinds
  <2> QED
    BY <1>5, <2>1, <2>2, <2>3, <2>4 DEF Reloaded
<1>6. CASE ReloadFails
  BY <1>6 DEF ReloadFails
<1>7. CASE Deliver
  BY <1>7 DEF Deliver, Joined
<1> QED
  BY <1>0, <1>1, <1>2, <1>3, <1>4, <1>5, <1>6, <1>7 DEF Next, Page

\* An update reaches the page if it is in its group and follows the stream.
LEMMA Routing ==
  ASSUME kind \in Kinds, groups \subseteq {GroupOf[kind]}, NEW s \in Streams
  PROVE  groups \cap Audience(s) # {} <=> groups # {} /\ s \in Follows[kind]
  BY DEF Kinds, GroupOf, Audience, Follows, Streams

\* What the gateway sends goes to the end of what is under way, or to nobody: in both
\* cases nothing under way is of a stream with a newer version elsewhere.
LEMMA StepUnderway == Types /\ Joined /\ Underway /\ [Next]_vars => Underway'
<1> SUFFICES ASSUME Types, Joined, Underway, [Next]_vars PROVE Underway'
  OBVIOUS
<1> /\ inbox \in Seq(Messages) /\ sent \in [Streams -> Versions] /\ kind \in Kinds
    /\ groups \subseteq {GroupOf[kind]}
    /\ \A m \in Messages : m.stream \in Streams /\ m.version \in Nat
  BY Nothings DEF Types, Messages
<1>0. CASE UNCHANGED <<inbox, sent, kind>>
  BY <1>0 DEF Underway
<1>1. CASE inbox' = <<>>
  BY <1>1 DEF Underway
<1>2. ASSUME NEW s \in Streams, Broadcast(s) PROVE Underway'
  <2>0. /\ kind' = kind /\ sent' = [sent EXCEPT ![s] = @ + 1]
        /\ sent[s] \in Nat /\ \A t \in Streams : sent[t] \in Nat
    BY <1>2, Nothings DEF Broadcast, pageVars
  <2>1. CASE groups \cap Audience(s) = {}
    <3>1. inbox' = inbox
      BY <1>2, <2>1 DEF Broadcast
    <3>2. \A i \in 1 .. Len(inbox) : inbox[i].stream # s
      BY <2>1, Routing, Sending DEF Underway, Joined
    <3>3. \A i \in 1 .. Len(inbox) : inbox[i].stream \in Streams
      BY Sending
    <3>4. \A i \in 1 .. Len(inbox) : sent'[inbox[i].stream] = sent[inbox[i].stream]
      BY <2>0, <3>2, <3>3
    <3> QED
      BY <2>0, <3>1, <3>4 DEF Underway
  <2>2. CASE groups \cap Audience(s) # {}
    <3> DEFINE m == Message(s, sent[s] + 1)
               n == Len(inbox)
    <3>1. inbox' = Append(inbox, m) /\ s \in Follows[kind]
      BY <1>2, <2>2, Routing DEF Broadcast
    <3>2. m.stream = s /\ m.version = sent[s] + 1
      BY DEF Message
    <3>3. /\ n \in Nat /\ Len(inbox') = n + 1 /\ inbox'[n + 1] = m
          /\ \A i \in 1 .. n : inbox'[i] = inbox[i] /\ inbox[i] \in Messages
      <4>1. sent[s] + 1 \in Versions
        BY <1>2, <2>0, BoundAssumption DEF Broadcast, Types, Versions
      <4>2. m \in Messages
        BY <4>1 DEF Message, Messages
      <4> QED
        BY <3>1, <4>2, Sending
    <3> HIDE DEF m, n
    <3>4. ASSUME NEW i \in 1 .. n, NEW x, x = inbox[i].stream
          PROVE  /\ x \in Streams /\ inbox[i].version \in Nat
                 /\ x # s => sent'[x] = sent[x]
                 /\ x = s => sent'[x] = sent[x] + 1
      BY <2>0, <3>3, <3>4
    <3>5. ASSUME NEW i \in 1 .. n
          PROVE  /\ inbox'[i].stream \in Follows[kind]
                 /\ inbox'[i].version <= sent'[inbox'[i].stream]
                 /\ inbox[i].stream = s => m.version > inbox[i].version
      <4>1. /\ inbox[i].stream \in Follows[kind]
            /\ inbox[i].version <= sent[inbox[i].stream]
        BY DEF Underway, n
      <4> QED
        BY <2>0, <3>2, <3>3, <3>4, <4>1
    <3>6. ASSUME NEW i \in 1 .. n
          PROVE  \/ inbox'[i].version = sent'[inbox'[i].stream]
                 \/ \E j \in i + 1 .. n + 1 : inbox'[j].stream = inbox'[i].stream
      <4>1. CASE inbox[i].stream = s
        BY <3>2, <3>3, <4>1
      <4>2. CASE inbox[i].stream # s
        <5>1. \/ inbox[i].version = sent[inbox[i].stream]
              \/ \E j \in i + 1 .. n : inbox[j].stream = inbox[i].stream
          BY DEF Underway, n
        <5> QED
          BY <3>3, <3>4, <4>2, <5>1
      <4> QED
        BY <4>1, <4>2
    <3>7. ASSUME NEW i \in 1 .. n, NEW j \in i + 1 .. n + 1, inbox'[j].stream = inbox'[i].stream
          PROVE  inbox'[j].version > inbox'[i].version
      <4>1. CASE j = n + 1
        BY <3>2, <3>3, <3>5, <3>7, <4>1
      <4>2. CASE j # n + 1
        <5>1. j \in 1 .. n /\ j \in i + 1 .. n
          BY <3>3, <4>2
        <5>2. inbox[j].stream = inbox[i].stream => inbox[j].version > inbox[i].version
          BY <5>1 DEF Underway, n
        <5> QED
          BY <3>3, <3>7, <5>1, <5>2
      <4> QED
        BY <4>1, <4>2
    <3>8. m.version = sent'[s] /\ m.version <= sent'[s]
      BY <2>0, <3>2
    <3> QED
      <4> SUFFICES ASSUME NEW i \in 1 .. n + 1
                   PROVE  /\ inbox'[i].stream \in Follows[kind]
                          /\ inbox'[i].version <= sent'[inbox'[i].stream]
                          /\ \/ inbox'[i].version = sent'[inbox'[i].stream]
                             \/ \E j \in i + 1 .. n + 1 : inbox'[j].stream = inbox'[i].stream
                          /\ \A j \in i + 1 .. n + 1 :
                               inbox'[j].stream = inbox'[i].stream =>
                                   inbox'[j].version > inbox'[i].version
        BY <2>0, <3>3 DEF Underway
      <4>1. CASE i = n + 1
        BY <3>1, <3>2, <3>3, <3>8, <4>1
      <4>2. CASE i # n + 1
        <5>1. i \in 1 .. n
          BY <3>3, <4>2
        <5> QED
          BY <3>5, <3>6, <3>7, <5>1
      <4> QED
        BY <4>1, <4>2
  <2> QED
    BY <2>1, <2>2
<1>3. CASE Deliver
  <2>1. inbox # <<>> /\ inbox' = Tail(inbox) /\ sent' = sent /\ kind' = kind
    BY <1>3 DEF Deliver
  <2>2. /\ Len(inbox) \in Nat \ {0} /\ Len(inbox') = Len(inbox) - 1
        /\ \A i \in 1 .. Len(inbox') : inbox'[i] = inbox[i + 1]
    BY <2>1, Delivering
  <2> SUFFICES ASSUME NEW i \in 1 .. Len(inbox')
               PROVE  /\ inbox'[i].stream \in Follows[kind]
                      /\ inbox'[i].version <= sent[inbox'[i].stream]
                      /\ \/ inbox'[i].version = sent[inbox'[i].stream]
                         \/ \E j \in i + 1 .. Len(inbox') : inbox'[j].stream = inbox'[i].stream
                      /\ \A j \in i + 1 .. Len(inbox') :
                           inbox'[j].stream = inbox'[i].stream =>
                               inbox'[j].version > inbox'[i].version
    BY <2>1 DEF Underway
  <2> DEFINE k == i + 1
  <2>3. k \in 1 .. Len(inbox) /\ inbox'[i] = inbox[k]
    BY <2>2
  <2>4. \A j \in i + 1 .. Len(inbox') : j + 1 \in k + 1 .. Len(inbox) /\ inbox'[j] = inbox[j + 1]
    BY <2>2
  <2>5. \A j \in k + 1 .. Len(inbox) :
           j - 1 \in i + 1 .. Len(inbox') /\ inbox'[j - 1] = inbox[j]
    BY <2>2
  <2> HIDE DEF k
  <2>6. /\ inbox[k].stream \in Follows[kind]
        /\ inbox[k].version <= sent[inbox[k].stream]
        /\ \/ inbox[k].version = sent[inbox[k].stream]
           \/ \E j \in k + 1 .. Len(inbox) : inbox[j].stream = inbox[k].stream
        /\ \A j \in k + 1 .. Len(inbox) :
              inbox[j].stream = inbox[k].stream => inbox[j].version > inbox[k].version
    BY <2>3 DEF Underway
  <2>7. (\E j \in k + 1 .. Len(inbox) : inbox[j].stream = inbox[k].stream) =>
            \E j \in i + 1 .. Len(inbox') : inbox'[j].stream = inbox'[i].stream
    BY <2>3, <2>5
  <2>8. ASSUME NEW j \in i + 1 .. Len(inbox'), inbox'[j].stream = inbox'[i].stream
        PROVE  inbox'[j].version > inbox'[i].version
    <3>1. j + 1 \in k + 1 .. Len(inbox) /\ inbox'[j] = inbox[j + 1]
      BY <2>4
    <3> QED
      BY <2>3, <2>6, <2>8, <3>1
  <2> QED
    BY <2>3, <2>6, <2>7, <2>8
<1> QED
  <2>1. ASSUME Disconnect PROVE inbox' = <<>>
    BY <2>1 DEF Disconnect
  <2>2. CASE UNCHANGED vars
    BY <1>0, <2>2 DEF vars, pageVars, wireVars
  <2>3. CASE Backend
    BY <1>0, <2>3 DEF Backend, DetectorSaves, DetectorPublishes, AggregatorStores,
              AggregatorPublishes, pageVars, wireVars
  <2>4. CASE GatewayRestarts
    <3>1. connection # "up" => inbox = <<>> /\ (connection # "up" => inbox' = inbox)
      BY <2>4 DEF GatewayRestarts, Joined, wireVars
    <3> QED
      BY <1>1, <2>1, <2>4, <3>1 DEF GatewayRestarts
  <2>5. CASE Open \/ ShowMore \/ Reconnect
    BY <1>0, <2>5 DEF Open, ShowMore, Reconnect, pageVars, wireVars
  <2>6. CASE LoseConnection
    BY <1>1, <2>1, <2>6 DEF LoseConnection
  <2>7. CASE ReloadFails
    BY <1>1, <2>7 DEF ReloadFails
  <2>8. CASE Page /\ ~ReloadFails
    BY <1>0, <2>8 DEF Page, Read, Loaded, LoadFails, Start, StartFails, Join, JoinFails,
                Reloaded, wireVars
  <2> QED
    BY <1>2, <1>3, <2>2, <2>3, <2>4, <2>5, <2>6, <2>7, <2>8 DEF Next

\* A message delivered was sent, and those after it are newer; a page that joins shows
\* what it has loaded, or nothing.
LEMMA StepForward ==
  Types /\ InOrder /\ Joined /\ LoadedFirst /\ Underway /\ Forward /\ [Next]_vars => Forward'
<1> SUFFICES ASSUME Types, InOrder, Joined, LoadedFirst, Underway, Forward, [Next]_vars
             PROVE  Forward'
  OBVIOUS
<1> SUFFICES ASSUME NEW t \in Streams
             PROVE  \/ shown'[t] = loaded'[t]
                    \/ groups' = {}
                    \/ /\ shown'[t] <= sent'[t]
                       /\ \A i \in 1 .. Len(inbox') :
                             inbox'[i].stream = t => inbox'[i].version > shown'[t]
  BY DEF Forward
<1>0. /\ inbox \in Seq(Messages) /\ sent \in [Streams -> Versions] /\ kind \in Kinds
      /\ shown \in [Streams -> Versions] /\ loaded \in [Streams -> Versions \cup {Nothing}]
      /\ shown[t] \in Nat /\ sent[t] \in Nat
  BY Nothings DEF Types
<1>1. CASE UNCHANGED <<inbox, sent, shown, loaded, groups>>
  BY <1>1 DEF Forward
<1>2. CASE groups' = {}
  BY <1>2
<1>3. ASSUME NEW s \in Streams, Broadcast(s)
      PROVE  \/ shown'[t] = loaded'[t]
             \/ groups' = {}
             \/ /\ shown'[t] <= sent'[t]
                /\ \A i \in 1 .. Len(inbox') :
                      inbox'[i].stream = t => inbox'[i].version > shown'[t]
  <2> DEFINE m == Message(s, sent[s] + 1)
  <2>1. /\ shown' = shown /\ loaded' = loaded /\ groups' = groups
        /\ sent' = [sent EXCEPT ![s] = @ + 1]
        /\ inbox' = inbox \/ inbox' = Append(inbox, m)
        /\ sent[s] + 1 \in Versions
    BY <1>3, BoundAssumption, SMTT(30) DEF Broadcast, pageVars, Types, Versions
  <2>2. m \in Messages /\ m.stream = s /\ m.version = sent[s] + 1
    BY <2>1 DEF Message, Messages
  <2> HIDE DEF m
  <2>3. sent[t] <= sent'[t]
    BY <1>0, <2>1
  <2> SUFFICES ASSUME shown[t] <= sent[t],
                      \A i \in 1 .. Len(inbox) : inbox[i].stream = t => inbox[i].version > shown[t]
               PROVE  \A i \in 1 .. Len(inbox') :
                         inbox'[i].stream = t => inbox'[i].version > shown[t]
    BY <1>0, <2>1, <2>3 DEF Forward
  <2>4. CASE inbox' = inbox
    BY <2>4
  <2>5. CASE inbox' = Append(inbox, m)
    <3> SUFFICES ASSUME NEW i \in 1 .. Len(inbox'), inbox'[i].stream = t
                 PROVE  inbox'[i].version > shown[t]
      OBVIOUS
    <3>1. /\ Len(inbox) \in Nat /\ Len(inbox') = Len(inbox) + 1
          /\ inbox'[Len(inbox) + 1] = m
          /\ \A k \in 1 .. Len(inbox) : inbox'[k] = inbox[k]
      BY <1>0, <2>2, <2>5, Sending
    <3>2. CASE i = Len(inbox) + 1
      BY <1>0, <2>2, <3>1, <3>2
    <3>3. CASE i \in 1 .. Len(inbox)
      BY <3>1, <3>3
    <3> QED
      BY <3>1, <3>2, <3>3
  <2> QED
    BY <2>1, <2>4, <2>5
<1>4. CASE Loaded \/ Reloaded
  <2>1. /\ UNCHANGED <<inbox, sent, groups>>
        /\ \E w \in Streams : /\ shown' = [shown EXCEPT ![w] = answer]
                              /\ loaded' = [loaded EXCEPT ![w] = answer]
    BY <1>4 DEF Loaded, Reloaded, Wanted, Streams, wireVars
  <2> QED
    BY <1>0, <2>1 DEF Forward
<1>5. CASE Join
  <2>1. groups = {} /\ inbox = <<>>
    BY <1>5 DEF Join, Joined
  <2>2. shown[t] = loaded[t] \/ shown[t] = 0
    BY <1>5 DEF Join, LoadedFirst
  <2> QED
    BY <1>0, <1>5, <2>1, <2>2 DEF Join, history
<1>6. CASE Deliver
  <2>1. /\ inbox # <<>> /\ inbox' = Tail(inbox) /\ UNCHANGED <<sent, groups, loaded>>
        /\ shown' = [shown EXCEPT ![Head(inbox).stream] = Head(inbox).version]
    BY <1>6 DEF Deliver
  <2>2. /\ Len(inbox) \in Nat \ {0} /\ Len(inbox') = Len(inbox) - 1
        /\ \A i \in 1 .. Len(inbox') : i + 1 \in 1 .. Len(inbox) /\ inbox'[i] = inbox[i + 1]
        /\ Head(inbox) = inbox[1] /\ inbox[1] \in Messages
    BY <1>0, <2>1, Delivering
  <2>3. CASE inbox[1].stream # t
    <3>1. shown'[t] = shown[t]
      BY <1>0, <2>1, <2>2, <2>3
    <3> QED
      BY <2>1, <2>2, <3>1 DEF Forward
  <2>4. CASE inbox[1].stream = t
    <3>1. shown'[t] = inbox[1].version
      BY <1>0, <2>1, <2>2, <2>4
    <3>2. 1 \in 1 .. Len(inbox)
      BY <2>2
    <3>3. /\ inbox[1].version <= sent[t]
          /\ \A j \in 2 .. Len(inbox) :
                inbox[j].stream = t => inbox[j].version > inbox[1].version
      BY <2>4, <3>2 DEF Underway
    <3>4. ASSUME NEW i \in 1 .. Len(inbox'), inbox'[i].stream = t
          PROVE  inbox'[i].version > inbox[1].version
      <4>1. i + 1 \in 2 .. Len(inbox) /\ inbox'[i] = inbox[i + 1]
        BY <2>2
      <4> QED
        BY <3>3, <3>4, <4>1
    <3> QED
      BY <2>1, <3>1, <3>3, <3>4
  <2> QED
    BY <2>3, <2>4
<1> QED
  <2>1. CASE UNCHANGED vars
    BY <1>1, <2>1 DEF vars, pageVars, wireVars, history
  <2>2. CASE Backend
    BY <1>1, <2>2 DEF Backend, DetectorSaves, DetectorPublishes, AggregatorStores,
              AggregatorPublishes, pageVars, wireVars, history
  <2>3. CASE GatewayRestarts \/ LoseConnection
    BY <1>2, <2>3 DEF GatewayRestarts, LoseConnection, Disconnect, Joined, wireVars
  <2>4. CASE Open \/ ShowMore \/ Reconnect
    BY <1>1, <2>4 DEF Open, ShowMore, Reconnect, pageVars, wireVars, history
  <2>5. CASE ReloadFails
    BY <1>2, <2>5 DEF ReloadFails
  <2>6. CASE Read \/ LoadFails \/ Start \/ StartFails \/ JoinFails
    BY <1>1, <2>6 DEF Read, LoadFails, Start, StartFails, JoinFails, wireVars, history
  <2> QED
    BY <1>3, <1>4, <1>5, <1>6, <2>1, <2>2, <2>3, <2>4, <2>5, <2>6 DEF Next, Page

\* A version passes the page by only where it is excused: everything else it is sent,
\* and the last message of a stream is the newest version that was sent.
LEMMA StepCurrent == IInv /\ [Next]_vars => Current'
<1> SUFFICES ASSUME IInv, [Next]_vars PROVE Current'
  OBVIOUS
<1> SUFFICES ASSUME pc' # "dead", NEW t \in Streams, t \in Follows[kind], t \notin excused',
                    Settled(t)'
             PROVE  Held(t)' >= sent'[t]
  <2> kind' = kind
    BY DEF Next, vars, Backend, DetectorSaves, DetectorPublishes, AggregatorStores,
           AggregatorPublishes, Broadcast, GatewayRestarts, Open, Page, Read, Loaded, LoadFails,
           Start, StartFails, Join, JoinFails, Reloaded, ReloadFails, Deliver, ShowMore,
           LoseConnection, Reconnect, pageVars
  <2> Follows[kind] \subseteq Streams
    BY DEF Follows, Streams, IInv, Types, Kinds
  <2> QED
    BY DEF Current
<1>0. /\ inbox \in Seq(Messages) /\ sent \in [Streams -> Versions] /\ kind \in Kinds
      /\ shown \in [Streams -> Versions] /\ loaded \in [Streams -> Versions \cup {Nothing}]
      /\ answer \in Versions \cup {Nothing} /\ groups \subseteq {GroupOf[kind]}
      /\ shown[t] \in Nat /\ sent[t] \in Nat /\ Nothing \notin Versions /\ Versions \subseteq Nat
  BY Nothings DEF IInv, Types
<1>c. pc # "dead" /\ t \notin excused /\ Settled(t) => Held(t) >= sent[t]
  BY DEF IInv, Current
<1>1. CASE /\ UNCHANGED <<inbox, sent, shown, loaded, answer, reload, excused, Wanted>>
           /\ pc # "dead"
  BY <1>c, <1>1 DEF Settled, Held, Answering
<1>2. ASSUME NEW s \in Streams, Broadcast(s) PROVE Held(t)' >= sent'[t]
  <2> DEFINE m == Message(s, sent[s] + 1)
  <2>1. /\ UNCHANGED <<shown, loaded, answer, reload, groups, kind, pc>>
        /\ sent' = [sent EXCEPT ![s] = @ + 1]
        /\ inbox' = IF groups \cap Audience(s) = {} THEN inbox ELSE Append(inbox, m)
        /\ excused' = IF Missed(s, sent[s] + 1) THEN excused \cup {s} ELSE excused
        /\ sent[s] + 1 \in Versions
    BY <1>0, <1>2, BoundAssumption DEF Broadcast, pageVars, IInv, Types, Versions
  <2>2. m \in Messages /\ m.stream = s
    BY <2>1 DEF Message, Messages
  <2> HIDE DEF m
  <2>3. Held(t)' = Held(t) /\ Answering(t)' = Answering(t)
    BY <2>1 DEF Held, Answering, Wanted
  <2>4. \A i \in 1 .. Len(inbox) : inbox[i].stream # t
    BY <1>0, <2>1, <2>2, Sending DEF Settled
  <2>5. Settled(t) /\ pc # "dead" /\ t \notin excused
    BY <2>1, <2>3, <2>4 DEF Settled
  <2>6. CASE t # s
    BY <1>c, <1>0, <2>1, <2>3, <2>5, <2>6
  <2>7. CASE t = s
    <3>1. groups = {}
      <4> SUFFICES ASSUME groups # {} PROVE FALSE
        OBVIOUS
      <4>1. inbox' = Append(inbox, m)
        BY <1>0, <2>1, <2>7, Routing
      <4>2. /\ Len(inbox) + 1 \in 1 .. Len(inbox')
            /\ inbox'[Len(inbox) + 1] = m
        BY <1>0, <2>2, <4>1, Sending
      <4> QED
        BY <2>2, <2>7, <4>2 DEF Settled
    <3>2. ~Missed(s, sent[s] + 1)
      BY <2>1, <2>7
    <3>3. ~(sent[s] + 1 > Held(s))
      BY <2>5, <2>7, <3>1, <3>2 DEF Missed, Held, Settled
    <3>4. Held(s) \in Int
      <4>1. answer \in Int /\ shown[s] \in Int
        BY <1>0, <2>7 DEF Nothing
      <4> QED
        BY <4>1 DEF Held
    <3> QED
      BY <1>0, <2>1, <2>3, <2>7, <3>3, <3>4
  <2> QED
    BY <2>6, <2>7
<1>3. ASSUME Disconnect, pc # "dead", UNCHANGED <<kind, pc, reload, answer, shown, loaded>>,
             sent'[t] \in Int, sent'[t] <= sent[t]
      PROVE  Held(t)' >= sent'[t]
  <2>1. \A i \in 1 .. Len(inbox) : inbox[i].stream \in excused'
    BY <1>0, <1>3 DEF Disconnect
  <2>2. t \notin excused
    BY <1>3 DEF Disconnect
  <2>3. Held(t)' = Held(t) /\ Answering(t)' = Answering(t)
    BY <1>3 DEF Held, Answering, Wanted
  <2>4. Settled(t)
    BY <1>3, <2>1, <2>3 DEF Settled
  <2>5. Held(t) \in Int
    BY <1>0 DEF Held, Nothing
  <2> QED
    BY <1>0, <1>3, <1>c, <2>2, <2>3, <2>4, <2>5
<1>4. CASE GatewayRestarts
  <2>1. sent'[t] \in Int /\ sent'[t] <= sent[t]
    <3>1. sent'[t] \in {sent[t], sent[t] - 1}
      BY <1>4 DEF GatewayRestarts
    <3> QED
      BY <1>0, <3>1
  <2>2. UNCHANGED <<kind, pc, reload, answer, shown, loaded>> /\ pc # "dead"
    BY <1>4 DEF GatewayRestarts, pageVars
  <2>3. CASE connection = "up"
    BY <1>3, <1>4, <2>1, <2>2, <2>3 DEF GatewayRestarts
  <2>4. CASE connection # "up"
    <3>1. UNCHANGED <<inbox, excused>>
      BY <1>4, <2>4 DEF GatewayRestarts, wireVars
    <3>2. Held(t)' = Held(t) /\ Settled(t)
      BY <2>2, <3>1 DEF Held, Answering, Wanted, Settled
    <3>3. Held(t) \in Int
      BY <1>0 DEF Held, Nothing
    <3> QED
      BY <1>0, <1>c, <2>1, <2>2, <3>1, <3>2, <3>3
  <2> QED
    BY <2>3, <2>4
<1>5. CASE LoseConnection
  BY <1>0, <1>3, <1>5 DEF LoseConnection, pageVars
<1>6. CASE Read
  <2>1. /\ Wanted' = Wanted /\ answer = Nothing /\ UNCHANGED <<sent, inbox, shown, loaded, pc>>
        /\ reload' = "no" => reload = "no"
        /\ excused' = IF answer' < sent[Wanted] THEN excused \cup {Wanted}
                      ELSE excused \ {Wanted}
    BY <1>6 DEF Read, Wanted, wireVars
  <2>2. answer' \in Versions
    BY <1>0, <1>6, StepTypes DEF Read, Readable, IInv, Types, Streams
  <2>3. CASE t = Wanted
    <3>1. ~(answer' < sent[t])
      BY <2>1, <2>3
    <3>2. Held(t)' = answer'
      BY <1>0, <2>1, <2>2, <2>3 DEF Held, Answering
    <3> QED
      BY <1>0, <2>1, <2>2, <3>1, <3>2
  <2>4. CASE t # Wanted
    <3>1. Held(t)' = Held(t) /\ Settled(t)
      BY <2>1, <2>4 DEF Held, Answering, Settled
    <3> QED
      BY <1>c, <2>1, <2>4, <3>1
  <2> QED
    BY <2>3, <2>4
<1>7. CASE Loaded
  <2>1. /\ answer # Nothing /\ answer' = Nothing /\ pc # "dead"
        /\ UNCHANGED <<sent, inbox, reload, excused>>
        /\ shown' = [shown EXCEPT ![Wanted] = answer]
        /\ loaded' = [loaded EXCEPT ![Wanted] = answer]
    BY <1>7 DEF Loaded, Loading, wireVars
  <2>2. Held(t)' = shown'[t] /\ ~Answering(t)'
    BY <2>1 DEF Held, Answering
  <2>3. CASE t = Wanted
    <3>1. Held(t) = answer /\ Settled(t)
      BY <2>1, <2>3 DEF Held, Answering, Settled
    <3> QED
      BY <1>0, <1>c, <2>1, <2>2, <2>3, <3>1
  <2>4. CASE t # Wanted
    <3>1. shown'[t] = shown[t] /\ loaded'[t] = loaded[t]
      BY <1>0, <2>1, <2>4
    <3>2. Held(t) = shown[t] /\ Settled(t)
      BY <2>1, <2>2, <2>4, <3>1 DEF Held, Answering, Settled
    <3> QED
      BY <1>c, <2>1, <2>2, <3>1, <3>2
  <2> QED
    BY <2>3, <2>4
<1>8. CASE Deliver
  <2>1. /\ inbox # <<>> /\ inbox' = Tail(inbox)
        /\ UNCHANGED <<sent, loaded, answer, reload, kind, pc>>
        /\ shown' = [shown EXCEPT ![Head(inbox).stream] = Head(inbox).version]
        /\ excused' = excused \ {Head(inbox).stream}
    BY <1>8 DEF Deliver
  <2>2. /\ Len(inbox) \in Nat \ {0} /\ Len(inbox') = Len(inbox) - 1
        /\ \A i \in 1 .. Len(inbox') : inbox'[i] = inbox[i + 1]
        /\ Head(inbox) = inbox[1] /\ inbox[1] \in Messages
    BY <1>0, <2>1, Delivering
  <2>3. Answering(t)' = Answering(t)
    BY <2>1 DEF Answering, Wanted
  <2>4. \A i \in 2 .. Len(inbox) : inbox[i].stream # t
    <3> SUFFICES ASSUME NEW i \in 2 .. Len(inbox) PROVE inbox[i].stream # t
      OBVIOUS
    <3>1. i - 1 \in 1 .. Len(inbox') /\ inbox'[i - 1] = inbox[i]
      BY <2>2
    <3> QED
      BY <3>1 DEF Settled
  <2>5. CASE inbox[1].stream = t
    <3>1. 1 \in 1 .. Len(inbox)
      BY <2>2
    <3>2. inbox[1].version = sent[t]
      BY <2>4, <2>5, <3>1 DEF IInv, Underway
    <3>3. shown'[t] = sent[t]
      BY <1>0, <2>1, <2>2, <2>5, <3>2
    <3>4. ~Answering(t)
      <4>1. pc = "live"
        BY <2>1 DEF IInv, Joined
      <4>2. answer # Nothing => reload = "answered"
        BY <4>1 DEF IInv, Asking, Loading
      <4>3. reload = "no" \/ t # "article"
        BY <2>1 DEF Settled
      <4> QED
        BY <4>2, <4>3 DEF Answering, Wanted
    <3> QED
      BY <1>0, <2>1, <2>3, <3>3, <3>4 DEF Held
  <2>6. CASE inbox[1].stream # t
    <3>1. shown'[t] = shown[t] /\ t \notin excused
      BY <1>0, <2>1, <2>2, <2>6
    <3>2. \A i \in 1 .. Len(inbox) : inbox[i].stream # t
      BY <2>2, <2>4, <2>6
    <3>3. Settled(t) /\ Held(t)' = Held(t)
      BY <2>1, <2>3, <3>1, <3>2 DEF Settled, Held
    <3> QED
      BY <1>c, <2>1, <3>1, <3>3
  <2> QED
    BY <2>5, <2>6
<1>9. CASE ShowMore
  <2>1. /\ reload = "no" /\ reload' = "asked" /\ answer = Nothing /\ pc # "dead"
        /\ UNCHANGED <<sent, inbox, shown, loaded, answer, excused>>
    BY <1>9 DEF ShowMore, Rendered, IInv, Asking, Loading, wireVars, history
  <2>2. Settled(t) /\ Held(t)' = Held(t)
    BY <2>1 DEF Settled, Held, Answering
  <2> QED
    BY <1>c, <2>1, <2>2
<1>10. CASE Reloaded
  <2>1. /\ reload = "answered" /\ answer # Nothing /\ answer' = Nothing /\ pc # "dead"
        /\ UNCHANGED <<sent, inbox>>
        /\ shown' = [shown EXCEPT !["article"] = answer]
        /\ loaded' = [loaded EXCEPT !["article"] = answer]
        /\ excused' = IF answer < sent["article"] THEN excused \cup {"article"} ELSE excused
    BY <1>10 DEF Reloaded, IInv, Asking, Rendered, wireVars
  <2>2. Held(t)' = shown'[t]
    BY <2>1 DEF Held, Answering
  <2>3. CASE t = "article"
    <3>1. ~(answer < sent[t]) /\ answer \in Nat
      BY <1>0, <2>1, <2>3
    <3>2. shown'[t] = answer
      BY <1>0, <2>1, <2>3
    <3> QED
      BY <1>0, <2>1, <2>2, <3>1, <3>2
  <2>4. CASE t # "article"
    <3>1. shown'[t] = shown[t] /\ loaded'[t] = loaded[t] /\ t \notin excused
      BY <1>0, <2>1, <2>4
    <3>2. Held(t) = shown[t] /\ Settled(t)
      BY <2>1, <2>4, <3>1 DEF Held, Answering, Settled, Wanted
    <3> QED
      BY <1>c, <2>1, <2>2, <3>1, <3>2
  <2> QED
    BY <2>3, <2>4
<1> QED
  <2>1. CASE UNCHANGED vars
    BY <1>1, <2>1 DEF vars, pageVars, wireVars, history, Wanted
  <2>2. CASE Backend
    BY <1>1, <2>2 DEF Backend, DetectorSaves, DetectorPublishes, AggregatorStores,
              AggregatorPublishes, pageVars, wireVars, history, Wanted
  <2>3. CASE Open
    BY <1>1, <2>3 DEF Open, wireVars, history, Wanted
  <2>4. CASE Reconnect
    BY <1>1, <2>4 DEF Reconnect, pageVars, history, Wanted
  <2>5. CASE LoadFails \/ ReloadFails
    BY <2>5 DEF LoadFails, ReloadFails
  <2>6. CASE Start \/ StartFails \/ Join \/ JoinFails
    BY <1>1, <2>6 DEF Start, StartFails, Join, JoinFails, wireVars, history, Wanted
  <2> QED
    BY <1>2, <1>4, <1>5, <1>6, <1>7, <1>8, <1>9, <1>10, <2>1, <2>2, <2>3, <2>4, <2>5, <2>6
       DEF Next, Page

LEMMA InitIInv == Init => IInv
<1> SUFFICES ASSUME Init PROVE IInv
  OBVIOUS
<1> USE DEF Init
<1>1. Types
  <2>1. 0 \in Versions /\ <<>> \in Seq(Messages)
    BY Nothings
  <2> QED
    BY <2>1 DEF Types
<1>2. InOrder
  BY DEF InOrder, Streams
<1>3. Joined /\ Asking /\ LoadedFirst
  BY DEF Joined, Asking, LoadedFirst, Rendered, Loading, Streams
<1>4. Underway /\ Forward
  BY DEF Underway, Forward
<1>5. Current
  <2> Follows[kind] \subseteq Streams
    BY DEF Follows, Streams, Kinds
  <2> QED
    BY DEF Current, Settled, Answering
<1> QED
  BY <1>1, <1>2, <1>3, <1>4, <1>5 DEF IInv

\* At every moment what is under way to a page is in order, and the page holds the
\* newest version of what it follows, expects it, or is excused.
THEOREM Inductive == Spec => []IInv
<1>1. Init => IInv
  BY InitIInv
<1>2. IInv /\ [Next]_vars => IInv'
  BY StepTypes, StepInOrder, StepJoined, StepAsking, StepLoadedFirst, StepUnderway,
     StepForward, StepCurrent DEF IInv
<1> QED
  BY <1>1, <1>2, PTL DEF Spec

\* The stores, the gateway and the page stay within their types, only a live connection
\* is in a group, and nothing is broadcast before it was saved.
THEOREM TypeCorrect == Spec => []TypeOK
<1>1. IInv => TypeOK
  BY DEF IInv, Types, InOrder, Joined, TypeOK
<1> QED
  BY <1>1, Inductive, PTL

\* However updates, reads, the join and lost connections interleave, a page at rest
\* shows the newest version broadcast of what it follows, unless one passed it by in
\* one of the four ways that excuse it.
THEOREM CurrentPages == Spec => []CurrentUnlessExcused
<1>1. IInv => CurrentUnlessExcused
  <2> SUFFICES ASSUME IInv, pc \in {"live", "offline"}, inbox = <<>>, reload = "no",
                      NEW s \in Follows[kind] \ excused
               PROVE  shown[s] >= sent[s]
    BY DEF CurrentUnlessExcused
  <2>1. loaded[s] # Nothing
    BY DEF IInv, LoadedFirst, Rendered
  <2>2. ~Answering(s)
    BY DEF IInv, Asking, Loading, Answering
  <2> QED
    BY <2>1, <2>2 DEF IInv, Current, Settled, Held
<1> QED
  BY <1>1, Inductive, PTL

\* A message never takes a page back behind another message: where what it shows gets
\* older, the page had loaded it over REST.
THEOREM ForwardOnly == Spec => MessagesGoForward
<1>1. ASSUME IInv, [Next]_vars, NEW s \in Streams,
             inbox # <<>>, inbox' = Tail(inbox), shown'[s] < shown[s]
      PROVE  shown[s] = loaded[s]
  <2>1. /\ inbox \in Seq(Messages) /\ Tail(inbox) # inbox
        /\ Len(inbox) \in Nat \ {0} /\ Len(inbox') = Len(inbox) - 1
        /\ Head(inbox) = inbox[1] /\ inbox[1] \in Messages /\ 1 \in 1 .. Len(inbox)
    BY <1>1, Delivering DEF IInv, Types
  <2>2. groups # {} /\ pc = "live"
    BY <1>1 DEF IInv, Joined
  <2>3. /\ shown \in [Streams -> Versions] /\ shown[s] \in Nat
        /\ inbox[1].stream \in Streams /\ inbox[1].version \in Nat
    <3>1. \A m \in Messages : m.stream \in Streams /\ m.version \in Nat
      BY Nothings DEF Messages
    <3>2. shown \in [Streams -> Versions]
      BY <1>1 DEF IInv, Types
    <3> QED
      BY <2>1, <3>1, <3>2, Nothings
  <2>4. CASE Deliver
    <3>1. /\ inbox[1].stream = s
          /\ shown'[s] = inbox[1].version
      <4>1. shown' = [shown EXCEPT ![inbox[1].stream] = inbox[1].version]
        BY <2>1, <2>4 DEF Deliver
      <4>2. ~(shown[s] < shown[s])
        BY <2>3
      <4>3. inbox[1].stream = s
        BY <1>1, <2>3, <4>1, <4>2
      <4> QED
        BY <2>3, <4>1, <4>3
    <3>2. ~(inbox[1].version > shown[s])
      BY <1>1, <2>3, <3>1
    <3> QED
      BY <1>1, <2>1, <2>2, <3>1, <3>2 DEF IInv, Forward
  <2>5. CASE shown' = shown
    BY <1>1, <2>3, <2>5
  <2>6. CASE Loaded \/ Reloaded
    BY <1>1, <2>1, <2>6 DEF Loaded, Reloaded, wireVars
  <2> QED
    <3>1. Deliver \/ Loaded \/ Reloaded \/ shown' = shown
      BY <1>1 DEF Next, vars, Backend, DetectorSaves, DetectorPublishes, AggregatorStores,
           AggregatorPublishes, Broadcast, GatewayRestarts, Open, Page, Read, LoadFails,
           Start, StartFails, Join, JoinFails, ReloadFails, ShowMore,
           LoseConnection, Reconnect, pageVars
    <3> QED
      BY <2>4, <2>5, <2>6, <3>1
<1>2. IInv /\ [Next]_vars =>
         [\A s \in Streams :
             inbox # <<>> /\ inbox' = Tail(inbox) /\ shown'[s] < shown[s] =>
                 shown[s] = loaded[s]]_vars
  BY <1>1
<1> QED
  BY <1>2, Inductive, PTL DEF MessagesGoForward, Spec
=============================================================================
