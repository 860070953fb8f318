------------------------------ MODULE Realtime ------------------------------
(***************************************************************************)
(* How an update reaches an open page of ThreeRevertWatch.Frontend: the    *)
(* two broadcast workers of ThreeRevertWatch.Gateway, the groups of        *)
(* Hubs/ConflictsHub.cs, Services/ConflictRealtimeClient.cs, and the pages *)
(* Home, TopicDetail and ArticleDetail, which load over REST first, then   *)
(* connect, then join a group.                                             *)
(*                                                                         *)
(* The stores are reduced to versions of one article of one topic: version *)
(* n of the article is the n-th snapshot the detector saved, version n of  *)
(* the topic is the one computed after the n-th article update.  How the   *)
(* aggregator fails half-way is the subject of ReadModel; here it stores   *)
(* row, topic and copies at once.  A page shares nothing with other pages, *)
(* so there is one, of any kind.                                           *)
(***************************************************************************)
EXTENDS Integers, Sequences

CONSTANTS
    MaxUpdates,     \* bound: snapshots of the article
    MaxFaults,      \* bound: failed calls, lost connections, gateway restarts
    MaxReloads      \* bound: clicks on "Show more"

ASSUME BoundAssumption == {MaxUpdates, MaxFaults, MaxReloads} \subseteq Nat

Kinds == {"home", "topic", "article"}
Streams == {"topic", "article"}

VARIABLES
    saved,          \* detector: snapshots it has saved
    row,            \* Postgres: version in article_conflict_snapshots
    stored,         \* aggregator: version of its topic, and of its article in Redis
    published,      \* the two update topics: updates published, by stream
    sent,           \* gateway: updates broadcast, by stream
    kind, pc,       \* page: its component, and where it stands
    connection,     \* page: its hub connection
    groups,         \* gateway: groups the connection is in
    inbox,          \* messages on their way to the page
    answer,         \* answer of the REST call in progress, or Nothing
    reload,         \* "Show more": "no", "asked", or "answered"
    reloads,
    shown,          \* page: version it shows, by stream
    loaded,         \* history: version of the last answer the page took, by stream
    excused,        \* history: streams of which a newer version passed it by
    faults

storeVars == <<saved, row, stored, published>>
pageVars == <<kind, pc, reload, reloads, answer, shown>>
wireVars == <<connection, groups, inbox>>
history == <<loaded, excused>>
vars == <<storeVars, sent, pageVars, wireVars, history, faults>>

Nothing == -1

Follows == [home |-> {"topic"}, topic |-> Streams, article |-> {"article"}]
GroupOf == [home |-> "conflict-topics", topic |-> "conflict-topic",
            article |-> "conflict-article"]

Init ==
    /\ saved = 0 /\ row = 0 /\ stored = 0
    /\ published = [s \in Streams |-> 0] /\ sent = published
    /\ kind \in Kinds /\ pc = "closed"
    /\ connection = "none" /\ groups = {} /\ inbox = <<>>
    /\ answer = Nothing /\ reload = "no" /\ reloads = 0
    /\ shown = [s \in Streams |-> 0]
    /\ loaded = [s \in Streams |-> Nothing] /\ excused = {}
    /\ faults = 0

Fault == faults < MaxFaults /\ faults' = faults + 1

---------------------------------------------------------------------------
(* Detector and aggregator: each saves before it publishes.                *)

DetectorSaves ==
    /\ saved = published["article"] /\ saved < MaxUpdates
    /\ saved' = saved + 1 /\ row' = saved + 1
    /\ UNCHANGED <<stored, published, sent, pageVars, wireVars, history, faults>>

DetectorPublishes ==
    /\ published["article"] < saved
    /\ published' = [published EXCEPT !["article"] = saved]
    /\ UNCHANGED <<saved, row, stored, sent, pageVars, wireVars, history, faults>>

\* The aggregator writes the snapshot of the update over the row.
AggregatorStores ==
    /\ stored = published["topic"] /\ stored < published["article"]
    /\ stored' = stored + 1 /\ row' = stored + 1
    /\ UNCHANGED <<saved, published, sent, pageVars, wireVars, history, faults>>

AggregatorPublishes ==
    /\ published["topic"] < stored
    /\ published' = [published EXCEPT !["topic"] = stored]
    /\ UNCHANGED <<saved, row, stored, sent, pageVars, wireVars, history, faults>>

---------------------------------------------------------------------------
(* Gateway.                                                                *)

\* Mutant: the article worker forgets the group of the topic.
AudienceOfOwnPages(s) ==
    IF s = "topic" THEN {"conflict-topics", "conflict-topic"} ELSE {"conflict-article"}

\* The groups a worker sends an update to.
Audience(s) ==
    {"conflict-topic"} \cup (IF s = "topic" THEN {"conflict-topics"} ELSE {"conflict-article"})

Message(s, v) == [stream |-> s, version |-> v]

\* What the page asks for: TopicDetail loads its articles after the topic, and
\* again for "Show more".
Wanted == IF kind = "article" \/ pc = "list" \/ reload # "no" THEN "article" ELSE "topic"

\* An answer with this stream is on its way to the page.
Answering(s) == answer # Nothing /\ Wanted = s

\* A newer version than the page holds, or is about to, was sent while it was in no group.
Missed(s, v) ==
    /\ groups = {} /\ (Answering(s) \/ loaded[s] # Nothing)
    /\ v > IF Answering(s) THEN answer ELSE shown[s]

\* Mutant: the handler does not await the send.
BroadcastUnordered(s) ==
    /\ sent[s] < published[s]
    /\ sent' = [sent EXCEPT ![s] = @ + 1]
    /\ inbox' \in IF groups \cap Audience(s) = {} THEN {inbox}
                  ELSE {Append(inbox, Message(s, sent[s] + 1)),
                        <<Message(s, sent[s] + 1)>> \o inbox}
    /\ excused' = IF Missed(s, sent[s] + 1) THEN excused \cup {s} ELSE excused
    /\ UNCHANGED <<storeVars, pageVars, connection, groups, loaded, faults>>

\* A connection delivers what is sent to it in order.
Broadcast(s) ==
    /\ sent[s] < published[s]
    /\ sent' = [sent EXCEPT ![s] = @ + 1]
    /\ inbox' = IF groups \cap Audience(s) = {} THEN inbox
                ELSE Append(inbox, Message(s, sent[s] + 1))
    /\ excused' = IF Missed(s, sent[s] + 1) THEN excused \cup {s} ELSE excused
    /\ UNCHANGED <<storeVars, pageVars, connection, groups, loaded, faults>>

\* Mutant: group membership outlives the connection.
DisconnectKeepingGroups ==
    /\ connection' = "reconnecting"
    /\ inbox' = <<>>
    /\ excused' = excused \cup {inbox[i].stream : i \in DOMAIN inbox}
    /\ UNCHANGED groups

\* Groups belong to the connection id: they end with it, and so does what was
\* on its way.
Disconnect ==
    /\ connection' = "reconnecting"
    /\ groups' = {} /\ inbox' = <<>>
    /\ excused' = excused \cup {inbox[i].stream : i \in DOMAIN inbox}

\* A worker that had not committed its last update broadcasts it again.
GatewayRestarts ==
    /\ Fault
    /\ sent' \in {to \in [Streams -> 0 .. MaxUpdates] :
                    \A s \in Streams : to[s] \in {sent[s], sent[s] - 1}}
    /\ IF connection = "up" THEN Disconnect ELSE UNCHANGED <<wireVars, excused>>
    /\ UNCHANGED <<storeVars, pageVars, loaded>>

---------------------------------------------------------------------------
(* The page: OnInitializedAsync or OnParametersSetAsync.                   *)

Open ==
    /\ pc = "closed"
    /\ pc' = "load"
    /\ UNCHANGED <<storeVars, sent, kind, reload, reloads, answer, shown, wireVars,
                   history, faults>>

\* The topic comes from the aggregator; the list from the rows; an article from
\* Redis or, when it has expired there, from its row.
Readable(s) ==
    IF s = "topic" THEN {stored}
    ELSE IF kind = "topic" THEN {row}
    ELSE {row} \cup (IF stored > 0 THEN {stored} ELSE {})

Loading == pc \in {"load", "list"}

\* The server answers; the answer is still on its way.
Read ==
    /\ Loading \/ reload = "asked"
    /\ answer = Nothing
    /\ answer' \in Readable(Wanted)
    /\ excused' = IF answer' < sent[Wanted] THEN excused \cup {Wanted}
                  ELSE excused \ {Wanted}
    /\ reload' = IF reload = "asked" THEN "answered" ELSE reload
    /\ UNCHANGED <<storeVars, sent, kind, pc, reloads, shown, loaded, wireVars, faults>>

\* 404 for a topic or an article without a snapshot: GetFromJsonAsync throws.
NotFound == answer = 0 /\ pc = "load" /\ kind # "home"

Loaded ==
    /\ Loading /\ answer # Nothing /\ ~NotFound
    /\ shown' = [shown EXCEPT ![Wanted] = answer]
    /\ loaded' = [loaded EXCEPT ![Wanted] = answer]
    /\ answer' = Nothing
    /\ pc' = IF pc = "load" /\ kind = "topic" THEN "list" ELSE "connect"
    /\ UNCHANGED <<storeVars, sent, kind, reload, reloads, wireVars, excused, faults>>

\* Home catches and says that the gateway is unavailable; on the other pages the
\* exception ends the circuit.  Either way the page gets no further.
LoadFails ==
    /\ Loading
    /\ \/ NotFound /\ UNCHANGED faults
       \/ Fault
    /\ pc' = "dead" /\ answer' = Nothing
    /\ UNCHANGED <<storeVars, sent, kind, reload, reloads, shown, wireVars, history>>

Start ==
    /\ pc = "connect"
    /\ connection' = "up" /\ pc' = "join"
    /\ UNCHANGED <<storeVars, sent, kind, reload, reloads, answer, shown, groups, inbox,
                   history, faults>>

\* StartAsync throws: the page stays as it was loaded.
StartFails ==
    /\ pc = "connect"
    /\ Fault
    /\ connection' = "failed" /\ pc' = "offline"
    /\ UNCHANGED <<storeVars, sent, kind, reload, reloads, answer, shown, groups, inbox,
                   history>>

\* Mutant: JoinArticle and JoinTopic add to the group of all topics.
JoinTopicsOnly ==
    /\ pc = "join" /\ connection = "up"
    /\ groups' = {"conflict-topics"} /\ pc' = "live"
    /\ UNCHANGED <<storeVars, sent, kind, reload, reloads, answer, shown, connection, inbox,
                   history, faults>>

Join ==
    /\ pc = "join" /\ connection = "up"
    /\ groups' = {GroupOf[kind]} /\ pc' = "live"
    /\ UNCHANGED <<storeVars, sent, kind, reload, reloads, answer, shown, connection, inbox,
                   history, faults>>

\* InvokeAsync on a connection that is not up throws.
JoinFails ==
    /\ pc = "join" /\ connection \in {"reconnecting", "closed"}
    /\ pc' = "offline"
    /\ UNCHANGED <<storeVars, sent, kind, reload, reloads, answer, shown, wireVars,
                   history, faults>>

---------------------------------------------------------------------------
(* The page: callbacks.                                                    *)

Deliver ==
    /\ inbox # <<>>
    /\ shown' = [shown EXCEPT ![Head(inbox).stream] = Head(inbox).version]
    /\ excused' = excused \ {Head(inbox).stream}
    /\ inbox' = Tail(inbox)
    /\ UNCHANGED <<storeVars, sent, kind, pc, reload, reloads, answer, connection, groups,
                   loaded, faults>>

Rendered == pc \in {"connect", "join", "live", "offline"}

\* The button is disabled while a list is being loaded.
ShowMore ==
    /\ kind = "topic" /\ Rendered /\ reload = "no"
    /\ reloads < MaxReloads
    /\ reloads' = reloads + 1 /\ reload' = "asked"
    /\ UNCHANGED <<storeVars, sent, kind, pc, answer, shown, wireVars, history, faults>>

\* The answer replaces the list, whatever was delivered since it was read.
Reloaded ==
    /\ reload = "answered"
    /\ shown' = [shown EXCEPT !["article"] = answer]
    /\ loaded' = [loaded EXCEPT !["article"] = answer]
    /\ excused' = IF answer < sent["article"] THEN excused \cup {"article"} ELSE excused
    /\ answer' = Nothing /\ reload' = "no"
    /\ UNCHANGED <<storeVars, sent, kind, pc, reloads, wireVars, faults>>

\* The exception leaves the click handler and ends the circuit.
ReloadFails ==
    /\ reload # "no"
    /\ Fault
    /\ pc' = "dead" /\ reload' = "no" /\ answer' = Nothing
    /\ connection' = "closed" /\ groups' = {} /\ inbox' = <<>>
    /\ UNCHANGED <<storeVars, sent, kind, reloads, shown, history>>

LoseConnection ==
    /\ connection = "up"
    /\ Fault
    /\ Disconnect
    /\ UNCHANGED <<storeVars, sent, pageVars, loaded>>

\* WithAutomaticReconnect: a new connection in no group, or none after the last
\* attempt.  Nothing joins again.
Reconnect ==
    /\ connection = "reconnecting"
    /\ connection' \in {"up", "closed"}
    /\ UNCHANGED <<storeVars, sent, pageVars, groups, inbox, history, faults>>

Backend == DetectorSaves \/ DetectorPublishes \/ AggregatorStores \/ AggregatorPublishes

Page ==
    \/ Read \/ Loaded \/ LoadFails
    \/ Start \/ StartFails \/ Join \/ JoinFails
    \/ Reloaded \/ ReloadFails

Next ==
    \/ Backend
    \/ \E s \in Streams : Broadcast(s)
    \/ GatewayRestarts
    \/ Open \/ Page \/ Deliver \/ ShowMore
    \/ LoseConnection \/ Reconnect

Spec == Init /\ [][Next]_vars

\* Calls end, workers go on, messages arrive and the client retries.
Fairness ==
    /\ WF_vars(Page)
    /\ WF_vars(Deliver)
    /\ WF_vars(Reconnect)
    /\ \A s \in Streams : WF_vars(Broadcast(s))

FairSpec == Spec /\ Fairness

---------------------------------------------------------------------------
(* Properties.                                                             *)

Versions == 0 .. MaxUpdates

\* Types; a group is held by a live connection only, and messages are under way
\* only to a member; nothing is broadcast before it was saved.
TypeOK ==
    /\ row \in Versions /\ shown \in [Streams -> Versions]
    /\ answer \in Versions \cup {Nothing} /\ loaded \in [Streams -> Versions \cup {Nothing}]
    /\ groups \subseteq {GroupOf[kind]}
    /\ groups # {} => connection = "up" /\ pc \in {"live", "offline"}
    /\ inbox # <<>> => groups # {}
    /\ published["topic"] <= stored /\ stored <= published["article"]
    /\ published["article"] <= saved
    /\ \A s \in Streams : sent[s] <= published[s]

\* A page with nothing under way shows at least the newest version that was
\* broadcast, unless a version passed it by: its read was behind the broadcast,
\* the broadcast came between its read and its join or after its connection was
\* lost, or the answer to "Show more" overtook it.  One more update that reaches
\* the page, or a reload, makes it current again.
CurrentUnlessExcused ==
    pc \in {"live", "offline"} /\ inbox = <<>> /\ reload = "no" =>
        \A s \in Follows[kind] \ excused : shown[s] >= sent[s]

\* A message takes the page back only behind what it had loaded over REST: of what
\* it was sent, every version is newer than the one before.
MessagesGoForward ==
    [][\A s \in Streams :
        inbox # <<>> /\ inbox' = Tail(inbox) /\ shown'[s] < shown[s] =>
            shown[s] = loaded[s]]_vars

\* As long as its connection holds, a member is shown every update to come, or a
\* newer one.
MembersCatchUp ==
    \A s \in Streams, v \in 1 .. MaxUpdates :
        (s \in Follows[kind] /\ groups # {} /\ sent[s] < v /\ published[s] >= v)
            ~> (shown[s] >= v \/ groups = {})
=============================================================================
