------------------------------- MODULE DDSCore -------------------------------
(***************************************************************************)
(* DDSCore (core/dds_core.cpp) on every node of the bus, joined by UDP:    *)
(* publishing, the two levels of de-duplication, local delivery and        *)
(* retained messages, ACKs and retransmission, lost, duplicated and        *)
(* reordered datagrams, and the restart of a process.                      *)
(*                                                                         *)
(* The acknowledgement manager appears as RetryTable promises it, without  *)
(* its clock: any keys may be due at a tick.  A node's view of its peers   *)
(* (DiscoveryManager) is arbitrary at each publication.                    *)
(***************************************************************************)
EXTENDS Integers, Sequences, FiniteSets, SequencesExt

CONSTANTS
    Nodes,
    Topics,
    Publishers,     \* the nodes that publish
    Restarters,     \* the nodes whose process may be restarted
    Qos,            \* the kinds of publication: a subset of QosKinds
    MaxRetries,     \* qos.reliable.max_retries
    DedupCap,       \* qos.dedup_capacity
    RetainLast,     \* qos.retain_last
    MaxId,          \* bound: message ids a process uses
    MaxRuns,        \* bound: processes a node is, one after the other
    MaxSubscribed,  \* bound: node -> subscriptions of its process to a topic
    MaxLost,        \* bound: datagrams lost
    MaxDuplicated   \* bound: datagrams duplicated

QosKinds == {"reliable", "best_effort"}

ASSUME NodesAssumption ==
    Publishers \subseteq Nodes /\ Restarters \subseteq Nodes /\ Qos \subseteq QosKinds
ASSUME SettingsAssumption ==
    MaxRetries \in Nat /\ DedupCap \in Nat \ {0} /\ RetainLast \in BOOLEAN
ASSUME BoundsAssumption ==
    /\ MaxId \in Nat /\ MaxRuns \in Nat /\ MaxLost \in Nat /\ MaxDuplicated \in Nat
    /\ MaxSubscribed \in [Nodes -> Nat]

VARIABLES
    next_msg_id,    \* id of a node's next publication
    pending,        \* AckManager: <<id, receiver>> -> [msg, retries_left]
    perTopicDedup,  \* topic -> ids received on it
    seenMessages,   \* BoundedLRU of dedup keys, oldest first
    subs,           \* topic -> the callback registered on it, by its number
    lastMsg,        \* topic -> last message published or delivered here
    last_by_topic,  \* topic -> last own publication, when RetainLast
    net,            \* datagrams in flight
    run,            \* which of a node's processes is running
    calls,          \* history: what the callbacks of a process were given, in order
    subscribed,     \* history: topic -> callbacks a process has subscribed to it
    accepted,       \* history: dedup keys a process accepted, in order
    receipts,       \* history: [node, msg, kept]: what became of a datagram
    outcome,        \* history: [node, msg, receiver, as] of settled messages
    lost, duplicated

coreVars == <<next_msg_id, pending, perTopicDedup, seenMessages, subs,
              lastMsg, last_by_topic>>
history  == <<calls, subscribed, accepted, receipts, outcome>>
faults   == <<run, lost, duplicated>>
vars     == <<coreVars, net, history, faults>>

(***************************************************************************)
(* A message; its payload is known by the process that published it.       *)
(***************************************************************************)
Message == [pub: Nodes, run: Nat, mid: Nat, topic: Topics, qos: QosKinds]

DataPacket == [type: {"data"}, msg: Message, to: Nodes, copy: Nat, dup: BOOLEAN]
AckPacket  == [type: {"ack"}, mid: Nat, receiver: Nodes, to: Nodes, copy: Nat,
               dup: BOOLEAN]

(***************************************************************************)
(* A call: which of the callbacks on the topic of msg is called, and what  *)
(* it finds under "qos" and "message_id" beside the payload of msg.  The   *)
(* callbacks on a topic are numbered in the order of their subscriptions.  *)
(***************************************************************************)
Call == [callback: Nat, msg: Message, qos: QosKinds, message_id: Nat]

\* Transmission number copy of a message to one receiver.
Data(m, r, copy) ==
    [type |-> "data", msg |-> m, to |-> r, copy |-> copy, dup |-> FALSE]

\* The ACK carries the id and who received it, and nothing of the publisher.
Ack(m, r, copy) ==
    [type |-> "ack", mid |-> m.mid, receiver |-> r, to |-> m.pub, copy |-> copy,
     dup |-> FALSE]

Put(f, x, v) == [y \in DOMAIN f \cup {x} |-> IF y = x THEN v ELSE f[y]]
Empty == <<>>

Init ==
    /\ next_msg_id = [n \in Nodes |-> 1]
    /\ pending = [n \in Nodes |-> Empty]
    /\ perTopicDedup = [n \in Nodes |-> [t \in Topics |-> {}]]
    /\ seenMessages = [n \in Nodes |-> <<>>]
    /\ subs = [n \in Nodes |-> Empty]
    /\ lastMsg = [n \in Nodes |-> Empty]
    /\ last_by_topic = [n \in Nodes |-> Empty]
    /\ net = {}
    /\ run = [n \in Nodes |-> 1]
    /\ calls = [n \in Nodes |-> <<>>]
    /\ subscribed = [n \in Nodes |-> [t \in Topics |-> 0]]
    /\ accepted = [n \in Nodes |-> <<>>]
    /\ receipts = {}
    /\ outcome = {}
    /\ lost = 0
    /\ duplicated = 0

-----------------------------------------------------------------------------
(***************************************************************************)
(* publishInternal and sendMessage.  A reliable message goes to the peers  *)
(* that discovery lists for the topic with a data port, each tracked after *)
(* its packet was sent; with no such peer it is dropped with a warning.  A *)
(* best-effort message is broadcast to the configured port: whoever could  *)
(* bind that port hears it, the sender's own socket too.                   *)
(***************************************************************************)
SendReliable(n, m) ==
    \E destPeers \in SUBSET (Nodes \ {n}) :
        /\ net' = net \cup {Data(m, r, 0) : r \in destPeers}
        /\ pending' = [pending EXCEPT ![n] =
               [k \in DOMAIN @ \cup {<<m.mid, r>> : r \in destPeers} |->
                   IF k \in DOMAIN @ THEN @[k]
                     ELSE [msg |-> m, retries_left |-> MaxRetries]]]

Broadcast(m) ==
    /\ \E heard \in SUBSET Nodes : net' = net \cup {Data(m, r, 0) : r \in heard}
    /\ UNCHANGED pending

Publish(n, t, q) ==
    LET m == [pub |-> n, run |-> run[n], mid |-> next_msg_id[n], topic |-> t, qos |-> q]
    IN  /\ next_msg_id[n] <= MaxId
        /\ next_msg_id' = [next_msg_id EXCEPT ![n] = @ + 1]
        /\ IF q = "reliable" THEN SendReliable(n, m) ELSE Broadcast(m)
        /\ lastMsg' = [lastMsg EXCEPT ![n] = Put(@, t, m)]
        /\ last_by_topic' = IF RetainLast
                              THEN [last_by_topic EXCEPT ![n] = Put(@, t, m)]
                              ELSE last_by_topic
        /\ UNCHANGED <<perTopicDedup, seenMessages, subs, history, faults>>

(***************************************************************************)
(* makeSubscriber: the callback takes the place of an earlier one on the   *)
(* topic.  The last message on the topic is replayed to it, as best effort *)
(* and without an id whatever the message was (so lastMsg need not keep    *)
(* the two, which no one else reads); then, with retain_last, the last own *)
(* publication is delivered as if it had arrived now.                      *)
(***************************************************************************)
\* deliverToLocal hands over the qos and the id of the message.
Delivered(cb, m) == [callback |-> cb, msg |-> m, qos |-> m.qos, message_id |-> m.mid]

Replayed(n, t, cb) ==
    IF t \in DOMAIN lastMsg[n]
      THEN <<[callback |-> cb, msg |-> lastMsg[n][t], qos |-> "best_effort", message_id |-> 0]>>
      ELSE <<>>

RetainedLast(n, t, cb) ==
    IF RetainLast /\ t \in DOMAIN last_by_topic[n]
      THEN <<Delivered(cb, last_by_topic[n][t])>> ELSE <<>>

\* Fault: the first callback on a topic stays the registered one.
RegisteredFirst(n, t, cb) == IF t \in DOMAIN subs[n] THEN subs[n] ELSE Put(subs[n], t, cb)

Registered(n, t, cb) == Put(subs[n], t, cb)

MakeSubscriber(n, t) ==
    LET cb == subscribed[n][t] + 1
        retained == RetainedLast(n, t, Registered(n, t, cb)[t])
    IN  /\ subscribed[n][t] < MaxSubscribed[n]
        /\ subscribed' = [subscribed EXCEPT ![n][t] = cb]
        /\ subs' = [subs EXCEPT ![n] = Registered(n, t, cb)]
        /\ calls' = [calls EXCEPT ![n] = @ \o Replayed(n, t, cb) \o retained]
        /\ lastMsg' = IF retained # <<>>
                        THEN [lastMsg EXCEPT ![n] = Put(@, t, last_by_topic[n][t])]
                        ELSE lastMsg
        /\ UNCHANGED <<next_msg_id, pending, perTopicDedup, seenMessages, last_by_topic,
                       net, accepted, receipts, outcome, faults>>

-----------------------------------------------------------------------------
(***************************************************************************)
(* onDatagram, a Data packet.  Each action is one of the ways the handler  *)
(* returns.                                                                *)
(***************************************************************************)
DedupKey(m) == <<m.pub, m.topic, m.mid>>

\* Fault: the set is never trimmed.
RememberedForEver(ids, mid) == {ids \cup {mid}}

\* The id joins the topic's set, which then drops any one element when over
\* its capacity: QSet::begin() follows no order.
Remembered(ids, mid) ==
    LET all == ids \cup {mid}
    IN  IF Cardinality(all) > DedupCap THEN {all \ {x} : x \in all} ELSE {all}

\* Fault: a full buffer refuses the new key.
LRUInsertRefused(order, key) ==
    IF Len(order) >= DedupCap THEN order ELSE Append(order, key)

\* BoundedLRU::insert of a key that is not contained.
LRUInsert(order, key) ==
    Append(IF Len(order) >= DedupCap THEN Tail(order) ELSE order, key)

OwnMessage(d) == d.msg.pub = d.to

\* Fault: an id below one already received is taken for a duplicate.
TopicOutOfOrder(d) ==
    \E i \in perTopicDedup[d.to][d.msg.topic] : d.msg.mid <= i

TopicDuplicate(d) == d.msg.mid \in perTopicDedup[d.to][d.msg.topic]
SeenDuplicate(d) == DedupKey(d.msg) \in ToSet(seenMessages[d.to])

Arrives(d) == d \in net /\ d.type = "data"

Receipt(d, kept) == [node |-> d.to, msg |-> d.msg, kept |-> kept]

IgnoreOwn(d) ==
    /\ Arrives(d) /\ OwnMessage(d)
    /\ net' = net \ {d}
    /\ UNCHANGED <<coreVars, history, faults>>

DropTopicDuplicate(d) ==
    /\ Arrives(d) /\ ~OwnMessage(d) /\ TopicDuplicate(d)
    /\ net' = net \ {d}
    /\ receipts' = receipts \cup {Receipt(d, FALSE)}
    /\ UNCHANGED <<coreVars, calls, subscribed, accepted, outcome, faults>>

RememberId(d) ==
    \E ids \in Remembered(perTopicDedup[d.to][d.msg.topic], d.msg.mid) :
        perTopicDedup' = [perTopicDedup EXCEPT ![d.to][d.msg.topic] = ids]

DropSeenDuplicate(d) ==
    /\ Arrives(d) /\ ~OwnMessage(d) /\ ~TopicDuplicate(d) /\ SeenDuplicate(d)
    /\ RememberId(d)
    /\ net' = net \ {d}
    /\ receipts' = receipts \cup {Receipt(d, FALSE)}
    /\ UNCHANGED <<next_msg_id, pending, seenMessages, subs, lastMsg, last_by_topic,
                   calls, subscribed, accepted, outcome, faults>>

DeliverToLocal(n, m) ==
    /\ calls' = IF m.topic \in DOMAIN subs[n]
                  THEN [calls EXCEPT ![n] = Append(@, Delivered(subs[n][m.topic], m))]
                  ELSE calls
    /\ lastMsg' = [lastMsg EXCEPT ![n] = Put(@, m.topic, m)]

AckIfReliable(d) ==
    IF d.msg.qos = "reliable" THEN {Ack(d.msg, d.to, d.copy)} ELSE {}

Accept(d) ==
    /\ Arrives(d) /\ ~OwnMessage(d) /\ ~TopicDuplicate(d) /\ ~SeenDuplicate(d)
    /\ RememberId(d)
    /\ seenMessages' = [seenMessages EXCEPT ![d.to] = LRUInsert(@, DedupKey(d.msg))]
    /\ accepted' = [accepted EXCEPT ![d.to] = Append(@, DedupKey(d.msg))]
    /\ DeliverToLocal(d.to, d.msg)
    /\ net' = (net \ {d}) \cup AckIfReliable(d)
    /\ receipts' = receipts \cup {Receipt(d, TRUE)}
    /\ UNCHANGED <<next_msg_id, pending, subs, last_by_topic, subscribed, outcome, faults>>

(***************************************************************************)
(* onDatagram, an Ack packet: AckManager::ackReceived, which knows a       *)
(* message by its id and the receiver's name only.                         *)
(***************************************************************************)
Settle(n, ks, as) ==
    {[node |-> n, msg |-> pending[n][k].msg, receiver |-> k[2], as |-> as] : k \in ks}

\* Fault: an ACK confirms every earlier id too.
ConfirmedUpTo(d) ==
    {k \in DOMAIN pending[d.to] : k[1] <= d.mid /\ k[2] = d.receiver}

Confirmed(d) == DOMAIN pending[d.to] \cap {<<d.mid, d.receiver>>}

ReceiveAck(d) ==
    /\ d \in net /\ d.type = "ack"
    /\ net' = net \ {d}
    /\ pending' = [pending EXCEPT ![d.to] = [k \in DOMAIN @ \ Confirmed(d) |-> @[k]]]
    /\ outcome' = outcome \cup Settle(d.to, Confirmed(d), "acked")
    /\ UNCHANGED <<next_msg_id, perTopicDedup, seenMessages, subs, lastMsg,
                   last_by_topic, calls, subscribed, accepted, receipts, faults>>

(***************************************************************************)
(* AckManager::onTick with its signals: resend reaches resendPacket, which *)
(* sends the same packet again; failed only logs.                          *)
(***************************************************************************)
Resend(n, k) ==
    Data(pending[n][k].msg, k[2], MaxRetries - pending[n][k].retries_left + 1)

\* Fault: the last retransmission is not made.
HasBudgetLessOne(n, k) == pending[n][k].retries_left > 1

HasBudget(n, k) == pending[n][k].retries_left > 0

\* Fault: what was given up stays in the table.
AfterTickKeepsSpent(n, again, spent) ==
    [k \in DOMAIN pending[n] |->
        IF k \in again THEN [pending[n][k] EXCEPT !.retries_left = @ - 1]
                       ELSE pending[n][k]]

AfterTick(n, again, spent) ==
    [k \in DOMAIN pending[n] \ spent |->
        IF k \in again THEN [pending[n][k] EXCEPT !.retries_left = @ - 1]
                       ELSE pending[n][k]]

OnTick(n) ==
    \E due \in SUBSET DOMAIN pending[n] \ {{}} :
        LET again == {k \in due : HasBudget(n, k)}
            spent == due \ again
        IN  /\ net' = net \cup {Resend(n, k) : k \in again}
            /\ pending' = [pending EXCEPT ![n] = AfterTick(n, again, spent)]
            /\ outcome' = outcome \cup Settle(n, spent, "failed")
            /\ UNCHANGED <<next_msg_id, perTopicDedup, seenMessages, subs, lastMsg,
                           last_by_topic, calls, subscribed, accepted, receipts, faults>>

-----------------------------------------------------------------------------
(***************************************************************************)
(* The network and the processes.  A restarted node keeps its node_id and  *)
(* its port, so what was in flight still reaches it; everything else of a  *)
(* process is in memory.                                                   *)
(***************************************************************************)
Lose(d) ==
    /\ d \in net /\ lost < MaxLost
    /\ net' = net \ {d}
    /\ lost' = lost + 1
    /\ UNCHANGED <<coreVars, history, run, duplicated>>

Duplicate(d) ==
    /\ d \in net /\ ~d.dup /\ duplicated < MaxDuplicated
    /\ net' = net \cup {[d EXCEPT !.dup = TRUE]}
    /\ duplicated' = duplicated + 1
    /\ UNCHANGED <<coreVars, history, run, lost>>

Restart(n) ==
    /\ n \in Restarters /\ run[n] < MaxRuns
    /\ run' = [run EXCEPT ![n] = @ + 1]
    /\ next_msg_id' = [next_msg_id EXCEPT ![n] = 1]
    /\ pending' = [pending EXCEPT ![n] = Empty]
    /\ perTopicDedup' = [perTopicDedup EXCEPT ![n] = [t \in Topics |-> {}]]
    /\ seenMessages' = [seenMessages EXCEPT ![n] = <<>>]
    /\ subs' = [subs EXCEPT ![n] = Empty]
    /\ lastMsg' = [lastMsg EXCEPT ![n] = Empty]
    /\ last_by_topic' = [last_by_topic EXCEPT ![n] = Empty]
    /\ calls' = [calls EXCEPT ![n] = <<>>]
    /\ subscribed' = [subscribed EXCEPT ![n] = [t \in Topics |-> 0]]
    /\ accepted' = [accepted EXCEPT ![n] = <<>>]
    /\ UNCHANGED <<net, receipts, outcome, lost, duplicated>>

OnDatagram(d) ==
    \/ IgnoreOwn(d)
    \/ DropTopicDuplicate(d)
    \/ DropSeenDuplicate(d)
    \/ Accept(d)
    \/ ReceiveAck(d)

Next ==
    \/ \E n \in Publishers, t \in Topics, q \in Qos : Publish(n, t, q)
    \/ \E n \in Nodes, t \in Topics : MakeSubscriber(n, t)
    \/ \E d \in net : OnDatagram(d) \/ Lose(d) \/ Duplicate(d)
    \/ \E n \in Nodes : OnTick(n) \/ Restart(n)

(***************************************************************************)
(* A process that runs serves its socket and its timer; publishing,        *)
(* subscribing, faults and restarts may or may not happen.                 *)
(***************************************************************************)
Fairness ==
    \A n \in Nodes :
        /\ WF_vars(OnTick(n))
        /\ WF_vars(\E d \in net : d.to = n /\ OnDatagram(d))

Spec == Init /\ [][Next]_vars /\ Fairness

-----------------------------------------------------------------------------
\* PROPERTIES

Kept(n, m) == [node |-> n, msg |-> m, kept |-> TRUE] \in receipts

Tracked == [msg: Message, retries_left: 0 .. MaxRetries]

(***************************************************************************)
(* Types; a tracked message is one of its own process, under its own id.   *)
(***************************************************************************)
TypeOK ==
    /\ next_msg_id \in [Nodes -> Nat]
    /\ \A n \in Nodes :
          /\ DOMAIN pending[n] \subseteq Nat \X Nodes
          /\ \A k \in DOMAIN pending[n] :
                /\ pending[n][k] \in Tracked
                /\ pending[n][k].msg.pub = n
                /\ pending[n][k].msg.mid = k[1]
          /\ Len(seenMessages[n]) <= DedupCap
          /\ DOMAIN subs[n] \subseteq Topics
          /\ \A t \in DOMAIN lastMsg[n] : lastMsg[n][t] \in Message /\ lastMsg[n][t].topic = t
          /\ \A t \in DOMAIN last_by_topic[n] : last_by_topic[n][t].pub = n
          /\ \A t \in Topics : Cardinality(perTopicDedup[n][t]) <= DedupCap
    /\ calls \in [Nodes -> Seq(Call)]
    /\ net \subseteq DataPacket \cup AckPacket
    /\ run \in [Nodes -> Nat]

(***************************************************************************)
(* What the publisher takes for acknowledged, the receiver did accept: an  *)
(* ACK names its message by id only, and crosses retransmissions,          *)
(* duplicates and restarts of the receiver.                                *)
(***************************************************************************)
AckSound ==
    \A o \in outcome : o.as = "acked" => Kept(o.receiver, o.msg)

(***************************************************************************)
(* A message is acknowledged or given up by its publisher, never both,     *)
(* although an ACK may come while or after the last attempt times out.     *)
(***************************************************************************)
SettledOnce ==
    \A o, p \in outcome :
        o.msg = p.msg /\ o.receiver = p.receiver => o.as = p.as

(***************************************************************************)
(* De-duplication has a window: a process that accepts a message again has *)
(* accepted at least dedup_capacity others since.                          *)
(***************************************************************************)
DedupWindow ==
    \A n \in Nodes : \A i, j \in DOMAIN accepted[n] :
        i < j /\ accepted[n][i] = accepted[n][j] => j - i > DedupCap

(***************************************************************************)
(* De-duplication drops nothing but duplicates: what a node dropped, it    *)
(* has accepted before.                                                    *)
(***************************************************************************)
OnlyDuplicatesDropped ==
    \A x \in receipts : x.kept \/ Kept(x.node, x.msg)

(***************************************************************************)
(* "ACK ... is sent by receiver when qos == reliable": each of the         *)
(* max_retries + 1 transmissions of a message that arrives is answered.    *)
(* So a message that its receiver accepted, and of which nothing is on the *)
(* way any more, is given up only when each transmission was lost or had   *)
(* its answer lost.                                                        *)
(***************************************************************************)
OnItsWay(m, r) ==
    \E d \in net : \/ d.type = "data" /\ d.msg = m /\ d.to = r
                   \/ d.type = "ack" /\ d.mid = m.mid /\ d.to = m.pub /\ d.receiver = r

GivenUpWhenAllLost ==
    [][\A o \in outcome' \ outcome :
          o.as = "failed" /\ Kept(o.receiver, o.msg) /\ ~OnItsWay(o.msg, o.receiver)
              => lost > MaxRetries]_vars

(***************************************************************************)
(* What the table of a running process has for one receiver, as RetryTable *)
(* sees it: a key is pending while it is in the table; afterwards the      *)
(* history says how this process settled it.                               *)
(***************************************************************************)
KeysFor(r) == (1 .. MaxId) \X {r}

SettledAs(n, k, as) ==
    \E o \in outcome : /\ o.node = n /\ o.msg.run = run[n] /\ o.msg.mid = k[1]
                       /\ o.receiver = k[2] /\ o.as = as

FateOf(n, k) ==
    IF k \in DOMAIN pending[n] THEN "pending"
    ELSE IF SettledAs(n, k, "acked") THEN "acked"
    ELSE IF SettledAs(n, k, "failed") THEN "failed"
    ELSE "untracked"

LeftOf(n, k) == IF k \in DOMAIN pending[n] THEN pending[n][k].retries_left ELSE 0

Table(n, r) == INSTANCE RetryTable WITH
    Keys    <- KeysFor(r),
    Budgets <- {MaxRetries},
    fate    <- [k \in KeysFor(r) |-> FateOf(n, k)],
    left    <- [k \in KeysFor(r) |-> LeftOf(n, k)]

(***************************************************************************)
(* The core uses its table as AckManager implements it: for each receiver, *)
(* every step of publishing, receiving ACKs and ticking is one of          *)
(* RetryTable, also when one handler changes the entries of several        *)
(* receivers; a process that starts again begins with an empty table.      *)
(***************************************************************************)
TablesAsPromised ==
    [][\A n \in Publishers, r \in Nodes :
          IF run'[n] = run[n]
            THEN Table(n, r)!Next \/ UNCHANGED Table(n, r)!vars
            ELSE Table(n, r)!Init']_vars

(***************************************************************************)
(* A subscriber on a node that only listens is never behind: the last call *)
(* on its topic was of the callback that subscribed last, with the payload *)
(* of the last message that arrived, also when it subscribed after that    *)
(* message came, or after another subscriber.                              *)
(***************************************************************************)
ListenerUpToDate ==
    \A n \in Nodes \ Publishers : \A t \in DOMAIN lastMsg[n] :
        subscribed[n][t] > 0 =>
            \E i \in DOMAIN calls[n] :
                /\ calls[n][i].callback = subscribed[n][t]
                /\ calls[n][i].msg = lastMsg[n][t]
                /\ \A j \in DOMAIN calls[n] : j > i => calls[n][j].msg.topic # t

(***************************************************************************)
(* "remember the most recent message per topic and deliver it to a         *)
(* newly-added local subscriber": what a new subscriber is left with is    *)
(* the most recent message the node knew on the topic.                     *)
(***************************************************************************)
RetainedIsMostRecent ==
    [][\A n \in Nodes : \A t \in (DOMAIN subs'[n] \ DOMAIN subs[n]) \cap DOMAIN lastMsg[n] :
            Last(calls'[n]).msg = lastMsg[n][t]]_vars

(***************************************************************************)
(* When the network loses at most max_retries datagrams, every receiver a  *)
(* reliable message is tracked for accepts it in the end.                  *)
(***************************************************************************)
EventuallyAccepted ==
    \A n \in Publishers, r \in Nodes, i \in 1 .. MaxId :
        <<i, r>> \in DOMAIN pending[n] ~>
            \E x \in receipts : /\ x.node = r /\ x.kept
                                /\ x.msg.pub = n /\ x.msg.mid = i

=============================================================================
