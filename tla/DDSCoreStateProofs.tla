------------------------- MODULE DDSCoreStateProofs -------------------------
(***************************************************************************)
(* Theorems about what a process of DDSCore keeps: the types of its state, *)
(* and what its subscribers were given last.                               *)
(***************************************************************************)
EXTENDS DDSCoreDedupProofs, FiniteSetTheorems

(***************************************************************************)
(* The messages kept for subscribers.  Only a node that publishes retains  *)
(* messages of its own.                                                    *)
(***************************************************************************)
OfTopics(f) == \A t \in DOMAIN f : f[t] \in Message /\ f[t].topic = t

\* A topic has the callback that subscribed to it last, if any did.
SubsOK(registered, many) ==
    /\ DOMAIN registered = {t \in Topics : many[t] > 0}
    /\ \A t \in DOMAIN registered : registered[t] = many[t]

LocalTypes ==
    /\ DOMAIN lastMsg = Nodes /\ DOMAIN last_by_topic = Nodes
    /\ DOMAIN subs = Nodes
    /\ subscribed \in [Nodes -> [Topics -> Nat]]
    /\ calls \in [Nodes -> Seq(Call)]
    /\ \A n \in Nodes :
          /\ SubsOK(subs[n], subscribed[n])
          /\ OfTopics(lastMsg[n]) /\ OfTopics(last_by_topic[n])
          /\ \A t \in DOMAIN last_by_topic[n] : last_by_topic[n][t].pub = n

OwnMessagesRetained ==
    \A n \in Nodes \ Publishers : DOMAIN last_by_topic[n] = {}

LEMMA PutOfTopics ==
    ASSUME NEW f, OfTopics(f), NEW m \in Message, NEW t, m.topic = t
    PROVE  OfTopics(Put(f, t, m))
<1> DEFINE g == Put(f, t, m)
<1>1. /\ DOMAIN g = DOMAIN f \cup {t} /\ g[t] = m
      /\ \A u \in DOMAIN f : u # t => g[u] = f[u]
    BY DEF Put
<1> HIDE DEF g
<1>2. ASSUME NEW u \in DOMAIN g PROVE g[u] \in Message /\ g[u].topic = u
    <2>1. CASE u = t
        BY <1>1, <2>1
    <2>2. CASE u # t
        BY <1>1, <2>2 DEF OfTopics
    <2> QED BY <2>1, <2>2
<1>3. OfTopics(g)
    BY <1>2 DEF OfTopics
<1> QED BY <1>3 DEF g

LEMMA PutOfNode ==
    ASSUME NEW f, NEW n, \A u \in DOMAIN f : f[u].pub = n, NEW m, NEW t, m.pub = n
    PROVE  \A u \in DOMAIN Put(f, t, m) : Put(f, t, m)[u].pub = n
<1>1. /\ DOMAIN Put(f, t, m) = DOMAIN f \cup {t} /\ Put(f, t, m)[t] = m
      /\ \A u \in DOMAIN f : u # t => Put(f, t, m)[u] = f[u]
    BY DEF Put
<1> QED BY <1>1

LEMMA LocalSteps ==
    ASSUME [Next]_vars
    PROVE  \/ UNCHANGED <<lastMsg, last_by_topic, subs, calls, subscribed>>
           \/ \E n \in Publishers, t \in Topics, q \in Qos : Publish(n, t, q)
           \/ \E n \in Nodes, t \in Topics : MakeSubscriber(n, t)
           \/ \E d \in net : Accept(d)
           \/ \E n \in Nodes : Restart(n)
<1> USE DEF coreVars, history
<1>1. ASSUME NEW d \in net, \/ IgnoreOwn(d) \/ DropTopicDuplicate(d) \/ DropSeenDuplicate(d)
                            \/ ReceiveAck(d) \/ Lose(d) \/ Duplicate(d)
      PROVE  UNCHANGED <<lastMsg, last_by_topic, subs, calls, subscribed>>
    BY <1>1 DEF IgnoreOwn, DropTopicDuplicate, DropSeenDuplicate, ReceiveAck, Lose, Duplicate
<1>2. ASSUME NEW n \in Nodes, OnTick(n)
      PROVE  UNCHANGED <<lastMsg, last_by_topic, subs, calls, subscribed>>
    BY <1>2 DEF OnTick
<1>3. CASE UNCHANGED vars
    BY <1>3 DEF vars
<1> QED BY <1>1, <1>2, <1>3 DEF Next, OnDatagram

LEMMA LocalInit == Init => LocalTypes /\ OwnMessagesRetained
BY DEF Init, LocalTypes, OfTopics, SubsOK, OwnMessagesRetained, Empty

LEMMA ReplayTypes ==
    ASSUME NEW n \in Nodes, NEW t, NEW cb \in Nat,
           OfTopics(lastMsg[n]), OfTopics(last_by_topic[n])
    PROVE  Replayed(n, t, cb) \in Seq(Call) /\ RetainedLast(n, t, cb) \in Seq(Call)
<1>1. ASSUME NEW m \in Message
      PROVE  /\ Delivered(cb, m) \in Call
             /\ [callback |-> cb, msg |-> m, qos |-> "best_effort", message_id |-> 0] \in Call
    BY DEF Delivered, Call, Message, QosKinds
<1>2. (\A call \in Call : <<call>> \in Seq(Call)) /\ <<>> \in Seq(Call)
    OBVIOUS
<1>3. Replayed(n, t, cb) \in Seq(Call)
    <2>1. CASE t \in DOMAIN lastMsg[n]
        <3>1. lastMsg[n][t] \in Message
            BY <2>1 DEF OfTopics
        <3> QED BY <1>1, <1>2, <2>1, <3>1 DEF Replayed
    <2> QED BY <1>2, <2>1 DEF Replayed
<1>4. RetainedLast(n, t, cb) \in Seq(Call)
    <2>1. CASE t \in DOMAIN last_by_topic[n]
        <3>1. last_by_topic[n][t] \in Message
            BY <2>1 DEF OfTopics
        <3> QED BY <1>1, <1>2, <2>1, <3>1 DEF RetainedLast
    <2> QED BY <1>2, <2>1 DEF RetainedLast
<1> QED BY <1>3, <1>4

LEMMA LocalNext ==
    ASSUME Types, LocalTypes, OwnMessagesRetained, [Next]_vars
    PROVE  LocalTypes' /\ OwnMessagesRetained'
<1> DEFINE LastOK(n) == OfTopics(lastMsg[n])
           OwnOK(n)  == /\ OfTopics(last_by_topic[n])
                        /\ \A t \in DOMAIN last_by_topic[n] : last_by_topic[n][t].pub = n
<1>0. \A n \in Nodes : LastOK(n) /\ OwnOK(n)
    BY DEF LocalTypes
<1>1. ASSUME NEW n \in Publishers, NEW t \in Topics, NEW q \in Qos, Publish(n, t, q)
      PROVE  LocalTypes' /\ OwnMessagesRetained'
    <2> DEFINE m == [pub |-> n, run |-> run[n], mid |-> next_msg_id[n],
                     topic |-> t, qos |-> q]
    <2>1. m \in Message /\ n \in Nodes /\ m.pub = n /\ m.topic = t
        BY NodesAssumption DEF Types, Message
    <2>2. /\ lastMsg' = [lastMsg EXCEPT ![n] = Put(@, t, m)]
          /\ \/ last_by_topic' = [last_by_topic EXCEPT ![n] = Put(@, t, m)]
             \/ last_by_topic' = last_by_topic
          /\ UNCHANGED <<subs, calls, subscribed>>
        BY <1>1 DEF Publish, history
    <2> HIDE DEF m
    <2>3. DOMAIN lastMsg' = Nodes /\ DOMAIN last_by_topic' = Nodes
        BY <2>2 DEF LocalTypes
    <2>4. \A o \in Nodes : LastOK(o)'
        <3>1. lastMsg'[n] = Put(lastMsg[n], t, m)
            BY <2>1, <2>2 DEF LocalTypes
        <3>2. LastOK(n)'
            <4>1. OfTopics(Put(lastMsg[n], t, m))
                BY <1>0, <2>1, PutOfTopics
            <4> QED BY <3>1, <4>1
        <3>3. \A o \in Nodes \ {n} : lastMsg'[o] = lastMsg[o]
            BY <2>2 DEF LocalTypes
        <3> QED BY <1>0, <3>2, <3>3
    <2>5. \A o \in Nodes \ {n} : last_by_topic'[o] = last_by_topic[o]
        BY <2>2 DEF LocalTypes
    <2>6. last_by_topic'[n] = Put(last_by_topic[n], t, m) \/ last_by_topic'[n] = last_by_topic[n]
        BY <2>1, <2>2 DEF LocalTypes
    <2>7. OwnOK(n)'
        <3>1. OfTopics(Put(last_by_topic[n], t, m))
            BY <1>0, <2>1, PutOfTopics
        <3>2. \A u \in DOMAIN Put(last_by_topic[n], t, m) : Put(last_by_topic[n], t, m)[u].pub = n
            <4>1. \A u \in DOMAIN last_by_topic[n] : last_by_topic[n][u].pub = n
                BY <1>0, <2>1
            <4> QED BY <2>1, <4>1, PutOfNode
        <3>3. CASE last_by_topic'[n] = Put(last_by_topic[n], t, m)
            BY <3>1, <3>2, <3>3
        <3>4. CASE last_by_topic'[n] = last_by_topic[n]
            BY <1>0, <2>1, <3>4
        <3> QED BY <2>6, <3>3, <3>4
    <2>8. \A o \in Nodes : OwnOK(o)'
        BY <1>0, <2>5, <2>7
    <2>9. LocalTypes'
        BY <2>2, <2>3, <2>4, <2>8 DEF LocalTypes
    <2> QED BY <2>5, <2>9 DEF OwnMessagesRetained
<1>2. ASSUME NEW n \in Nodes, NEW t \in Topics, MakeSubscriber(n, t)
      PROVE  LocalTypes' /\ OwnMessagesRetained'
    <2> DEFINE cb == subscribed[n][t] + 1
               retained == RetainedLast(n, t, Registered(n, t, cb)[t])
    <2>1. Registered(n, t, cb) = Put(subs[n], t, cb) /\ Registered(n, t, cb)[t] = cb /\ cb \in Nat
        BY DEF Registered, Put, LocalTypes
    <2>2. Replayed(n, t, cb) \in Seq(Call) /\ retained \in Seq(Call)
        BY <1>0, <2>1, ReplayTypes DEF LocalTypes
    <2>3. /\ calls' = [calls EXCEPT ![n] = calls[n] \o Replayed(n, t, cb) \o retained]
          /\ subs' = [subs EXCEPT ![n] = Put(@, t, cb)]
          /\ subscribed' = [subscribed EXCEPT ![n][t] = cb]
          /\ last_by_topic' = last_by_topic
          /\ \/ /\ t \in DOMAIN last_by_topic[n]
                /\ lastMsg' = [lastMsg EXCEPT ![n] = Put(@, t, last_by_topic[n][t])]
             \/ lastMsg' = lastMsg
        BY <1>2, <2>1 DEF MakeSubscriber, RetainedLast, LocalTypes
    <2>4. /\ calls' \in [Nodes -> Seq(Call)] /\ DOMAIN subs' = Nodes
          /\ subscribed' \in [Nodes -> [Topics -> Nat]]
          /\ \A o \in Nodes : SubsOK(subs[o], subscribed[o])'
        <3> HIDE DEF retained
        <3>1. calls[n] \o Replayed(n, t, cb) \o retained \in Seq(Call)
            BY <2>2 DEF LocalTypes
        <3> HIDE DEF cb
        <3>2. subscribed'[n] = [subscribed[n] EXCEPT ![t] = cb] /\ subs'[n] = Put(subs[n], t, cb)
            BY <2>3 DEF LocalTypes
        <3>3. cb > 0
            BY DEF cb, LocalTypes
        <3>4. SubsOK(subs[n], subscribed[n])'
            BY <2>1, <3>2, <3>3 DEF LocalTypes, SubsOK, Put
        <3>5. \A o \in Nodes \ {n} : subs'[o] = subs[o] /\ subscribed'[o] = subscribed[o]
            BY <2>3 DEF LocalTypes
        <3> QED BY <2>1, <2>3, <3>1, <3>4, <3>5 DEF LocalTypes
    <2>5. \A o \in Nodes : LastOK(o)'
        <3>1. \/ lastMsg'[n] = lastMsg[n]
              \/ t \in DOMAIN last_by_topic[n]
                 /\ lastMsg'[n] = Put(lastMsg[n], t, last_by_topic[n][t])
            BY <2>3 DEF LocalTypes
        <3>2. LastOK(n)'
            <4>1. CASE lastMsg'[n] = lastMsg[n]
                BY <1>0, <4>1
            <4>2. CASE /\ t \in DOMAIN last_by_topic[n]
                       /\ lastMsg'[n] = Put(lastMsg[n], t, last_by_topic[n][t])
                <5>1. last_by_topic[n][t] \in Message /\ last_by_topic[n][t].topic = t
                    BY <1>0, <4>2 DEF OfTopics
                <5>2. OfTopics(Put(lastMsg[n], t, last_by_topic[n][t]))
                    BY <1>0, <5>1, PutOfTopics
                <5> QED BY <4>2, <5>2
            <4> QED BY <3>1, <4>1, <4>2
        <3>3. \A o \in Nodes \ {n} : lastMsg'[o] = lastMsg[o]
            BY <2>3 DEF LocalTypes
        <3> QED BY <1>0, <3>2, <3>3
    <2>6. LocalTypes'
        BY <1>0, <2>3, <2>4, <2>5 DEF LocalTypes
    <2> QED BY <2>3, <2>6 DEF OwnMessagesRetained
<1>3. ASSUME NEW d \in net, Accept(d) PROVE LocalTypes' /\ OwnMessagesRetained'
    <2>1. d.to \in Nodes /\ d.msg \in Message
        BY <1>3, ArrivedTypes DEF Accept
    <2> DEFINE call == Delivered(subs[d.to][d.msg.topic], d.msg)
    <2>2. /\ \/ /\ d.msg.topic \in DOMAIN subs[d.to]
                /\ calls' = [calls EXCEPT ![d.to] = Append(@, call)]
             \/ calls' = calls
          /\ lastMsg' = [lastMsg EXCEPT ![d.to] = Put(@, d.msg.topic, d.msg)]
          /\ UNCHANGED <<subs, subscribed, last_by_topic>>
        BY <1>3 DEF Accept, DeliverToLocal
    <2>3. calls' \in [Nodes -> Seq(Call)]
        <3>1. calls[d.to] \in Seq(Call) /\ calls \in [Nodes -> Seq(Call)]
            BY <2>1 DEF LocalTypes
        <3>2. CASE /\ d.msg.topic \in DOMAIN subs[d.to]
                   /\ calls' = [calls EXCEPT ![d.to] = Append(@, call)]
            <4>1. call \in Call
                BY <2>1, <3>2 DEF LocalTypes, SubsOK, Delivered, Call, Message
            <4> HIDE DEF call
            <4>2. Append(calls[d.to], call) \in Seq(Call)
                BY <3>1, <4>1
            <4> QED BY <2>1, <3>1, <3>2, <4>2
        <3> QED BY <2>2, <3>1, <3>2
    <2>4. \A o \in Nodes : LastOK(o)'
        <3>1. lastMsg'[d.to] = Put(lastMsg[d.to], d.msg.topic, d.msg)
            BY <2>1, <2>2 DEF LocalTypes
        <3>2. LastOK(d.to)'
            <4>1. OfTopics(Put(lastMsg[d.to], d.msg.topic, d.msg))
                BY <1>0, <2>1, PutOfTopics
            <4> QED BY <3>1, <4>1
        <3>3. \A o \in Nodes \ {d.to} : lastMsg'[o] = lastMsg[o]
            BY <2>2 DEF LocalTypes
        <3> QED BY <1>0, <3>2, <3>3
    <2>5. LocalTypes'
        BY <1>0, <2>2, <2>3, <2>4 DEF LocalTypes
    <2> QED BY <2>2, <2>5 DEF OwnMessagesRetained
<1>4. ASSUME NEW n \in Nodes, Restart(n) PROVE LocalTypes' /\ OwnMessagesRetained'
    <2>1. /\ subs' = [subs EXCEPT ![n] = <<>>]
          /\ subscribed' = [subscribed EXCEPT ![n] = [t \in Topics |-> 0]]
          /\ lastMsg' = [lastMsg EXCEPT ![n] = <<>>]
          /\ last_by_topic' = [last_by_topic EXCEPT ![n] = <<>>]
          /\ calls' = [calls EXCEPT ![n] = <<>>]
        BY <1>4 DEF Restart, Empty
    <2>2. LocalTypes'
        BY <2>1 DEF LocalTypes, OfTopics, SubsOK
    <2> QED BY <2>1, <2>2 DEF OwnMessagesRetained, LocalTypes
<1>5. CASE UNCHANGED <<lastMsg, last_by_topic, subs, calls, subscribed>>
    BY <1>5 DEF LocalTypes, OwnMessagesRetained
<1> QED BY <1>1, <1>2, <1>3, <1>4, <1>5, LocalSteps

-----------------------------------------------------------------------------
(***************************************************************************)
(* The per-topic sets: each stays within the capacity, whichever element   *)
(* it drops.                                                               *)
(***************************************************************************)
SetsInv ==
    \A n \in Nodes : \A t \in Topics :
        /\ IsFiniteSet(perTopicDedup[n][t])
        /\ Cardinality(perTopicDedup[n][t]) <= DedupCap

LEMMA RememberedFits ==
    ASSUME NEW ids, IsFiniteSet(ids), Cardinality(ids) <= DedupCap, NEW mid,
           NEW s \in Remembered(ids, mid)
    PROVE  IsFiniteSet(s) /\ Cardinality(s) <= DedupCap
<1> DEFINE all == ids \cup {mid}
<1>1. /\ IsFiniteSet(all) /\ Cardinality(ids) \in Nat /\ DedupCap \in Nat
      /\ Cardinality(all) \in Nat /\ Cardinality(all) <= Cardinality(ids) + 1
    BY FS_AddElement, FS_CardinalityType, SettingsAssumption
<1>2. CASE Cardinality(all) > DedupCap
    <2>1. PICK x \in all : s = all \ {x}
        BY <1>2 DEF Remembered
    <2> HIDE DEF all
    <2>2. IsFiniteSet(s) /\ Cardinality(s) = Cardinality(all) - 1
        BY <1>1, <2>1, FS_RemoveElement
    <2> QED BY <1>1, <2>2
<1>3. CASE ~(Cardinality(all) > DedupCap)
    <2>1. s = all
        BY <1>3 DEF Remembered
    <2> QED BY <1>1, <1>3, <2>1
<1> QED BY <1>2, <1>3

LEMMA SetsNext ==
    ASSUME Types, DedupTypes, SetsInv, [Next]_vars
    PROVE  SetsInv'
<1>1. ASSUME NEW n \in Nodes, Restart(n) PROVE SetsInv'
    <2>1. perTopicDedup' = [perTopicDedup EXCEPT ![n] = [t \in Topics |-> {}]]
        BY <1>1 DEF Restart
    <2>2. ASSUME NEW o \in Nodes, NEW t \in Topics
          PROVE  perTopicDedup'[o][t] = {} \/ perTopicDedup'[o][t] = perTopicDedup[o][t]
        BY <2>1 DEF DedupTypes
    <2>3. IsFiniteSet({}) /\ Cardinality({}) <= DedupCap
        BY FS_EmptySet, SettingsAssumption
    <2> QED BY <2>2, <2>3 DEF SetsInv
<1>2. ASSUME NEW d \in net, Arrives(d), RememberId(d) PROVE SetsInv'
    <2>1. d.to \in Nodes /\ d.msg.topic \in Topics
        BY <1>2, ArrivedTypes
    <2>2. PICK ids \in Remembered(perTopicDedup[d.to][d.msg.topic], d.msg.mid) :
            perTopicDedup' = [perTopicDedup EXCEPT ![d.to][d.msg.topic] = ids]
        BY <1>2 DEF RememberId
    <2>3. IsFiniteSet(ids) /\ Cardinality(ids) <= DedupCap
        BY <2>1, <2>2, RememberedFits DEF SetsInv
    <2>4. ASSUME NEW o \in Nodes, NEW t \in Topics
          PROVE  perTopicDedup'[o][t] = ids \/ perTopicDedup'[o][t] = perTopicDedup[o][t]
        BY <2>2 DEF DedupTypes
    <2> QED BY <2>3, <2>4 DEF SetsInv
<1>3. ASSUME NEW d \in net, Accept(d) \/ DropSeenDuplicate(d) PROVE SetsInv'
    BY <1>2, <1>3 DEF Accept, DropSeenDuplicate
<1>4. ASSUME NEW d \in net, DropTopicDuplicate(d) PROVE SetsInv'
    BY <1>4 DEF DropTopicDuplicate, SetsInv, coreVars
<1>5. CASE UNCHANGED perTopicDedup
    BY <1>5 DEF SetsInv
<1> QED BY <1>1, <1>3, <1>4, <1>5, DedupSteps

LEMMA StateInit == Init => Types /\ DedupTypes /\ WindowInv /\ SetsInv
<1> SUFFICES ASSUME Init PROVE Types /\ DedupTypes /\ WindowInv /\ SetsInv
    OBVIOUS
<1>1. IsFiniteSet({}) /\ Cardinality({}) <= DedupCap
    BY FS_EmptySet, SettingsAssumption
<1>2. SetsInv
    BY <1>1 DEF Init, SetsInv
<1> QED BY <1>2, AckInit, DedupInit DEF AckInv

(***************************************************************************)
(* Types of the state of every node, for any number of nodes and messages: *)
(* what a table holds is of its node, and neither de-duplication set       *)
(* exceeds dedup_capacity, although one of them drops arbitrary ids.       *)
(***************************************************************************)
THEOREM TypeCorrect == Spec => []TypeOK
<1> DEFINE Inv == /\ Types /\ DedupTypes /\ WindowInv /\ SetsInv
                  /\ LocalTypes /\ OwnMessagesRetained
<1>1. Init => Inv
    BY StateInit, LocalInit
<1>2. Inv /\ [Next]_vars => Inv'
    BY TypesNext, DedupTypesNext, WindowNext, SetsNext, LocalNext
<1>3. Inv => TypeOK
    <2> SUFFICES ASSUME Inv PROVE TypeOK
        OBVIOUS
    <2>1. /\ next_msg_id \in [Nodes -> Nat] /\ run \in [Nodes -> Nat]
          /\ net \subseteq DataPacket \cup AckPacket
        BY DEF Types
    <2>2. calls \in [Nodes -> Seq(Call)] /\ \A n \in Nodes : DOMAIN subs[n] \subseteq Topics
        BY DEF LocalTypes, SubsOK
    <2>3. ASSUME NEW n \in Nodes
          PROVE  /\ DOMAIN pending[n] \subseteq Nat \X Nodes
                 /\ \A k \in DOMAIN pending[n] :
                       /\ pending[n][k] \in Tracked
                       /\ pending[n][k].msg.pub = n
                       /\ pending[n][k].msg.mid = k[1]
        BY DEF Types, TableOK
    <2>4. ASSUME NEW n \in Nodes
          PROVE  /\ \A t \in DOMAIN lastMsg[n] :
                       lastMsg[n][t] \in Message /\ lastMsg[n][t].topic = t
                 /\ \A t \in DOMAIN last_by_topic[n] : last_by_topic[n][t].pub = n
        BY DEF LocalTypes, OfTopics
    <2>5. ASSUME NEW n \in Nodes
          PROVE  /\ Len(seenMessages[n]) <= DedupCap
                 /\ \A t \in Topics : Cardinality(perTopicDedup[n][t]) <= DedupCap
        BY DEF WindowInv, Window, SetsInv
    <2> QED BY <2>1, <2>2, <2>3, <2>4, <2>5 DEF TypeOK
<1> QED BY <1>1, <1>2, <1>3, PTL DEF Spec

-----------------------------------------------------------------------------
(***************************************************************************)
(* Subscribers.  A call for the last message on a topic is followed by     *)
(* calls for other topics only.                                            *)
(***************************************************************************)
LatestCall(cs, cb, m, t) ==
    \E i \in 1 .. Len(cs) : /\ cs[i].callback = cb
                            /\ cs[i].msg = m
                            /\ \A j \in 1 .. Len(cs) : j > i => cs[j].msg.topic # t

LEMMA CalledLast ==
    ASSUME NEW cs \in Seq(Call), NEW call \in Call
    PROVE  /\ LatestCall(Append(cs, call), call.callback, call.msg, call.msg.topic)
           /\ \A cb, m, t : LatestCall(cs, cb, m, t) /\ t # call.msg.topic
                               => LatestCall(Append(cs, call), cb, m, t)
<1>1. /\ Len(Append(cs, call)) = Len(cs) + 1 /\ Len(cs) \in Nat
      /\ \A i \in 1 .. Len(cs) : Append(cs, call)[i] = cs[i]
      /\ Append(cs, call)[Len(cs) + 1] = call
    BY AppendIs
<1> DEFINE more == Append(cs, call)
<1> HIDE DEF more
<1>2. /\ Len(more) = Len(cs) + 1 /\ Len(cs) \in Nat
      /\ \A i \in 1 .. Len(cs) : more[i] = cs[i]
      /\ more[Len(cs) + 1] = call
    BY <1>1 DEF more
<1>3. LatestCall(more, call.callback, call.msg, call.msg.topic)
    <2>1. Len(cs) + 1 \in 1 .. Len(more) /\ \A j \in 1 .. Len(more) : ~(j > Len(cs) + 1)
        BY <1>2
    <2> QED BY <1>2, <2>1 DEF LatestCall
<1>4. ASSUME NEW cb, NEW m, NEW t, LatestCall(cs, cb, m, t), t # call.msg.topic
      PROVE  LatestCall(more, cb, m, t)
    <2>1. PICK i \in 1 .. Len(cs) :
            /\ cs[i].callback = cb /\ cs[i].msg = m
            /\ \A j \in 1 .. Len(cs) : j > i => cs[j].msg.topic # t
        BY <1>4 DEF LatestCall
    <2>2. i \in 1 .. Len(more) /\ more[i] = cs[i]
        BY <1>2, <2>1
    <2>3. ASSUME NEW j \in 1 .. Len(more), j > i PROVE more[j].msg.topic # t
        <3>1. j \in 1 .. Len(cs) \/ j = Len(cs) + 1
            BY <1>2
        <3>2. CASE j \in 1 .. Len(cs)
            BY <1>2, <2>1, <2>3, <3>2
        <3>3. CASE j = Len(cs) + 1
            BY <1>2, <1>4, <3>3
        <3> QED BY <3>1, <3>2, <3>3
    <2> QED BY <2>1, <2>2, <2>3 DEF LatestCall
<1> QED BY <1>3, <1>4 DEF more

UpToDate(n) ==
    \A t \in DOMAIN subs[n] \cap DOMAIN lastMsg[n] :
        LatestCall(calls[n], subs[n][t], lastMsg[n][t], t)

UpToDateInv == \A n \in Nodes \ Publishers : UpToDate(n)

\* The registered callback is the one that subscribed last.
LEMMA UpToDateIs == LocalTypes /\ UpToDateInv => ListenerUpToDate
<1> SUFFICES ASSUME LocalTypes, UpToDateInv, NEW n \in Nodes \ Publishers,
                    NEW t \in DOMAIN lastMsg[n], subscribed[n][t] > 0
             PROVE  \E i \in DOMAIN calls[n] :
                        /\ calls[n][i].callback = subscribed[n][t]
                        /\ calls[n][i].msg = lastMsg[n][t]
                        /\ \A j \in DOMAIN calls[n] : j > i => calls[n][j].msg.topic # t
    BY DEF ListenerUpToDate
<1>1. DOMAIN calls[n] = 1 .. Len(calls[n])
    BY LenProperties DEF LocalTypes
<1>2. t \in Topics
    BY DEF LocalTypes, OfTopics, Message
<1>3. t \in DOMAIN subs[n] /\ subs[n][t] = subscribed[n][t]
    BY <1>2 DEF LocalTypes, SubsOK
<1> QED BY <1>1, <1>3 DEF UpToDateInv, UpToDate, LatestCall

LEMMA UpToDateNext ==
    ASSUME Types, LocalTypes, OwnMessagesRetained, UpToDateInv, [Next]_vars
    PROVE  UpToDateInv'
<1> SUFFICES ASSUME NEW o \in Nodes, o \notin Publishers PROVE UpToDate(o)'
    BY DEF UpToDateInv
<1>0. UpToDate(o) /\ calls[o] \in Seq(Call)
    BY DEF UpToDateInv, LocalTypes
<1>1. ASSUME UNCHANGED <<lastMsg[o], subs[o], calls[o]>> PROVE UpToDate(o)'
    BY <1>0, <1>1 DEF UpToDate, LatestCall
<1>2. ASSUME NEW n \in Publishers, NEW t \in Topics, NEW q \in Qos, Publish(n, t, q)
      PROVE  UpToDate(o)'
    <2>1. UNCHANGED <<lastMsg[o], subs[o], calls[o]>>
        BY <1>2 DEF Publish, history, LocalTypes
    <2> QED BY <1>1, <2>1
<1>3. ASSUME NEW n \in Nodes, NEW t \in Topics, MakeSubscriber(n, t) PROVE UpToDate(o)'
    <2>1. CASE n # o
        <3>1. UNCHANGED <<lastMsg[o], subs[o], calls[o]>>
            BY <1>3, <2>1 DEF MakeSubscriber, LocalTypes
        <3> QED BY <1>1, <3>1
    <2>2. CASE n = o
        <3> DEFINE cb == subscribed[o][t] + 1
        <3>1. \A c : RetainedLast(o, t, c) = <<>>
            BY DEF RetainedLast, OwnMessagesRetained
        <3>2. /\ lastMsg' = lastMsg /\ subs'[o] = Put(subs[o], t, cb) /\ cb \in Nat
              /\ calls'[o] = calls[o] \o Replayed(o, t, cb) \o <<>>
            BY <1>3, <2>2, <3>1 DEF MakeSubscriber, Registered, LocalTypes
        <3> HIDE DEF cb
        <3>3. /\ DOMAIN subs'[o] = DOMAIN subs[o] \cup {t} /\ subs'[o][t] = cb
              /\ \A u \in DOMAIN subs[o] : u # t => subs'[o][u] = subs[o][u]
            BY <3>2 DEF Put
        <3>4. CASE t \in DOMAIN lastMsg[o]
            <4> DEFINE call == [callback |-> cb, msg |-> lastMsg[o][t], qos |-> "best_effort",
                                message_id |-> 0]
            <4>1. /\ call \in Call /\ call.callback = cb
                  /\ call.msg = lastMsg[o][t] /\ call.msg.topic = t
                BY <3>2, <3>4 DEF LocalTypes, OfTopics, Call, QosKinds
            <4>2. calls'[o] = Append(calls[o], call)
                BY <1>0, <3>2, <3>4, <4>1 DEF Replayed
            <4>3. \A u \in DOMAIN subs'[o] \cap DOMAIN lastMsg[o] :
                        LatestCall(calls'[o], subs'[o][u], lastMsg[o][u], u)
                <5> HIDE DEF call
                <5> TAKE u \in DOMAIN subs'[o] \cap DOMAIN lastMsg[o]
                <5>1. CASE u = t
                    BY <1>0, <3>3, <4>1, <4>2, <5>1, CalledLast
                <5>2. CASE u # t
                    <6>1. LatestCall(calls[o], subs'[o][u], lastMsg[o][u], u)
                        BY <1>0, <3>3, <5>2 DEF UpToDate
                    <6> QED BY <1>0, <4>1, <4>2, <5>2, <6>1, CalledLast
                <5> QED BY <5>1, <5>2
            <4> QED BY <3>2, <4>3 DEF UpToDate, LatestCall
        <3>5. CASE t \notin DOMAIN lastMsg[o]
            <4>1. calls'[o] = calls[o]
                BY <1>0, <3>2, <3>5 DEF Replayed
            <4> QED BY <1>0, <3>2, <3>3, <3>5, <4>1 DEF UpToDate, LatestCall
        <3> QED BY <3>4, <3>5
    <2> QED BY <2>1, <2>2
<1>4. ASSUME NEW d \in net, Accept(d) PROVE UpToDate(o)'
    <2> DEFINE call == Delivered(subs[d.to][d.msg.topic], d.msg)
    <2>1. d.to \in Nodes /\ d.msg \in Message
        BY <1>4, ArrivedTypes DEF Accept
    <2>2. /\ calls' = IF d.msg.topic \in DOMAIN subs[d.to]
                        THEN [calls EXCEPT ![d.to] = Append(@, call)] ELSE calls
          /\ lastMsg' = [lastMsg EXCEPT ![d.to] = Put(@, d.msg.topic, d.msg)]
          /\ subs' = subs
        BY <1>4 DEF Accept, DeliverToLocal
    <2>3. CASE d.to # o
        <3>1. UNCHANGED <<lastMsg[o], subs[o], calls[o]>>
            BY <2>2, <2>3 DEF LocalTypes
        <3> QED BY <1>1, <3>1
    <2>4. CASE d.to = o
        <3>1. lastMsg'[o] = Put(lastMsg[o], d.msg.topic, d.msg)
            BY <2>2, <2>4 DEF LocalTypes
        <3>2. /\ DOMAIN lastMsg'[o] = DOMAIN lastMsg[o] \cup {d.msg.topic}
              /\ lastMsg'[o][d.msg.topic] = d.msg
              /\ \A u \in DOMAIN lastMsg[o] : u # d.msg.topic => lastMsg'[o][u] = lastMsg[o][u]
            BY <3>1 DEF Put
        <3>3. ASSUME NEW u \in DOMAIN subs[o] \cap DOMAIN lastMsg'[o]
              PROVE  LatestCall(calls'[o], subs[o][u], lastMsg'[o][u], u)
            <4>1. CASE d.msg.topic \in DOMAIN subs[o]
                <5>1. /\ call \in Call /\ call.msg = d.msg
                      /\ call.callback = subs[o][d.msg.topic]
                    BY <2>1, <2>4, <4>1 DEF LocalTypes, SubsOK, Delivered, Call, Message
                <5>2. calls'[o] = Append(calls[o], call)
                    BY <2>2, <2>4, <4>1 DEF LocalTypes
                <5> HIDE DEF call
                <5>3. CASE u = d.msg.topic
                    BY <1>0, <3>2, <5>1, <5>2, <5>3, CalledLast
                <5>4. CASE u # d.msg.topic
                    <6>1. /\ LatestCall(calls[o], subs[o][u], lastMsg[o][u], u)
                          /\ lastMsg'[o][u] = lastMsg[o][u]
                        BY <1>0, <3>2, <3>3, <5>4 DEF UpToDate
                    <6> QED BY <1>0, <5>1, <5>2, <5>4, <6>1, CalledLast
                <5> QED BY <5>3, <5>4
            <4>2. CASE d.msg.topic \notin DOMAIN subs[o]
                <5>1. calls' = calls /\ u # d.msg.topic
                    BY <2>2, <2>4, <4>2
                <5> QED BY <1>0, <3>2, <3>3, <5>1 DEF UpToDate
            <4> QED BY <4>1, <4>2
        <3> QED BY <2>2, <3>3 DEF UpToDate, LatestCall
    <2> QED BY <2>3, <2>4
<1>5. ASSUME NEW n \in Nodes, Restart(n) PROVE UpToDate(o)'
    <2>1. CASE n = o
        <3>1. DOMAIN subs'[o] = {}
            BY <1>5, <2>1 DEF Restart, LocalTypes, Empty
        <3> QED BY <3>1 DEF UpToDate
    <2>2. CASE n # o
        <3>1. UNCHANGED <<lastMsg[o], subs[o], calls[o]>>
            BY <1>5, <2>2 DEF Restart, LocalTypes
        <3> QED BY <1>1, <3>1
    <2> QED BY <2>1, <2>2
<1>6. CASE UNCHANGED <<lastMsg, last_by_topic, subs, calls, subscribed>>
    BY <1>1, <1>6
<1> QED BY <1>2, <1>3, <1>4, <1>5, <1>6, LocalSteps

(***************************************************************************)
(* A subscriber on a node that only listens is never behind, whenever it   *)
(* subscribes, in whose place, and however many topics its node hears: the *)
(* last call on a topic was of the newest callback, with the payload of    *)
(* the last message that arrived.                                          *)
(***************************************************************************)
THEOREM ListenersKeepUp == Spec => []ListenerUpToDate
<1> DEFINE Inv == Types /\ LocalTypes /\ OwnMessagesRetained /\ UpToDateInv
<1>1. Init => Inv
    <2>1. Init => UpToDateInv
        BY DEF Init, UpToDateInv, UpToDate, Empty
    <2> QED BY <2>1, StateInit, LocalInit
<1>2. Inv /\ [Next]_vars => Inv'
    BY TypesNext, LocalNext, UpToDateNext
<1>3. Inv => ListenerUpToDate
    BY UpToDateIs
<1> QED BY <1>1, <1>2, <1>3, PTL DEF Spec

=============================================================================
