---------------------------- MODULE DDSCoreProofs ----------------------------
(***************************************************************************)
(* Theorems about DDSCore, for any nodes, topics, settings and faults.     *)
(***************************************************************************)
EXTENDS DDSCore, TLAPS

(***************************************************************************)
(* A message is somewhere when it is in flight, in a table or in the       *)
(* history.                                                                *)
(***************************************************************************)
InFlight(m) == \E d \in net : d.type = "data" /\ d.msg = m
InTable(m)  == \E n \in Nodes : \E k \in DOMAIN pending[n] : pending[n][k].msg = m
Received(m) == \E x \in receipts : x.msg = m

Exists(m) == InFlight(m) \/ InTable(m) \/ Received(m)

(***************************************************************************)
(* Publishers that are never restarted.  A process that starts again takes *)
(* its ids from 1, and an ACK for one of them may still be in flight.      *)
(***************************************************************************)
PublishersStayUp == Publishers \cap Restarters = {}

(***************************************************************************)
(* The inductive invariant behind AckSound.  A publisher's ids name its    *)
(* messages; an ACK in flight stands for a receipt; so does what was taken *)
(* for acknowledged.                                                       *)
(***************************************************************************)
IdsAreNames ==
    \A m \in Message : Exists(m) =>
        /\ m.pub \in Publishers
        /\ m.mid < next_msg_id[m.pub]
        /\ \A o \in Message : Exists(o) /\ o.pub = m.pub /\ o.mid = m.mid => o = m

AcksStandForReceipts ==
    \A d \in net : d.type = "ack" =>
        \E x \in receipts : /\ x.kept /\ x.node = d.receiver
                            /\ x.msg.pub = d.to /\ x.msg.mid = d.mid

Receipts == [node: Nodes, msg: Message, kept: BOOLEAN]
Outcomes == [node: Nodes, msg: Message, receiver: Nodes, as: {"acked", "failed"}]

TableOK(n) ==
    \A k \in DOMAIN pending[n] :
        /\ k \in Nat \X Nodes
        /\ pending[n][k] \in Tracked
        /\ pending[n][k].msg.pub = n
        /\ pending[n][k].msg.mid = k[1]

Types ==
    /\ next_msg_id \in [Nodes -> Nat]
    /\ run \in [Nodes -> Nat]
    /\ DOMAIN pending = Nodes
    /\ \A n \in Nodes : TableOK(n)
    /\ net \subseteq DataPacket \cup AckPacket
    /\ receipts \subseteq Receipts

AckInv == Types /\ IdsAreNames /\ AcksStandForReceipts /\ AckSound

-----------------------------------------------------------------------------
LEMMA AckInit == Init => AckInv
<1> SUFFICES ASSUME Init PROVE AckInv
    OBVIOUS
<1>1. Types
    BY DEF Init, Types, TableOK, Empty
<1>2. \A m : ~Exists(m)
    BY DEF Init, Exists, InFlight, InTable, Received, Empty
<1> QED BY <1>1, <1>2 DEF Init, AckInv, IdsAreNames, AcksStandForReceipts, AckSound

(***************************************************************************)
(* Each action keeps the types.                                            *)
(***************************************************************************)
LEMMA PacketTypes ==
    ASSUME NEW m \in Message, NEW r \in Nodes, NEW i \in Nat
    PROVE  /\ Data(m, r, i) \in DataPacket /\ Data(m, r, i).msg = m
           /\ Data(m, r, i).type = "data"
           /\ Ack(m, r, i) \in AckPacket /\ Ack(m, r, i).type = "ack"
           /\ Ack(m, r, i).mid = m.mid /\ Ack(m, r, i).receiver = r
           /\ Ack(m, r, i).to = m.pub
BY DEF Data, Ack, DataPacket, AckPacket, Message

LEMMA TypesKept ==
    ASSUME Types, UNCHANGED <<next_msg_id, pending, run>>,
           net' \subseteq DataPacket \cup AckPacket, receipts' \subseteq Receipts
    PROVE  Types'
<1>1. \A n \in Nodes : TableOK(n)'
    BY DEF Types, TableOK
<1> QED BY <1>1 DEF Types

LEMMA TypesNext == Types /\ [Next]_vars => Types'
<1> SUFFICES ASSUME Types, [Next]_vars PROVE Types'
    OBVIOUS
<1> USE DEF coreVars, history, faults
<1>1. ASSUME NEW n \in Publishers, NEW t \in Topics, NEW q \in Qos, Publish(n, t, q)
      PROVE  Types'
    <2> DEFINE m == [pub |-> n, run |-> run[n], mid |-> next_msg_id[n],
                     topic |-> t, qos |-> q]
    <2>1. m \in Message /\ n \in Nodes /\ m.pub = n /\ m.mid = next_msg_id[n]
        BY NodesAssumption DEF Types, Message
    <2>2. /\ next_msg_id' \in [Nodes -> Nat] /\ run' = run /\ receipts' = receipts
        BY <1>1, <2>1 DEF Publish, Types
    <2>3. CASE q = "reliable"
        <3>1. SendReliable(n, m)
            BY <1>1, <2>3 DEF Publish
        <3> HIDE DEF m
        <3>2. PICK destPeers \in SUBSET (Nodes \ {n}) :
                /\ net' = net \cup {Data(m, r, 0) : r \in destPeers}
                /\ pending' = [pending EXCEPT ![n] =
                     [k \in DOMAIN @ \cup {<<m.mid, r>> : r \in destPeers} |->
                       IF k \in DOMAIN @ THEN @[k]
                         ELSE [msg |-> m, retries_left |-> MaxRetries]]]
            BY <3>1 DEF SendReliable
        <3>3. net' \subseteq DataPacket \cup AckPacket
            <4>1. \A r \in Nodes : Data(m, r, 0) \in DataPacket
                BY <2>1, PacketTypes
            <4> QED BY <3>2, <4>1 DEF Types
        <3>4. [msg |-> m, retries_left |-> MaxRetries] \in Tracked
            BY <2>1, SettingsAssumption DEF Tracked
        <3>5. m.mid \in Nat
            BY <2>1 DEF Types
        <3>6. TableOK(n)'
            BY <2>1, <3>2, <3>4, <3>5 DEF Types, TableOK
        <3>7. \A o \in Nodes \ {n} : TableOK(o)'
            BY <3>2 DEF Types, TableOK
        <3>8. DOMAIN pending' = Nodes
            BY <3>2 DEF Types
        <3> QED BY <2>2, <3>3, <3>6, <3>7, <3>8 DEF Types
    <2>4. CASE q # "reliable"
        <3>1. Broadcast(m)
            BY <1>1, <2>4 DEF Publish
        <3> HIDE DEF m
        <3>2. net' \subseteq DataPacket \cup AckPacket
            <4>1. \A r \in Nodes : Data(m, r, 0) \in DataPacket
                BY <2>1, PacketTypes
            <4>2. PICK heard \in SUBSET Nodes :
                    net' = net \cup {Data(m, r, 0) : r \in heard}
                BY <3>1 DEF Broadcast
            <4> QED BY <4>1, <4>2 DEF Types
        <3>3. UNCHANGED pending
            BY <3>1 DEF Broadcast
        <3> QED BY <2>2, <3>2, <3>3 DEF Types, TableOK
    <2> QED BY <2>3, <2>4
<1>2. ASSUME NEW n \in Nodes, NEW t \in Topics, MakeSubscriber(n, t) PROVE Types'
    BY <1>2 DEF MakeSubscriber, Types, TableOK
<1>3. ASSUME NEW d \in net, IgnoreOwn(d) \/ DropTopicDuplicate(d) \/ DropSeenDuplicate(d)
      PROVE  Types'
    <2>1. d \in net /\ d.type = "data"
        BY <1>3 DEF IgnoreOwn, DropTopicDuplicate, DropSeenDuplicate, Arrives
    <2>2. d.msg \in Message /\ d.to \in Nodes
        BY <2>1 DEF Types, DataPacket, AckPacket
    <2>3. Receipt(d, FALSE) \in Receipts
        BY <2>2 DEF Receipt, Receipts
    <2>4. /\ UNCHANGED <<next_msg_id, pending, run>>
          /\ net' \subseteq net /\ receipts' \subseteq receipts \cup {Receipt(d, FALSE)}
        BY <1>3 DEF IgnoreOwn, DropTopicDuplicate, DropSeenDuplicate
    <2> QED BY <2>3, <2>4, TypesKept DEF Types
<1>4. ASSUME NEW d \in net, Accept(d) PROVE Types'
    <2>1. d \in DataPacket /\ d.msg \in Message /\ d.to \in Nodes /\ d.copy \in Nat
        BY <1>4 DEF Accept, Arrives, Types, DataPacket, AckPacket
    <2>2. AckIfReliable(d) \subseteq AckPacket
        BY <2>1, PacketTypes DEF AckIfReliable
    <2>3. Receipt(d, TRUE) \in Receipts
        BY <2>1 DEF Receipt, Receipts
    <2> QED BY <1>4, <2>2, <2>3 DEF Accept, Types, TableOK
<1>5. ASSUME NEW d \in net, ReceiveAck(d) PROVE Types'
    <2>1. \A n \in Nodes : /\ DOMAIN pending'[n] \subseteq DOMAIN pending[n]
                           /\ \A k \in DOMAIN pending'[n] : pending'[n][k] = pending[n][k]
        BY <1>5 DEF ReceiveAck, Types
    <2>2. \A n \in Nodes : TableOK(n)'
        BY <2>1 DEF Types, TableOK
    <2> QED BY <1>5, <2>2 DEF ReceiveAck, Types
<1>6. ASSUME NEW d \in net, Lose(d) \/ Duplicate(d) PROVE Types'
    <2>1. [d EXCEPT !.dup = TRUE] \in DataPacket \cup AckPacket
        BY DEF Types, DataPacket, AckPacket
    <2>2. /\ UNCHANGED <<next_msg_id, pending, run, receipts>>
          /\ net' \subseteq net \cup {[d EXCEPT !.dup = TRUE]}
        BY <1>6 DEF Lose, Duplicate
    <2> QED BY <2>1, <2>2, TypesKept DEF Types
<1>7. ASSUME NEW n \in Nodes, OnTick(n) PROVE Types'
    <2>1. PICK due \in SUBSET DOMAIN pending[n] \ {{}} :
            LET again == {k \in due : HasBudget(n, k)}
                spent == due \ again
            IN  /\ net' = net \cup {Resend(n, k) : k \in again}
                /\ pending' = [pending EXCEPT ![n] = AfterTick(n, again, spent)]
        BY <1>7 DEF OnTick
    <2> DEFINE again == {k \in due : HasBudget(n, k)}
    <2>2. \A k \in again : /\ pending[n][k].msg \in Message
                           /\ pending[n][k].retries_left \in 1 .. MaxRetries
                           /\ k[2] \in Nodes
        BY SettingsAssumption DEF Types, TableOK, Tracked, HasBudget
    <2>3. \A k \in again : Resend(n, k) \in DataPacket
        BY <2>2, SettingsAssumption, PacketTypes DEF Resend
    <2>4. net' \subseteq DataPacket \cup AckPacket
        BY <2>1, <2>3 DEF Types
    <2>5. \A k \in again : [pending[n][k] EXCEPT !.retries_left = @ - 1] \in Tracked
        BY <2>2, SettingsAssumption DEF Types, TableOK, Tracked
    <2>6. TableOK(n)'
        BY <2>1, <2>5 DEF Types, TableOK, AfterTick, Tracked
    <2>7. \A o \in Nodes \ {n} : TableOK(o)'
        BY <2>1 DEF Types, TableOK
    <2> QED BY <1>7, <2>1, <2>4, <2>6, <2>7 DEF Types, OnTick
<1>8. ASSUME NEW n \in Nodes, Restart(n) PROVE Types'
    BY <1>8 DEF Restart, Types, TableOK, Empty
<1>9. CASE UNCHANGED vars
    BY <1>9 DEF vars, Types, TableOK
<1> QED BY <1>1, <1>2, <1>3, <1>4, <1>5, <1>6, <1>7, <1>8, <1>9 DEF Next, OnDatagram

-----------------------------------------------------------------------------
(***************************************************************************)
(* Only Publish makes a message that did not exist.                        *)
(***************************************************************************)
LEMMA NoNewMessage ==
    ASSUME IdsAreNames,
           \A m \in Message : Exists(m)' => Exists(m),
           \A p \in Publishers : next_msg_id'[p] = next_msg_id[p]
    PROVE  IdsAreNames'
<1> SUFFICES ASSUME NEW m \in Message, Exists(m)'
             PROVE  /\ m.pub \in Publishers
                    /\ m.mid < next_msg_id'[m.pub]
                    /\ \A o \in Message :
                         Exists(o)' /\ o.pub = m.pub /\ o.mid = m.mid => o = m
    BY DEF IdsAreNames
<1> QED BY DEF IdsAreNames

(***************************************************************************)
(* Sending adds nothing but first transmissions of the message.            *)
(***************************************************************************)
LEMMA SentPackets ==
    ASSUME NEW n, NEW m, SendReliable(n, m) \/ Broadcast(m)
    PROVE  \A d \in net' : d \in net \/ \E r \in Nodes : d = Data(m, r, 0)
<1>1. CASE SendReliable(n, m)
    <2>1. PICK destPeers \in SUBSET (Nodes \ {n}) :
            net' = net \cup {Data(m, r, 0) : r \in destPeers}
        BY <1>1 DEF SendReliable
    <2> QED BY <2>1
<1>2. CASE Broadcast(m)
    <2>1. PICK heard \in SUBSET Nodes : net' = net \cup {Data(m, r, 0) : r \in heard}
        BY <1>2 DEF Broadcast
    <2> QED BY <2>1
<1> QED BY <1>1, <1>2

LEMMA PublishNames ==
    ASSUME Types, IdsAreNames, NEW n \in Publishers, NEW t \in Topics, NEW q \in Qos,
           Publish(n, t, q)
    PROVE  IdsAreNames'
<1> DEFINE new == [pub |-> n, run |-> run[n], mid |-> next_msg_id[n],
                   topic |-> t, qos |-> q]
<1>1. new \in Message /\ n \in Nodes /\ new.pub = n /\ new.mid = next_msg_id[n]
    BY NodesAssumption DEF Types, Message
<1>2. /\ next_msg_id' = [next_msg_id EXCEPT ![n] = @ + 1] /\ receipts' = receipts
      /\ SendReliable(n, new) \/ Broadcast(new)
    BY DEF Publish, history
<1>3. \A p \in Publishers : /\ next_msg_id'[p] >= next_msg_id[p]
                            /\ next_msg_id[p] \in Nat /\ next_msg_id'[p] \in Nat
    BY <1>2, NodesAssumption DEF Types
<1>4. next_msg_id'[n] = next_msg_id[n] + 1
    BY <1>1, <1>2 DEF Types
<1> HIDE DEF new
<1>5. \A m \in Message : Exists(m)' => Exists(m) \/ m = new
    <2> SUFFICES ASSUME NEW m \in Message, Exists(m)', m # new PROVE Exists(m)
        OBVIOUS
    <2>1. \A r \in Nodes : Data(new, r, 0).msg = new
        BY <1>1, PacketTypes
    <2>2. InFlight(m)' => InFlight(m)
        <3>1. \A d \in net' : d \in net \/ \E r \in Nodes : d = Data(new, r, 0)
            BY <1>2, SentPackets
        <3> QED BY <2>1, <3>1 DEF InFlight
    <2>3. InTable(m)' => InTable(m)
        <3>1. CASE SendReliable(n, new)
            <4>1. \A o \in Nodes \ {n} : pending'[o] = pending[o]
                BY <3>1 DEF SendReliable, Types
            <4>2. \A k \in DOMAIN pending'[n] :
                    \/ k \in DOMAIN pending[n] /\ pending'[n][k] = pending[n][k]
                    \/ pending'[n][k].msg = new
                BY <1>1, <3>1 DEF SendReliable, Types
            <4> QED BY <1>1, <4>1, <4>2 DEF InTable
        <3>2. CASE Broadcast(new)
            BY <3>2 DEF Broadcast, InTable
        <3> QED BY <1>2, <3>1, <3>2
    <2>4. Received(m)' => Received(m)
        BY <1>2 DEF Received
    <2> QED BY <2>2, <2>3, <2>4 DEF Exists
<1>6. \A m \in Message : Exists(m) => m # new /\ m.mid \in Nat
    BY <1>1, <1>3 DEF IdsAreNames, Message
<1>7. SUFFICES ASSUME NEW m \in Message, Exists(m)'
               PROVE  /\ m.pub \in Publishers
                      /\ m.mid < next_msg_id'[m.pub]
                      /\ \A o \in Message :
                           Exists(o)' /\ o.pub = m.pub /\ o.mid = m.mid => o = m
    BY DEF IdsAreNames
<1>8. m.mid \in Nat /\ \A o \in Message : o.mid \in Nat
    BY DEF Message
<1>9. CASE Exists(m)
    BY <1>1, <1>3, <1>5, <1>8, <1>9 DEF IdsAreNames
<1>10. CASE m = new
    BY <1>1, <1>3, <1>4, <1>5, <1>8, <1>10 DEF IdsAreNames
<1> QED BY <1>5, <1>7, <1>9, <1>10

LEMMA IdsNext ==
    ASSUME PublishersStayUp, Types, IdsAreNames, [Next]_vars
    PROVE  IdsAreNames'
<1> USE DEF coreVars, history, faults
<1>1. ASSUME NEW n \in Publishers, NEW t \in Topics, NEW q \in Qos, Publish(n, t, q)
      PROVE  IdsAreNames'
    BY <1>1, PublishNames
<1>2. ASSUME UNCHANGED <<next_msg_id, net, pending, receipts>> PROVE IdsAreNames'
    BY <1>2, NoNewMessage DEF Exists, InFlight, InTable, Received
<1>3. ASSUME NEW d \in net, OnDatagram(d) PROVE IdsAreNames'
    <2>1. next_msg_id' = next_msg_id
        BY <1>3 DEF OnDatagram, IgnoreOwn, DropTopicDuplicate, DropSeenDuplicate,
                    Accept, ReceiveAck
    <2>2. \A x \in receipts' : x \in receipts \/ (d.type = "data" /\ x.msg = d.msg)
        BY <1>3 DEF OnDatagram, IgnoreOwn, DropTopicDuplicate, DropSeenDuplicate,
                    Accept, ReceiveAck, Receipt, Arrives
    <2>3. \A e \in net' : e \in net \/ e.type = "ack"
        <3>1. \A e \in AckIfReliable(d) : e.type = "ack"
            BY DEF AckIfReliable, Ack
        <3>2. net' \subseteq net \cup AckIfReliable(d)
            BY <1>3 DEF OnDatagram, IgnoreOwn, DropTopicDuplicate, DropSeenDuplicate,
                        Accept, ReceiveAck
        <3> QED BY <3>1, <3>2
    <2>4. \A n \in Nodes : \A k \in DOMAIN pending'[n] :
            k \in DOMAIN pending[n] /\ pending'[n][k] = pending[n][k]
        <3>1. CASE ReceiveAck(d)
            BY <3>1 DEF ReceiveAck, Types
        <3>2. CASE ~ReceiveAck(d)
            <4>1. pending' = pending
                BY <1>3, <3>2 DEF OnDatagram, IgnoreOwn, DropTopicDuplicate,
                                  DropSeenDuplicate, Accept
            <4> QED BY <4>1
        <3> QED BY <3>1, <3>2
    <2>5. \A m \in Message : Exists(m)' => Exists(m)
        BY <2>2, <2>3, <2>4 DEF Exists, InFlight, InTable, Received
    <2> QED BY <2>1, <2>5, NoNewMessage
<1>4. ASSUME NEW d \in net, Lose(d) \/ Duplicate(d) PROVE IdsAreNames'
    <2>1. \A e \in net' : e \in net \/ (e.type = d.type /\ (d.type = "data" => e.msg = d.msg))
        BY <1>4 DEF Lose, Duplicate, Types, DataPacket, AckPacket
    <2>2. UNCHANGED <<next_msg_id, pending, receipts>>
        BY <1>4 DEF Lose, Duplicate
    <2>3. \A m \in Message : Exists(m)' => Exists(m)
        BY <2>1, <2>2 DEF Exists, InFlight, InTable, Received
    <2> QED BY <2>2, <2>3, NoNewMessage
<1>5. ASSUME NEW n \in Nodes, OnTick(n) PROVE IdsAreNames'
    <2>1. PICK due \in SUBSET DOMAIN pending[n] \ {{}} :
            LET again == {k \in due : HasBudget(n, k)}
                spent == due \ again
            IN  /\ net' = net \cup {Resend(n, k) : k \in again}
                /\ pending' = [pending EXCEPT ![n] = AfterTick(n, again, spent)]
        BY <1>5 DEF OnTick
    <2>2. UNCHANGED <<next_msg_id, receipts>>
        BY <1>5 DEF OnTick
    <2>3. \A e \in net' : e \in net \/ \E k \in DOMAIN pending[n] : e.msg = pending[n][k].msg
        BY <2>1 DEF Resend, Data
    <2>4. \A o \in Nodes : \A k \in DOMAIN pending'[o] :
            k \in DOMAIN pending[o] /\ pending'[o][k].msg = pending[o][k].msg
        BY <2>1 DEF AfterTick, Types, TableOK, Tracked
    <2>5. \A m \in Message : Exists(m)' => Exists(m)
        BY <2>2, <2>3, <2>4 DEF Exists, InFlight, InTable, Received
    <2> QED BY <2>2, <2>5, NoNewMessage
<1>6. ASSUME NEW n \in Nodes, Restart(n) PROVE IdsAreNames'
    <2>1. n \notin Publishers
        BY <1>6 DEF Restart, PublishersStayUp
    <2>2. \A p \in Publishers : next_msg_id'[p] = next_msg_id[p]
        BY <1>6, <2>1, NodesAssumption DEF Restart, Types
    <2>3. \A m \in Message : Exists(m)' => Exists(m)
        BY <1>6 DEF Restart, Exists, InFlight, InTable, Received, Types, Empty
    <2> QED BY <2>2, <2>3, NoNewMessage
<1>7. ASSUME NEW n \in Nodes, NEW t \in Topics, MakeSubscriber(n, t) PROVE IdsAreNames'
    BY <1>2, <1>7 DEF MakeSubscriber
<1>8. CASE UNCHANGED vars
    BY <1>2, <1>8 DEF vars
<1> QED BY <1>1, <1>3, <1>4, <1>5, <1>6, <1>7, <1>8 DEF Next

-----------------------------------------------------------------------------
(***************************************************************************)
(* Receipts are never withdrawn, and an ACK is only made of a receipt.     *)
(***************************************************************************)
LEMMA ReceiptsGrow == Types /\ [Next]_vars => receipts \subseteq receipts'
<1> SUFFICES ASSUME Types, [Next]_vars PROVE receipts \subseteq receipts'
    OBVIOUS
<1> USE DEF coreVars, history, faults
<1>1. ASSUME NEW d \in net, OnDatagram(d) PROVE receipts \subseteq receipts'
    BY <1>1 DEF OnDatagram, IgnoreOwn, DropTopicDuplicate, DropSeenDuplicate, Accept,
                ReceiveAck
<1>2. ASSUME NEW d \in net, Lose(d) \/ Duplicate(d) PROVE receipts \subseteq receipts'
    BY <1>2 DEF Lose, Duplicate
<1>3. ASSUME NEW n \in Nodes, OnTick(n) \/ Restart(n) PROVE receipts \subseteq receipts'
    BY <1>3 DEF OnTick, Restart
<1>4. ASSUME NEW n \in Publishers, NEW t \in Topics, NEW q \in Qos, Publish(n, t, q)
      PROVE  receipts \subseteq receipts'
    BY <1>4 DEF Publish
<1>5. ASSUME NEW n \in Nodes, NEW t \in Topics, MakeSubscriber(n, t)
      PROVE  receipts \subseteq receipts'
    BY <1>5 DEF MakeSubscriber
<1> QED BY <1>1, <1>2, <1>3, <1>4, <1>5 DEF Next, vars

LEMMA NewAcks ==
    ASSUME Types, [Next]_vars, NEW e \in net', e.type = "ack"
    PROVE  \/ \E d \in net : /\ d.type = "ack" /\ d.mid = e.mid
                             /\ d.receiver = e.receiver /\ d.to = e.to
           \/ \E d \in net : /\ Accept(d) /\ e.mid = d.msg.mid
                             /\ e.receiver = d.to /\ e.to = d.msg.pub
<1> USE DEF coreVars, history, faults
<1> DEFINE Old == \E d \in net : /\ d.type = "ack" /\ d.mid = e.mid
                                 /\ d.receiver = e.receiver /\ d.to = e.to
<1>0. CASE e \in net
    BY <1>0
<1>1. ASSUME NEW n \in Publishers, NEW t \in Topics, NEW q \in Qos, Publish(n, t, q)
      PROVE  e \in net
    <2>1. PICK m : SendReliable(n, m) \/ Broadcast(m)
        BY <1>1 DEF Publish
    <2>2. e \in net \/ \E r \in Nodes : e = Data(m, r, 0)
        BY <2>1, SentPackets
    <2> QED BY <2>2 DEF Data
<1>2. ASSUME NEW n \in Nodes, NEW t \in Topics, MakeSubscriber(n, t) PROVE e \in net
    BY <1>2 DEF MakeSubscriber
<1>3. ASSUME NEW d \in net, IgnoreOwn(d) \/ DropTopicDuplicate(d) \/ DropSeenDuplicate(d)
                            \/ ReceiveAck(d) \/ Lose(d)
      PROVE  e \in net
    BY <1>3 DEF IgnoreOwn, DropTopicDuplicate, DropSeenDuplicate, ReceiveAck, Lose
<1>4. ASSUME NEW d \in net, Accept(d), e \notin net
      PROVE  /\ e.mid = d.msg.mid /\ e.receiver = d.to /\ e.to = d.msg.pub
    <2>1. e = Ack(d.msg, d.to, d.copy)
        BY <1>4 DEF Accept, AckIfReliable
    <2> QED BY <2>1 DEF Ack
<1>5. ASSUME NEW d \in net, Duplicate(d), e \notin net PROVE Old
    <2>1. e = [d EXCEPT !.dup = TRUE]
        BY <1>5 DEF Duplicate
    <2>2. d \in AckPacket
        BY <2>1 DEF Types, DataPacket, AckPacket
    <2>3. d.type = "ack" /\ d.mid = e.mid /\ d.receiver = e.receiver /\ d.to = e.to
        BY <2>1, <2>2 DEF AckPacket
    <2> QED BY <2>3
<1>6. ASSUME NEW n \in Nodes, OnTick(n) PROVE e \in net
    <2>1. e \in net \/ \E k : e = Resend(n, k)
        BY <1>6 DEF OnTick
    <2> QED BY <2>1 DEF Resend, Data
<1>7. ASSUME NEW n \in Nodes, Restart(n) PROVE e \in net
    BY <1>7 DEF Restart
<1>8. CASE UNCHANGED vars
    BY <1>0, <1>8 DEF vars
<1> QED BY <1>0, <1>1, <1>2, <1>3, <1>4, <1>5, <1>6, <1>7, <1>8 DEF Next, OnDatagram

LEMMA AcksNext ==
    ASSUME Types, AcksStandForReceipts, [Next]_vars
    PROVE  AcksStandForReceipts'
<1> SUFFICES ASSUME NEW e \in net', e.type = "ack"
             PROVE  \E x \in receipts' : /\ x.kept /\ x.node = e.receiver
                                         /\ x.msg.pub = e.to /\ x.msg.mid = e.mid
    BY DEF AcksStandForReceipts
<1>1. CASE \E d \in net : /\ d.type = "ack" /\ d.mid = e.mid
                          /\ d.receiver = e.receiver /\ d.to = e.to
    BY <1>1, ReceiptsGrow DEF AcksStandForReceipts
<1>2. ASSUME NEW d \in net, Accept(d), e.mid = d.msg.mid, e.receiver = d.to,
             e.to = d.msg.pub
      PROVE  \E x \in receipts' : /\ x.kept /\ x.node = e.receiver
                                  /\ x.msg.pub = e.to /\ x.msg.mid = e.mid
    <2>1. Receipt(d, TRUE) \in receipts'
        BY <1>2 DEF Accept
    <2> QED BY <1>2, <2>1 DEF Receipt
<1> QED BY <1>1, <1>2, NewAcks

(***************************************************************************)
(* What a publisher that stays up takes for acknowledged was accepted,     *)
(* whatever is lost, duplicated or reordered, and however the receivers    *)
(* are restarted: the id of the ACK leads to one message only.             *)
(***************************************************************************)
LEMMA SoundNext ==
    ASSUME Types, IdsAreNames, AcksStandForReceipts, AckSound, [Next]_vars
    PROVE  AckSound'
<1> USE DEF coreVars, history, faults
<1>1. SUFFICES ASSUME NEW o \in outcome', o.as = "acked", o \notin outcome
               PROVE  Kept(o.receiver, o.msg)'
    BY ReceiptsGrow DEF AckSound, Kept
<1>2. ASSUME NEW d \in net, ReceiveAck(d) PROVE Kept(o.receiver, o.msg)'
    <2> DEFINE k == <<d.mid, d.receiver>>
               m == pending[d.to][k].msg
    <2>1. /\ d \in AckPacket
        BY <1>2 DEF ReceiveAck, Types, DataPacket, AckPacket
    <2>2. /\ k \in DOMAIN pending[d.to]
          /\ o = [node |-> d.to, msg |-> m, receiver |-> k[2], as |-> "acked"]
        BY <1>1, <1>2 DEF ReceiveAck, Confirmed, Settle
    <2>3. /\ m \in Message /\ m.pub = d.to /\ m.mid = d.mid
          /\ Exists(m)
        <3>1. d.to \in Nodes
            BY <2>1 DEF AckPacket
        <3>2. TableOK(d.to)
            BY <3>1 DEF Types
        <3>3. k[1] = d.mid
            OBVIOUS
        <3>4. m \in Message /\ m.pub = d.to /\ m.mid = d.mid
            BY <2>2, <3>2, <3>3 DEF TableOK, Tracked
        <3>5. Exists(m)
            BY <2>2, <3>1 DEF Exists, InTable
        <3> QED BY <3>4, <3>5
    <2>4. PICK x \in receipts : /\ x.kept /\ x.node = d.receiver
                                /\ x.msg.pub = d.to /\ x.msg.mid = d.mid
        BY <1>2 DEF ReceiveAck, AcksStandForReceipts
    <2>5. x \in Receipts /\ Exists(x.msg)
        BY DEF Types, Exists, Received
    <2> HIDE DEF m, k
    <2>6. x.msg = m
        BY <2>3, <2>4, <2>5 DEF IdsAreNames, Receipts
    <2>7. x = [node |-> d.receiver, msg |-> m, kept |-> TRUE]
        BY <2>4, <2>5, <2>6 DEF Receipts
    <2>8. o.receiver = d.receiver /\ o.msg = m
        BY <2>2 DEF k
    <2> QED BY <2>7, <2>8, ReceiptsGrow DEF Kept
<1>3. ASSUME NEW n \in Nodes, OnTick(n) PROVE FALSE
    <2>1. \E ks : o \in Settle(n, ks, "failed")
        BY <1>1, <1>3 DEF OnTick
    <2> QED BY <1>1, <2>1 DEF Settle
<1>4. ASSUME outcome' = outcome PROVE FALSE
    BY <1>1, <1>4
<1>5. CASE \/ \E n \in Publishers, t \in Topics, q \in Qos : Publish(n, t, q)
           \/ \E n \in Nodes, t \in Topics : MakeSubscriber(n, t)
           \/ \E n \in Nodes : Restart(n)
           \/ UNCHANGED vars
    BY <1>4, <1>5 DEF Publish, MakeSubscriber, Restart, vars
<1>6. ASSUME NEW d \in net,
             \/ IgnoreOwn(d) \/ DropTopicDuplicate(d) \/ DropSeenDuplicate(d)
             \/ Accept(d) \/ Lose(d) \/ Duplicate(d)
      PROVE  FALSE
    BY <1>4, <1>6 DEF IgnoreOwn, DropTopicDuplicate, DropSeenDuplicate, Accept, Lose,
                      Duplicate
<1> QED BY <1>2, <1>3, <1>5, <1>6 DEF Next, OnDatagram

(***************************************************************************)
(* AckSound for every value of the constants, when no publisher is         *)
(* restarted: an ACK that ackReceived takes for a message was sent by its  *)
(* receiver for that very message.                                         *)
(***************************************************************************)
THEOREM AcknowledgedWasAccepted ==
    ASSUME PublishersStayUp
    PROVE  Spec => []AckSound
<1>1. AckInv /\ [Next]_vars => AckInv'
    BY TypesNext, IdsNext, AcksNext, SoundNext DEF AckInv
<1>2. AckInv => AckSound
    BY DEF AckInv
<1> QED BY <1>1, <1>2, AckInit, PTL DEF Spec

-----------------------------------------------------------------------------
(***************************************************************************)
(* What is left of AckSound when publishers are restarted too: an ACK says *)
(* no more than publisher and id, so what is acknowledged is some message  *)
(* of that id, of this run or of an earlier one.                           *)
(***************************************************************************)
AckStandsForId ==
    \A o \in outcome : o.as = "acked" =>
        \E x \in receipts : /\ x.kept /\ x.node = o.receiver
                            /\ x.msg.pub = o.node /\ x.msg.mid = o.msg.mid

LEMMA StandsForIdNext ==
    ASSUME Types, AcksStandForReceipts, AckStandsForId, [Next]_vars
    PROVE  AckStandsForId'
<1> USE DEF coreVars, history, faults
<1> SUFFICES ASSUME NEW o \in outcome', o.as = "acked"
             PROVE  \E x \in receipts' : /\ x.kept /\ x.node = o.receiver
                                         /\ x.msg.pub = o.node /\ x.msg.mid = o.msg.mid
    BY DEF AckStandsForId
<1>1. CASE o \in outcome
    BY <1>1, ReceiptsGrow DEF AckStandsForId
<1>2. ASSUME NEW d \in net, ReceiveAck(d), o \notin outcome
      PROVE  \E x \in receipts : /\ x.kept /\ x.node = o.receiver
                                 /\ x.msg.pub = o.node /\ x.msg.mid = o.msg.mid
    <2> DEFINE k == <<d.mid, d.receiver>>
               m == pending[d.to][k].msg
    <2>1. d.to \in Nodes
        BY <1>2 DEF ReceiveAck, Types, DataPacket, AckPacket
    <2>2. /\ k \in DOMAIN pending[d.to]
          /\ o = [node |-> d.to, msg |-> m, receiver |-> k[2], as |-> "acked"]
        BY <1>2 DEF ReceiveAck, Confirmed, Settle
    <2>3. k[1] = d.mid /\ k[2] = d.receiver
        OBVIOUS
    <2>4. m.mid = d.mid
        BY <2>1, <2>2, <2>3 DEF Types, TableOK
    <2>5. PICK x \in receipts : /\ x.kept /\ x.node = d.receiver
                                /\ x.msg.pub = d.to /\ x.msg.mid = d.mid
        BY <1>2 DEF ReceiveAck, AcksStandForReceipts
    <2> HIDE DEF m, k
    <2> QED BY <2>2, <2>3, <2>4, <2>5
<1>3. ASSUME NEW n \in Nodes, OnTick(n) PROVE o \in outcome
    <2>1. \E ks : outcome' = outcome \cup Settle(n, ks, "failed")
        BY <1>3 DEF OnTick
    <2> QED BY <2>1 DEF Settle
<1>4. CASE \/ \E n \in Publishers, t \in Topics, q \in Qos : Publish(n, t, q)
           \/ \E n \in Nodes, t \in Topics : MakeSubscriber(n, t)
           \/ \E n \in Nodes : Restart(n)
           \/ UNCHANGED vars
    <2>1. outcome' = outcome
        BY <1>4 DEF Publish, MakeSubscriber, Restart, vars
    <2> QED BY <1>1, <2>1
<1>5. ASSUME NEW d \in net,
             \/ IgnoreOwn(d) \/ DropTopicDuplicate(d) \/ DropSeenDuplicate(d)
             \/ Accept(d) \/ Lose(d) \/ Duplicate(d)
      PROVE  outcome' = outcome
    BY <1>5 DEF IgnoreOwn, DropTopicDuplicate, DropSeenDuplicate, Accept, Lose, Duplicate
<1> QED BY <1>1, <1>2, <1>3, <1>4, <1>5, ReceiptsGrow DEF Next, OnDatagram

(***************************************************************************)
(* Whoever is restarted and whatever the network does, what ackReceived    *)
(* settles was accepted by that receiver under that publisher and id: all  *)
(* that the code promises, as the run stale_ack shows.                     *)
(***************************************************************************)
THEOREM AcknowledgedWasAnId == Spec => []AckStandsForId
<1> DEFINE Inv == Types /\ AcksStandForReceipts /\ AckStandsForId
<1>1. Init => Inv
    BY AckInit DEF AckInv, AckStandsForId, Init
<1>2. Inv /\ [Next]_vars => Inv'
    BY TypesNext, AcksNext, StandsForIdNext
<1>3. Inv => AckStandsForId
    OBVIOUS
<1> QED BY <1>1, <1>2, <1>3, PTL DEF Spec

=============================================================================
