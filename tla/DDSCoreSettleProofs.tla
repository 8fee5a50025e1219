------------------------ MODULE DDSCoreSettleProofs ------------------------
(***************************************************************************)
(* Theorems about DDSCore: a message is acknowledged or given up, not      *)
(* both, whoever is restarted; and the core's tables are RetryTables.      *)
(***************************************************************************)
EXTENDS DDSCoreProofs

(***************************************************************************)
(* What is in a table belongs to the process that runs; what was settled   *)
(* belongs to it or to a former one.  Ids below next_msg_id are used up.   *)
(***************************************************************************)
TrackedHere ==
    \A n \in Nodes : \A k \in DOMAIN pending[n] :
        /\ pending[n][k].msg.run = run[n]
        /\ pending[n][k].msg.mid < next_msg_id[n]

SettledHere ==
    \A o \in outcome :
        /\ o.node \in Nodes /\ o.msg \in Message /\ o.msg.pub = o.node
        /\ o.msg.run <= run[o.node]
        /\ o.msg.run = run[o.node] => o.msg.mid < next_msg_id[o.node]

(***************************************************************************)
(* What the running process settled for a receiver is not in its table.    *)
(***************************************************************************)
SettledIsGone ==
    \A o \in outcome : o.msg.run = run[o.node] =>
        <<o.msg.mid, o.receiver>> \notin DOMAIN pending[o.node]

SettleInv == Types /\ TrackedHere /\ SettledHere /\ SettledIsGone /\ SettledOnce

LEMMA SettleInit == Init => SettleInv
<1> SUFFICES ASSUME Init PROVE SettleInv
    OBVIOUS
<1>1. Types
    BY AckInit DEF AckInv
<1> QED BY <1>1 DEF Init, SettleInv, TrackedHere, SettledHere, SettledIsGone, SettledOnce, Empty

(***************************************************************************)
(* The steps that touch a table, the ids or what was settled.              *)
(***************************************************************************)
LEMMA TableSteps ==
    ASSUME [Next]_vars
    PROVE  \/ UNCHANGED <<pending, outcome, next_msg_id, run>>
           \/ \E n \in Publishers, t \in Topics, q \in Qos : Publish(n, t, q)
           \/ \E d \in net : ReceiveAck(d)
           \/ \E n \in Nodes : OnTick(n) \/ Restart(n)
<1> USE DEF coreVars, history, faults
<1>1. ASSUME NEW n \in Nodes, NEW t \in Topics, MakeSubscriber(n, t)
      PROVE  UNCHANGED <<pending, outcome, next_msg_id, run>>
    BY <1>1 DEF MakeSubscriber
<1>2. ASSUME NEW d \in net, \/ IgnoreOwn(d) \/ DropTopicDuplicate(d)
                            \/ DropSeenDuplicate(d) \/ Accept(d)
                            \/ Lose(d) \/ Duplicate(d)
      PROVE  UNCHANGED <<pending, outcome, next_msg_id, run>>
    BY <1>2 DEF IgnoreOwn, DropTopicDuplicate, DropSeenDuplicate, Accept, Lose, Duplicate
<1>3. CASE UNCHANGED vars
    BY <1>3 DEF vars
<1> QED BY <1>1, <1>2, <1>3 DEF Next, OnDatagram

(***************************************************************************)
(* An ACK and a tick do the same: they take keys out of one table and      *)
(* settle them one way.                                                    *)
(***************************************************************************)
LEMMA SettlingKeeps ==
    ASSUME SettleInv, Types', NEW n \in Nodes, NEW ks \in SUBSET DOMAIN pending[n], NEW as,
           outcome' = outcome \cup Settle(n, ks, as),
           UNCHANGED <<next_msg_id, run>>,
           DOMAIN pending'[n] = DOMAIN pending[n] \ ks,
           \A k \in DOMAIN pending'[n] : pending'[n][k].msg = pending[n][k].msg,
           \A o \in Nodes \ {n} : pending'[o] = pending[o]
    PROVE  SettleInv'
<1>1. \A o \in Nodes : \A k \in DOMAIN pending'[o] :
        /\ k \in DOMAIN pending[o] /\ pending'[o][k].msg = pending[o][k].msg
        /\ o = n => k \notin ks
    <2> SUFFICES ASSUME NEW o \in Nodes, NEW k \in DOMAIN pending'[o]
                 PROVE  /\ k \in DOMAIN pending[o] /\ pending'[o][k].msg = pending[o][k].msg
                        /\ o = n => k \notin ks
        OBVIOUS
    <2>1. CASE o = n
        <3>1. k \in DOMAIN pending'[n]
            BY <2>1
        <3>2. k \in DOMAIN pending[n] \ ks /\ pending'[n][k].msg = pending[n][k].msg
            BY <3>1
        <3> QED BY <2>1, <3>2
    <2>2. CASE o # n
        <3>1. pending'[o] = pending[o]
            BY <2>2
        <3> QED BY <2>2, <3>1
    <2> QED BY <2>1, <2>2
<1>2. \A o \in outcome' : o \notin outcome =>
        \E k \in ks : /\ o.node = n /\ o.msg = pending[n][k].msg
                      /\ o.receiver = k[2] /\ o.as = as
    <2> SUFFICES ASSUME NEW o \in outcome', o \notin outcome
                 PROVE  \E k \in ks : /\ o.node = n /\ o.msg = pending[n][k].msg
                                      /\ o.receiver = k[2] /\ o.as = as
        OBVIOUS
    <2>1. PICK k \in ks : o = [node |-> n, msg |-> pending[n][k].msg,
                               receiver |-> k[2], as |-> as]
        BY DEF Settle
    <2> QED BY <2>1
<1>3. \A o \in Nodes : \A k \in DOMAIN pending[o] :
        /\ k \in Nat \X Nodes /\ pending[o][k].msg \in Message
        /\ pending[o][k].msg.pub = o /\ pending[o][k].msg.mid = k[1]
    BY DEF SettleInv, Types, TableOK, Tracked
<1>4. TrackedHere'
    BY <1>1 DEF SettleInv, TrackedHere
<1>5. SettledHere'
    <2> SUFFICES ASSUME NEW o \in outcome'
                 PROVE  /\ o.node \in Nodes /\ o.msg \in Message /\ o.msg.pub = o.node
                        /\ o.msg.run <= run[o.node]
                        /\ o.msg.run = run[o.node] => o.msg.mid < next_msg_id[o.node]
        BY DEF SettledHere
    <2>1. CASE o \in outcome
        BY <2>1 DEF SettleInv, SettledHere
    <2>2. CASE o \notin outcome
        <3>1. PICK k \in ks : o.node = n /\ o.msg = pending[n][k].msg
            BY <1>2, <2>2
        <3>2. o.msg.run = run[n] /\ o.msg.mid < next_msg_id[n] /\ run[n] \in Nat
            BY <3>1 DEF SettleInv, TrackedHere, Types
        <3> QED BY <1>3, <3>1, <3>2
    <2> QED BY <2>1, <2>2
<1>6. SettledIsGone'
    <2> SUFFICES ASSUME NEW o \in outcome', o.msg.run = run[o.node],
                        <<o.msg.mid, o.receiver>> \in DOMAIN pending'[o.node]
                 PROVE  FALSE
        BY DEF SettledIsGone
    <2>1. o.node \in Nodes
        BY <1>5 DEF SettledHere
    <2>2. /\ <<o.msg.mid, o.receiver>> \in DOMAIN pending[o.node]
          /\ o.node = n => <<o.msg.mid, o.receiver>> \notin ks
        BY <1>1, <2>1
    <2>3. CASE o \in outcome
        BY <2>2, <2>3 DEF SettleInv, SettledIsGone
    <2>4. CASE o \notin outcome
        <3>1. PICK k \in ks : o.node = n /\ o.msg = pending[n][k].msg /\ o.receiver = k[2]
            BY <1>2, <2>4
        <3>2. o.msg.mid = k[1] /\ k \in Nat \X Nodes
            BY <1>3, <3>1
        <3>3. k = <<o.msg.mid, o.receiver>>
            BY <3>1, <3>2
        <3> QED BY <2>2, <3>1, <3>3
    <2> QED BY <2>3, <2>4
<1>7. \A o \in outcome, k \in ks : ~(o.msg = pending[n][k].msg /\ o.receiver = k[2])
    <2> SUFFICES ASSUME NEW o \in outcome, NEW k \in ks,
                        o.msg = pending[n][k].msg, o.receiver = k[2]
                 PROVE  FALSE
        OBVIOUS
    <2>1. /\ k \in DOMAIN pending[n] /\ k \in Nat \X Nodes
          /\ o.msg.pub = n /\ o.msg.mid = k[1]
        BY <1>3
    <2>2. o.node = n
        BY <2>1 DEF SettleInv, SettledHere
    <2>3. o.msg.run = run[n]
        BY <2>1 DEF SettleInv, TrackedHere
    <2>4. <<o.msg.mid, o.receiver>> = k
        BY <2>1
    <2> QED BY <2>1, <2>2, <2>3, <2>4 DEF SettleInv, SettledIsGone
<1>8. SettledOnce'
    <2> SUFFICES ASSUME NEW o \in outcome', NEW p \in outcome',
                        o.msg = p.msg, o.receiver = p.receiver
                 PROVE  o.as = p.as
        BY DEF SettledOnce
    <2>1. CASE o \in outcome /\ p \in outcome
        BY <2>1 DEF SettleInv, SettledOnce
    <2>2. CASE o \notin outcome /\ p \notin outcome
        <3>1. o.as = as
            BY <1>2, <2>2
        <3>2. p.as = as
            BY <1>2, <2>2
        <3> QED BY <3>1, <3>2
    <2>3. CASE o \in outcome /\ p \notin outcome
        <3>1. PICK k \in ks : p.msg = pending[n][k].msg /\ p.receiver = k[2]
            BY <1>2, <2>3
        <3>2. ~(o.msg = pending[n][k].msg /\ o.receiver = k[2])
            BY <1>7, <2>3
        <3> QED BY <3>1, <3>2
    <2>4. CASE o \notin outcome /\ p \in outcome
        <3>1. PICK k \in ks : o.msg = pending[n][k].msg /\ o.receiver = k[2]
            BY <1>2, <2>4
        <3>2. ~(p.msg = pending[n][k].msg /\ p.receiver = k[2])
            BY <1>7, <2>4
        <3> QED BY <3>1, <3>2
    <2> QED BY <2>1, <2>2, <2>3, <2>4
<1> QED BY <1>4, <1>5, <1>6, <1>8 DEF SettleInv

(***************************************************************************)
(* A publication is tracked under an id that nothing of this process that  *)
(* was tracked or settled had.                                             *)
(***************************************************************************)
LEMMA PublishKeeps ==
    ASSUME SettleInv, Types', NEW n \in Publishers, NEW t \in Topics, NEW q \in Qos,
           Publish(n, t, q)
    PROVE  SettleInv'
<1> DEFINE new == [pub |-> n, run |-> run[n], mid |-> next_msg_id[n],
                   topic |-> t, qos |-> q]
<1>1. /\ n \in Nodes /\ new.pub = n /\ new.run = run[n] /\ new.mid = next_msg_id[n]
      /\ run[n] \in Nat /\ \A o \in Nodes : next_msg_id[o] \in Nat
    BY NodesAssumption DEF SettleInv, Types
<1>2. /\ next_msg_id' = [next_msg_id EXCEPT ![n] = @ + 1]
      /\ UNCHANGED <<run, outcome>>
      /\ SendReliable(n, new) \/ Broadcast(new)
    BY DEF Publish, history, faults
<1>3. /\ next_msg_id'[n] = next_msg_id[n] + 1
      /\ \A o \in Nodes : next_msg_id'[o] >= next_msg_id[o] /\ next_msg_id'[o] \in Nat
    BY <1>1, <1>2 DEF SettleInv, Types
<1> HIDE DEF new
<1>4. \A o \in Nodes : \A k \in DOMAIN pending'[o] :
        \/ k \in DOMAIN pending[o] /\ pending'[o][k] = pending[o][k]
        \/ o = n /\ pending'[o][k].msg = new /\ k[1] = new.mid
    <2>1. CASE SendReliable(n, new)
        <3>1. PICK destPeers \in SUBSET (Nodes \ {n}) :
                pending' = [pending EXCEPT ![n] =
                  [k \in DOMAIN @ \cup {<<new.mid, r>> : r \in destPeers} |->
                    IF k \in DOMAIN @ THEN @[k]
                      ELSE [msg |-> new, retries_left |-> MaxRetries]]]
            BY <2>1 DEF SendReliable
        <3> QED BY <1>1, <3>1 DEF SettleInv, Types
    <2>2. CASE Broadcast(new)
        BY <2>2 DEF Broadcast
    <2> QED BY <1>2, <2>1, <2>2
<1>5. TrackedHere'
    <2> SUFFICES ASSUME NEW o \in Nodes, NEW k \in DOMAIN pending'[o]
                 PROVE  /\ pending'[o][k].msg.run = run[o]
                        /\ pending'[o][k].msg.mid < next_msg_id'[o]
        BY <1>2 DEF TrackedHere
    <2>1. CASE k \in DOMAIN pending[o] /\ pending'[o][k] = pending[o][k]
        <3>1. pending[o][k].msg.mid \in Nat
            BY <2>1 DEF SettleInv, Types, TableOK, Tracked, Message
        <3>2. /\ pending[o][k].msg.run = run[o]
              /\ pending[o][k].msg.mid < next_msg_id[o]
            BY <2>1 DEF SettleInv, TrackedHere
        <3> QED BY <1>1, <1>3, <2>1, <3>1, <3>2
    <2>2. CASE o = n /\ pending'[o][k].msg = new
        BY <1>1, <1>3, <2>2
    <2> QED BY <1>4, <2>1, <2>2
<1>6. SettledHere'
    <2> SUFFICES ASSUME NEW o \in outcome
                 PROVE  /\ o.node \in Nodes /\ o.msg \in Message /\ o.msg.pub = o.node
                        /\ o.msg.run <= run[o.node]
                        /\ o.msg.run = run[o.node] => o.msg.mid < next_msg_id'[o.node]
        BY <1>2 DEF SettledHere
    <2>1. o.msg.mid \in Nat
        BY DEF SettleInv, SettledHere, Message
    <2> QED BY <1>1, <1>3, <2>1 DEF SettleInv, SettledHere
<1>7. SettledIsGone'
    <2> SUFFICES ASSUME NEW o \in outcome, o.msg.run = run[o.node]
                 PROVE  <<o.msg.mid, o.receiver>> \notin DOMAIN pending'[o.node]
        BY <1>2 DEF SettledIsGone
    <2>1. /\ o.node \in Nodes /\ o.msg.mid \in Nat /\ o.msg.mid < next_msg_id[o.node]
          /\ <<o.msg.mid, o.receiver>> \notin DOMAIN pending[o.node]
        BY DEF SettleInv, SettledHere, SettledIsGone, Message
    <2>2. o.node = n => o.msg.mid # new.mid
        BY <1>1, <2>1
    <2> QED BY <1>4, <2>1, <2>2
<1>8. SettledOnce'
    BY <1>2 DEF SettleInv, SettledOnce
<1> QED BY <1>5, <1>6, <1>7, <1>8 DEF SettleInv

(***************************************************************************)
(* A process that starts again has nothing in its table, and what the      *)
(* former one settled bears its number.                                    *)
(***************************************************************************)
LEMMA RestartKeeps ==
    ASSUME SettleInv, Types', NEW n \in Nodes, Restart(n)
    PROVE  SettleInv'
<1>1. /\ outcome' = outcome
      /\ DOMAIN pending'[n] = {} /\ run'[n] = run[n] + 1 /\ run[n] \in Nat
      /\ \A o \in Nodes \ {n} : /\ pending'[o] = pending[o] /\ run'[o] = run[o]
                                /\ next_msg_id'[o] = next_msg_id[o]
    BY DEF Restart, SettleInv, Types, Empty
<1>2. TrackedHere'
    <2> SUFFICES ASSUME NEW o \in Nodes, NEW k \in DOMAIN pending'[o]
                 PROVE  /\ pending'[o][k].msg.run = run'[o]
                        /\ pending'[o][k].msg.mid < next_msg_id'[o]
        BY DEF TrackedHere
    <2> QED BY <1>1 DEF SettleInv, TrackedHere
<1>3. SettledHere'
    <2> SUFFICES ASSUME NEW o \in outcome
                 PROVE  /\ o.node \in Nodes /\ o.msg \in Message /\ o.msg.pub = o.node
                        /\ o.msg.run <= run'[o.node]
                        /\ o.msg.run = run'[o.node] => o.msg.mid < next_msg_id'[o.node]
        BY <1>1 DEF SettledHere
    <2>1. /\ o.node \in Nodes /\ o.msg \in Message /\ o.msg.pub = o.node
          /\ o.msg.run <= run[o.node]
          /\ o.msg.run = run[o.node] => o.msg.mid < next_msg_id[o.node]
        BY DEF SettleInv, SettledHere
    <2>2. o.msg.run \in Nat
        BY <2>1 DEF Message
    <2>3. CASE o.node = n
        BY <1>1, <2>1, <2>2, <2>3
    <2>4. CASE o.node # n
        BY <1>1, <2>1, <2>4
    <2> QED BY <2>3, <2>4
<1>4. SettledIsGone'
    <2> SUFFICES ASSUME NEW o \in outcome, o.msg.run = run'[o.node]
                 PROVE  <<o.msg.mid, o.receiver>> \notin DOMAIN pending'[o.node]
        BY <1>1 DEF SettledIsGone
    <2> QED BY <1>1 DEF SettleInv, SettledHere, SettledIsGone
<1>5. SettledOnce'
    BY <1>1 DEF SettleInv, SettledOnce
<1> QED BY <1>2, <1>3, <1>4, <1>5 DEF SettleInv

LEMMA SettleNext == SettleInv /\ [Next]_vars => SettleInv'
<1> SUFFICES ASSUME SettleInv, [Next]_vars PROVE SettleInv'
    OBVIOUS
<1>0. Types'
    BY TypesNext DEF SettleInv
<1>1. ASSUME NEW d \in net, ReceiveAck(d) PROVE SettleInv'
    <2> DEFINE n == d.to
               ks == Confirmed(d)
    <2>1. n \in Nodes
        BY DEF SettleInv, Types, DataPacket, AckPacket
    <2>2. ks \in SUBSET DOMAIN pending[n]
        BY DEF Confirmed
    <2>3. pending' = [pending EXCEPT ![n] = [k \in DOMAIN @ \ ks |-> @[k]]]
        BY <1>1 DEF ReceiveAck
    <2>4. /\ outcome' = outcome \cup Settle(n, ks, "acked")
          /\ UNCHANGED <<next_msg_id, run>>
        BY <1>1 DEF ReceiveAck, faults
    <2> HIDE DEF n, ks
    <2>5. /\ DOMAIN pending'[n] = DOMAIN pending[n] \ ks
          /\ \A k \in DOMAIN pending'[n] : pending'[n][k].msg = pending[n][k].msg
          /\ \A o \in Nodes \ {n} : pending'[o] = pending[o]
        BY <2>1, <2>3 DEF SettleInv, Types
    <2> QED BY <1>0, <2>1, <2>2, <2>4, <2>5, SettlingKeeps
<1>2. ASSUME NEW n \in Nodes, OnTick(n) PROVE SettleInv'
    <2>1. PICK due \in SUBSET DOMAIN pending[n] \ {{}} :
            LET again == {k \in due : HasBudget(n, k)}
                spent == due \ again
            IN  /\ pending' = [pending EXCEPT ![n] = AfterTick(n, again, spent)]
                /\ outcome' = outcome \cup Settle(n, spent, "failed")
        BY <1>2 DEF OnTick
    <2> DEFINE again == {k \in due : HasBudget(n, k)}
               spent == due \ again
    <2>2. /\ UNCHANGED <<next_msg_id, run>> /\ spent \in SUBSET DOMAIN pending[n]
        BY <1>2 DEF OnTick, faults
    <2>3. \A k \in DOMAIN pending[n] : pending[n][k] \in Tracked
        BY DEF SettleInv, Types, TableOK
    <2>4. /\ pending'[n] = AfterTick(n, again, spent)
          /\ \A o \in Nodes \ {n} : pending'[o] = pending[o]
        BY <2>1 DEF SettleInv, Types
    <2>5. outcome' = outcome \cup Settle(n, spent, "failed")
        BY <2>1
    <2> HIDE DEF again, spent
    <2>6. /\ DOMAIN pending'[n] = DOMAIN pending[n] \ spent
          /\ \A k \in DOMAIN pending'[n] : pending'[n][k].msg = pending[n][k].msg
        BY <2>3, <2>4 DEF AfterTick, Tracked
    <2> QED BY <1>0, <2>2, <2>4, <2>5, <2>6, SettlingKeeps
<1>3. CASE UNCHANGED <<pending, outcome, next_msg_id, run>>
    BY <1>0, <1>3 DEF SettleInv, TrackedHere, SettledHere, SettledIsGone, SettledOnce
<1> QED BY <1>0, <1>1, <1>2, <1>3, PublishKeeps, RestartKeeps, TableSteps

(***************************************************************************)
(* SettledOnce for every network, any publishers and any restarts: an ACK  *)
(* that comes while or after the last attempt times out never makes a      *)
(* message both acknowledged and given up.                                 *)
(***************************************************************************)
THEOREM SettledOneWay == Spec => []SettledOnce
<1>1. SettleInv => SettledOnce
    BY DEF SettleInv
<1> QED BY <1>1, SettleInit, SettleNext, PTL DEF Spec

-----------------------------------------------------------------------------
(***************************************************************************)
(* Refinement: the table of a running process, seen for one receiver, is a *)
(* RetryTable.  What a process settled it has settled under the key the    *)
(* message was tracked by.                                                 *)
(***************************************************************************)
LEMMA PendingIsUnsettled ==
    ASSUME SettleInv, NEW n \in Nodes, NEW k \in DOMAIN pending[n], NEW as
    PROVE  ~SettledAs(n, k, as)
<1> SUFFICES ASSUME NEW o \in outcome, o.node = n, o.msg.run = run[n],
                    o.msg.mid = k[1], o.receiver = k[2]
             PROVE  FALSE
    BY DEF SettledAs
<1>1. k \in Nat \X Nodes
    BY DEF SettleInv, Types, TableOK
<1>2. <<o.msg.mid, o.receiver>> = k
    BY <1>1
<1> QED BY <1>2 DEF SettleInv, SettledIsGone

LEMMA SettledByStep ==
    ASSUME SettleInv, NEW n \in Nodes, run'[n] = run[n], NEW m \in Nodes,
           NEW ks \in SUBSET DOMAIN pending[m], NEW was,
           outcome' = outcome \cup Settle(m, ks, was)
    PROVE  \A k \in Nat \X Nodes : \A as :
               SettledAs(n, k, as)' <=> SettledAs(n, k, as) \/ (m = n /\ k \in ks /\ as = was)
<1> DEFINE settled(j) == [node |-> m, msg |-> pending[m][j].msg, receiver |-> j[2], as |-> was]
<1>1. \A j \in ks : /\ j \in Nat \X Nodes /\ pending[m][j].msg.mid = j[1]
                    /\ pending[m][j].msg.run = run[m]
    BY DEF SettleInv, Types, TableOK, TrackedHere
<1>2. outcome' = outcome \cup {settled(j) : j \in ks}
    BY DEF Settle
<1>3. \A j \in ks : /\ settled(j).node = m /\ settled(j).msg.run = run[m]
                    /\ settled(j).msg.mid = j[1] /\ settled(j).receiver = j[2]
                    /\ settled(j).as = was
    BY <1>1
<1> HIDE DEF settled
<1> TAKE k \in Nat \X Nodes
<1> TAKE as
<1>4. ASSUME SettledAs(n, k, as)' PROVE SettledAs(n, k, as) \/ (m = n /\ k \in ks /\ as = was)
    <2>1. PICK o \in outcome' : /\ o.node = n /\ o.msg.run = run[n] /\ o.msg.mid = k[1]
                                /\ o.receiver = k[2] /\ o.as = as
        BY <1>4 DEF SettledAs
    <2>2. CASE o \in outcome
        BY <2>1, <2>2 DEF SettledAs
    <2>3. CASE o \notin outcome
        <3>1. PICK j \in ks : o = settled(j)
            BY <1>2, <2>3
        <3>2. j[1] = k[1] /\ j[2] = k[2] /\ m = n /\ as = was
            BY <1>3, <2>1, <3>1
        <3>3. j = k
            BY <1>1, <3>2
        <3> QED BY <3>2, <3>3
    <2> QED BY <2>2, <2>3
<1>5. ASSUME SettledAs(n, k, as) PROVE SettledAs(n, k, as)'
    BY <1>2, <1>5 DEF SettledAs
<1>6. ASSUME m = n, k \in ks, as = was PROVE SettledAs(n, k, as)'
    <2>1. settled(k) \in outcome'
        BY <1>2, <1>6
    <2> QED BY <1>3, <1>6, <2>1 DEF SettledAs
<1> QED BY <1>4, <1>5, <1>6

LEMMA TableUnmoved ==
    ASSUME NEW n \in Nodes, NEW r \in Nodes, pending'[n] = pending[n],
           \A k \in KeysFor(r) : \A as : SettledAs(n, k, as)' <=> SettledAs(n, k, as)
    PROVE  UNCHANGED Table(n, r)!vars
<1>1. \A k \in KeysFor(r) : FateOf(n, k)' = FateOf(n, k) /\ LeftOf(n, k)' = LeftOf(n, k)
    BY DEF FateOf, LeftOf
<1> QED BY <1>1 DEF Table!vars, KeysFor

LEMMA TableInit == Init => \A n \in Publishers, r \in Nodes : Table(n, r)!Init
<1> SUFFICES ASSUME Init, NEW n \in Publishers, NEW r \in Nodes
             PROVE  Table(n, r)!Init
    OBVIOUS
<1>1. pending[n] = Empty /\ outcome = {}
    BY NodesAssumption DEF Init
<1> QED BY <1>1 DEF Table!Init, FateOf, LeftOf, SettledAs, Empty

(***************************************************************************)
(* A publication starts at most one key of a receiver.                     *)
(***************************************************************************)
LEMMA PublishStarts ==
    ASSUME SettleInv, Types', NEW p \in Publishers, NEW t \in Topics, NEW q \in Qos,
           Publish(p, t, q), NEW n \in Publishers, NEW r \in Nodes
    PROVE  Table(n, r)!Next \/ UNCHANGED Table(n, r)!vars
<1> DEFINE new == [pub |-> p, run |-> run[p], mid |-> next_msg_id[p],
                   topic |-> t, qos |-> q]
<1>1. /\ n \in Nodes /\ p \in Nodes /\ new.mid = next_msg_id[p] /\ new.mid \in Nat
      /\ UNCHANGED <<outcome, run>>
      /\ SendReliable(p, new) \/ Broadcast(new)
    BY NodesAssumption DEF Publish, history, faults, SettleInv, Types
<1> HIDE DEF new
<1>2. \A k, as : SettledAs(n, k, as)' <=> SettledAs(n, k, as)
    BY <1>1 DEF SettledAs
<1>3. CASE pending'[n] = pending[n]
    BY <1>1, <1>2, <1>3, TableUnmoved
<1>4. CASE pending'[n] # pending[n]
    <2>1. p = n /\ SendReliable(p, new)
        BY <1>1, <1>4 DEF SendReliable, Broadcast, SettleInv, Types
    <2>2. PICK destPeers \in SUBSET (Nodes \ {n}) :
            pending' = [pending EXCEPT ![n] =
              [k \in DOMAIN @ \cup {<<new.mid, x>> : x \in destPeers} |->
                IF k \in DOMAIN @ THEN @[k]
                  ELSE [msg |-> new, retries_left |-> MaxRetries]]]
        BY <2>1 DEF SendReliable
    <2>3. /\ DOMAIN pending'[n] = DOMAIN pending[n] \cup {<<new.mid, x>> : x \in destPeers}
          /\ \A k \in DOMAIN pending[n] : pending'[n][k] = pending[n][k]
          /\ \A k \in DOMAIN pending'[n] \ DOMAIN pending[n] :
                pending'[n][k].retries_left = MaxRetries
        BY <1>1, <2>2 DEF SettleInv, Types
    <2>4. PICK key \in Nat \X Nodes : key[1] = new.mid /\ key[2] = r /\ key = <<new.mid, r>>
        BY <1>1
    <2>5. \A k \in KeysFor(r) \ {key} : /\ FateOf(n, k)' = FateOf(n, k)
                                        /\ LeftOf(n, k)' = LeftOf(n, k)
        <3> SUFFICES ASSUME NEW k \in KeysFor(r) \ {key}
                     PROVE  /\ FateOf(n, k)' = FateOf(n, k)
                            /\ LeftOf(n, k)' = LeftOf(n, k)
            OBVIOUS
        <3>1. k \in DOMAIN pending'[n] <=> k \in DOMAIN pending[n]
            BY <2>3, <2>4 DEF KeysFor
        <3> QED BY <1>2, <2>3, <3>1 DEF FateOf, LeftOf
    <2>6. CASE key \in KeysFor(r) /\ r \in destPeers
        <3>1. key \notin DOMAIN pending[n]
            <4>1. \A k \in DOMAIN pending[n] : k[1] < next_msg_id[n] /\ k[1] \in Nat
                BY <1>1 DEF SettleInv, Types, TableOK, TrackedHere
            <4> QED BY <1>1, <2>1, <2>4, <4>1
        <3>2. \A as : ~SettledAs(n, key, as)
            <4>1. \A o \in outcome : /\ o.msg.mid \in Nat
                                     /\ o.node = n /\ o.msg.run = run[n] =>
                                          o.msg.mid < next_msg_id[n]
                BY DEF SettleInv, SettledHere, Message
            <4>2. next_msg_id[n] = key[1] /\ key[1] \in Nat
                BY <1>1, <2>1, <2>4
            <4>3. \A o \in outcome : ~(o.node = n /\ o.msg.run = run[n] /\ o.msg.mid = key[1])
                BY <4>1, <4>2
            <4> QED BY <4>3 DEF SettledAs
        <3>3. key \in DOMAIN pending'[n]
            BY <2>3, <2>4, <2>6
        <3>4. FateOf(n, key) = "untracked" /\ FateOf(n, key)' = "pending"
            BY <3>1, <3>2, <3>3 DEF FateOf
        <3>5. LeftOf(n, key)' = MaxRetries
            BY <2>3, <3>1, <3>3 DEF LeftOf
        <3>6. Table(n, r)!Start(key)
            BY <2>5, <2>6, <3>4, <3>5 DEF Table!Start
        <3> QED BY <2>6, <3>6 DEF Table!Next
    <2>7. CASE ~(key \in KeysFor(r) /\ r \in destPeers)
        <3>1. \A k \in KeysFor(r) : /\ FateOf(n, k)' = FateOf(n, k)
                                    /\ LeftOf(n, k)' = LeftOf(n, k)
            <4> SUFFICES ASSUME key \in KeysFor(r)
                         PROVE  /\ FateOf(n, key)' = FateOf(n, key)
                                /\ LeftOf(n, key)' = LeftOf(n, key)
                BY <2>5
            <4>1. key \in DOMAIN pending'[n] <=> key \in DOMAIN pending[n]
                BY <2>3, <2>4, <2>7
            <4> QED BY <1>2, <2>3, <4>1 DEF FateOf, LeftOf
        <3> QED BY <3>1 DEF Table!vars
    <2> QED BY <2>6, <2>7
<1> QED BY <1>3, <1>4

(***************************************************************************)
(* An ACK confirms at most one key, and a tick serves those of the keys of *)
(* a receiver that are due.                                                *)
(***************************************************************************)
LEMMA AckConfirms ==
    ASSUME SettleInv, NEW d \in net, ReceiveAck(d), NEW n \in Publishers, NEW r \in Nodes
    PROVE  Table(n, r)!Next \/ UNCHANGED Table(n, r)!vars
<1> DEFINE m == d.to
           ks == Confirmed(d)
<1>1. m \in Nodes /\ n \in Nodes /\ ks \in SUBSET DOMAIN pending[m]
    BY NodesAssumption DEF SettleInv, Types, DataPacket, AckPacket, Confirmed
<1>2. /\ pending' = [pending EXCEPT ![m] = [k \in DOMAIN @ \ ks |-> @[k]]]
      /\ outcome' = outcome \cup Settle(m, ks, "acked")
      /\ UNCHANGED run
    BY DEF ReceiveAck, faults
<1>3. \A j, k \in ks : j = k
    BY DEF Confirmed
<1> HIDE DEF m, ks
<1>4. \A k \in Nat \X Nodes : \A as :
        SettledAs(n, k, as)' <=> SettledAs(n, k, as) \/ (m = n /\ k \in ks /\ as = "acked")
    BY <1>1, <1>2, SettledByStep
<1>5. KeysFor(r) \subseteq Nat \X Nodes
    BY DEF KeysFor
<1>6. CASE ~(m = n /\ ks \cap KeysFor(r) # {})
    <2>1. \A k \in KeysFor(r) : k \in DOMAIN pending'[n] <=> k \in DOMAIN pending[n]
        BY <1>1, <1>2, <1>6 DEF SettleInv, Types
    <2>2. \A k \in DOMAIN pending'[n] : pending'[n][k] = pending[n][k]
        BY <1>1, <1>2 DEF SettleInv, Types
    <2>3. \A k \in KeysFor(r) : \A as : SettledAs(n, k, as)' <=> SettledAs(n, k, as)
        BY <1>4, <1>5, <1>6
    <2>4. \A k \in KeysFor(r) : FateOf(n, k)' = FateOf(n, k) /\ LeftOf(n, k)' = LeftOf(n, k)
        BY <2>1, <2>2, <2>3 DEF FateOf, LeftOf
    <2> QED BY <2>4 DEF Table!vars
<1>7. CASE m = n /\ ks \cap KeysFor(r) # {}
    <2>1. PICK key : key \in ks /\ key \in KeysFor(r)
        BY <1>7
    <2>2. ks = {key}
        BY <1>3, <2>1
    <2>3. /\ key \in DOMAIN pending[n] /\ DOMAIN pending'[n] = DOMAIN pending[n] \ {key}
          /\ \A k \in DOMAIN pending'[n] : pending'[n][k] = pending[n][k]
        BY <1>1, <1>2, <1>7, <2>1, <2>2 DEF SettleInv, Types
    <2>4. key \notin DOMAIN pending'[n] /\ SettledAs(n, key, "acked")'
        BY <1>4, <1>5, <1>7, <2>1, <2>3
    <2>5. FateOf(n, key) = "pending" /\ FateOf(n, key)' = "acked" /\ LeftOf(n, key)' = 0
        BY <2>3, <2>4 DEF FateOf, LeftOf
    <2>6. \A k \in KeysFor(r) \ {key} : /\ FateOf(n, k)' = FateOf(n, k)
                                        /\ LeftOf(n, k)' = LeftOf(n, k)
        BY <1>4, <1>5, <2>2, <2>3 DEF FateOf, LeftOf
    <2>7. Table(n, r)!Confirm(key)
        BY <2>1, <2>5, <2>6 DEF Table!Confirm
    <2> QED BY <2>1, <2>7 DEF Table!Next
<1> QED BY <1>6, <1>7

LEMMA TickExpires ==
    ASSUME SettleInv, NEW m \in Nodes, OnTick(m), NEW n \in Publishers, NEW r \in Nodes
    PROVE  Table(n, r)!Next \/ UNCHANGED Table(n, r)!vars
<1>1. PICK due \in SUBSET DOMAIN pending[m] \ {{}} :
        LET again == {k \in due : HasBudget(m, k)}
            spent == due \ again
        IN  /\ pending' = [pending EXCEPT ![m] = AfterTick(m, again, spent)]
            /\ outcome' = outcome \cup Settle(m, spent, "failed")
    BY DEF OnTick
<1>2. PICK again \in SUBSET due : again = {k \in due : HasBudget(m, k)}
    OBVIOUS
<1>3. PICK spent \in SUBSET due : spent = due \ again
    OBVIOUS
<1>4. /\ n \in Nodes /\ spent \in SUBSET DOMAIN pending[m] /\ UNCHANGED run
      /\ pending' = [pending EXCEPT ![m] = AfterTick(m, again, spent)]
      /\ outcome' = outcome \cup Settle(m, spent, "failed")
    BY <1>1, <1>2, <1>3, NodesAssumption DEF OnTick, faults
<1>5. \A k \in Nat \X Nodes : \A as :
        SettledAs(n, k, as)' <=> SettledAs(n, k, as) \/ (m = n /\ k \in spent /\ as = "failed")
    BY <1>4, SettledByStep
<1>6. KeysFor(r) \subseteq Nat \X Nodes
    BY DEF KeysFor
<1>7. CASE m # n
    <2>1. pending'[n] = pending[n]
        BY <1>4, <1>7 DEF SettleInv, Types
    <2>2. \A k \in KeysFor(r) : \A as : SettledAs(n, k, as)' <=> SettledAs(n, k, as)
        BY <1>5, <1>6, <1>7
    <2> QED BY <1>4, <2>1, <2>2, TableUnmoved
<1>8. CASE m = n
    <2>1. \A k \in DOMAIN pending[n] : pending[n][k] \in Tracked
        BY <1>4 DEF SettleInv, Types, TableOK
    <2>2. /\ DOMAIN pending'[n] = DOMAIN pending[n] \ spent
          /\ \A k \in DOMAIN pending'[n] :
                pending'[n][k].retries_left = IF k \in again THEN pending[n][k].retries_left - 1
                                                             ELSE pending[n][k].retries_left
        <3>1. pending'[n] = AfterTick(n, again, spent)
            BY <1>4, <1>8 DEF SettleInv, Types
        <3> QED BY <2>1, <3>1 DEF AfterTick, Tracked
    <2>3. \A k \in due : /\ k \in again <=> pending[n][k].retries_left > 0
                         /\ pending[n][k].retries_left \in Nat
                         /\ k \in spent <=> k \notin again
        BY <1>2, <1>3, <1>8, <2>1, SettingsAssumption DEF HasBudget, Tracked
    <2>4. PICK D \in SUBSET KeysFor(r) : D = due \cap KeysFor(r)
        OBVIOUS
    <2>5. \A k \in KeysFor(r) : k \in DOMAIN pending[n] => ~SettledAs(n, k, "acked")
        BY <1>4, PendingIsUnsettled
    <2>6. \A k \in KeysFor(r) :
            /\ SettledAs(n, k, "acked")' <=> SettledAs(n, k, "acked")
            /\ SettledAs(n, k, "failed")' <=> SettledAs(n, k, "failed") \/ k \in spent
        BY <1>5, <1>6, <1>8
    <2>7. \A k \in KeysFor(r) \cap spent :
            /\ k \in D /\ k \in DOMAIN pending[n] /\ LeftOf(n, k) = 0
            /\ k \notin DOMAIN pending'[n]
        <3> TAKE k \in KeysFor(r) \cap spent
        <3>1. /\ k \in due /\ k \in DOMAIN pending[n] /\ k \notin again
              /\ k \notin DOMAIN pending'[n]
            BY <1>1, <1>3, <1>8, <2>2, <2>3
        <3>2. pending[n][k].retries_left = 0
            BY <2>3, <3>1
        <3> QED BY <2>4, <3>1, <3>2 DEF LeftOf
    <2>8. \A k \in KeysFor(r) :
            FateOf(n, k)' = IF k \in D /\ LeftOf(n, k) = 0 THEN "failed" ELSE FateOf(n, k)
        <3> TAKE k \in KeysFor(r)
        <3>1. CASE k \in spent
            BY <2>5, <2>6, <2>7, <3>1 DEF FateOf
        <3>2. CASE k \notin spent
            <4>1. ~(k \in D /\ LeftOf(n, k) = 0)
                BY <1>1, <1>8, <2>3, <2>4, <3>2 DEF LeftOf
            <4>2. k \in DOMAIN pending'[n] <=> k \in DOMAIN pending[n]
                BY <2>2, <3>2
            <4> QED BY <2>6, <3>2, <4>1, <4>2 DEF FateOf
        <3> QED BY <3>1, <3>2
    <2>9. \A k \in KeysFor(r) :
            LeftOf(n, k)' = IF k \in D /\ LeftOf(n, k) > 0 THEN LeftOf(n, k) - 1 ELSE LeftOf(n, k)
        <3> TAKE k \in KeysFor(r)
        <3>1. CASE k \in spent
            BY <2>7, <3>1 DEF LeftOf
        <3>2. CASE k \in again
            <4>1. /\ k \in D /\ k \in DOMAIN pending[n] /\ LeftOf(n, k) > 0
                  /\ k \in DOMAIN pending'[n]
                BY <1>1, <1>8, <2>2, <2>3, <2>4, <3>2 DEF LeftOf
            <4> QED BY <2>2, <3>2, <4>1 DEF LeftOf
        <3>3. CASE k \notin spent /\ k \notin again
            <4>1. k \notin D
                BY <2>3, <2>4, <3>3
            <4>2. k \in DOMAIN pending'[n] <=> k \in DOMAIN pending[n]
                BY <2>2, <3>3
            <4> QED BY <2>2, <3>3, <4>1, <4>2 DEF LeftOf
        <3> QED BY <3>1, <3>2, <3>3
    <2>10. D \in SUBSET Table(n, r)!Pending
        BY <1>1, <1>8, <2>4 DEF Table!Pending, FateOf
    <2>11. Table(n, r)!Expire(D)
        BY <2>4, <2>8, <2>9 DEF Table!Expire
    <2> QED BY <2>10, <2>11 DEF Table!Next
<1> QED BY <1>7, <1>8

(***************************************************************************)
(* A process that starts again has an empty table and has settled nothing. *)
(***************************************************************************)
LEMMA RestartEmpties ==
    ASSUME SettleInv, NEW m \in Nodes, Restart(m), NEW n \in Publishers, NEW r \in Nodes
    PROVE  IF run'[n] = run[n] THEN UNCHANGED Table(n, r)!vars ELSE Table(n, r)!Init'
<1>1. /\ n \in Nodes /\ outcome' = outcome /\ run[n] \in Nat
      /\ m = n => pending'[n] = Empty /\ run'[n] = run[n] + 1
      /\ m # n => pending'[n] = pending[n] /\ run'[n] = run[n]
    BY NodesAssumption DEF Restart, SettleInv, Types
<1>2. CASE m # n
    <2>1. \A k \in KeysFor(r) : \A as : SettledAs(n, k, as)' <=> SettledAs(n, k, as)
        BY <1>1, <1>2 DEF SettledAs
    <2> QED BY <1>1, <1>2, <2>1, TableUnmoved
<1>3. CASE m = n
    <2>1. \A o \in outcome : o.node = n => o.msg.run # run'[n]
        <3> SUFFICES ASSUME NEW o \in outcome, o.node = n PROVE o.msg.run # run'[n]
            OBVIOUS
        <3>1. o.msg.run \in Nat /\ o.msg.run <= run[n]
            BY DEF SettleInv, SettledHere, Message
        <3> QED BY <1>1, <1>3, <3>1
    <2>2. \A k \in KeysFor(r) : \A as : ~SettledAs(n, k, as)'
        BY <1>1, <2>1 DEF SettledAs
    <2> QED BY <1>1, <1>3, <2>2 DEF Table!Init, FateOf, LeftOf, Empty
<1> QED BY <1>2, <1>3

LEMMA TableNext ==
    SettleInv /\ [Next]_vars =>
        [\A n \in Publishers, r \in Nodes :
            IF run'[n] = run[n]
              THEN Table(n, r)!Next \/ UNCHANGED Table(n, r)!vars
              ELSE Table(n, r)!Init']_vars
<1> SUFFICES ASSUME SettleInv, [Next]_vars, NEW n \in Publishers, NEW r \in Nodes
             PROVE  IF run'[n] = run[n]
                      THEN Table(n, r)!Next \/ UNCHANGED Table(n, r)!vars
                      ELSE Table(n, r)!Init'
    OBVIOUS
<1>0. Types' /\ n \in Nodes
    BY TypesNext, NodesAssumption DEF SettleInv
<1>1. CASE UNCHANGED <<pending, outcome, next_msg_id, run>>
    <2>1. \A k \in KeysFor(r) : \A as : SettledAs(n, k, as)' <=> SettledAs(n, k, as)
        BY <1>1 DEF SettledAs
    <2> QED BY <1>0, <1>1, <2>1, TableUnmoved
<1>2. ASSUME NEW p \in Publishers, NEW t \in Topics, NEW q \in Qos, Publish(p, t, q)
      PROVE  run'[n] = run[n] /\ (Table(n, r)!Next \/ UNCHANGED Table(n, r)!vars)
    BY <1>0, <1>2, PublishStarts DEF Publish, faults
<1>3. ASSUME NEW d \in net, ReceiveAck(d)
      PROVE  run'[n] = run[n] /\ (Table(n, r)!Next \/ UNCHANGED Table(n, r)!vars)
    BY <1>3, AckConfirms DEF ReceiveAck, faults
<1>4. ASSUME NEW m \in Nodes, OnTick(m)
      PROVE  run'[n] = run[n] /\ (Table(n, r)!Next \/ UNCHANGED Table(n, r)!vars)
    BY <1>4, TickExpires DEF OnTick, faults
<1>5. ASSUME NEW m \in Nodes, Restart(m)
      PROVE  IF run'[n] = run[n] THEN UNCHANGED Table(n, r)!vars ELSE Table(n, r)!Init'
    BY <1>5, RestartEmpties
<1> QED BY <1>1, <1>2, <1>3, <1>4, <1>5, TableSteps

(***************************************************************************)
(* Every running process of the core, for each receiver, keeps a table as  *)
(* RetryTable specifies it, which AckManager implements: any publications, *)
(* ACKs of any process, ticks and restarts are steps of that table.        *)
(***************************************************************************)
THEOREM CoreKeepsTables ==
    Spec => /\ \A n \in Publishers, r \in Nodes : Table(n, r)!Init
            /\ TablesAsPromised
BY TableInit, TableNext, SettleInit, SettleNext, PTL DEF Spec, TablesAsPromised

=============================================================================
