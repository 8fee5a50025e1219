------------------------- MODULE DDSCoreDedupProofs -------------------------
(***************************************************************************)
(* Theorems about de-duplication in DDSCore: how soon a message may be     *)
(* accepted again, and that nothing but duplicates is dropped.             *)
(***************************************************************************)
EXTENDS DDSCoreProofs, SequenceTheorems

DedupKeys == Nodes \X Topics \X Nat

DedupTypes ==
    /\ seenMessages \in [Nodes -> Seq(DedupKeys)]
    /\ accepted \in [Nodes -> Seq(DedupKeys)]
    /\ perTopicDedup \in [Nodes -> [Topics -> SUBSET Nat]]

(***************************************************************************)
(* The steps that touch the de-duplication state or the receipts.          *)
(***************************************************************************)
LEMMA DedupSteps ==
    ASSUME [Next]_vars
    PROVE  \/ UNCHANGED <<perTopicDedup, seenMessages, accepted, receipts>>
           \/ \E n \in Nodes : Restart(n)
           \/ \E d \in net : Accept(d) \/ DropSeenDuplicate(d) \/ DropTopicDuplicate(d)
<1> USE DEF coreVars, history
<1>1. ASSUME NEW n \in Publishers, NEW t \in Topics, NEW q \in Qos, Publish(n, t, q)
      PROVE  UNCHANGED <<perTopicDedup, seenMessages, accepted, receipts>>
    BY <1>1 DEF Publish
<1>2. ASSUME NEW n \in Nodes, NEW t \in Topics, MakeSubscriber(n, t)
      PROVE  UNCHANGED <<perTopicDedup, seenMessages, accepted, receipts>>
    BY <1>2 DEF MakeSubscriber
<1>3. ASSUME NEW d \in net, IgnoreOwn(d) \/ ReceiveAck(d) \/ Lose(d) \/ Duplicate(d)
      PROVE  UNCHANGED <<perTopicDedup, seenMessages, accepted, receipts>>
    BY <1>3 DEF IgnoreOwn, ReceiveAck, Lose, Duplicate
<1>4. ASSUME NEW n \in Nodes, OnTick(n)
      PROVE  UNCHANGED <<perTopicDedup, seenMessages, accepted, receipts>>
    BY <1>4 DEF OnTick
<1>5. CASE UNCHANGED vars
    BY <1>5 DEF vars
<1> QED BY <1>1, <1>2, <1>3, <1>4, <1>5 DEF Next, OnDatagram

\* What is known of a data packet that is being handled.
LEMMA ArrivedTypes ==
    ASSUME Types, NEW d \in net, Arrives(d)
    PROVE  /\ d.to \in Nodes /\ d.msg \in Message
           /\ d.msg.pub \in Nodes /\ d.msg.topic \in Topics /\ d.msg.mid \in Nat
           /\ DedupKey(d.msg) \in DedupKeys
<1>1. d \in DataPacket
    BY DEF Types, Arrives, DataPacket, AckPacket
<1>2. d.to \in Nodes /\ d.msg \in Message
    BY <1>1 DEF DataPacket
<1> QED BY <1>2 DEF Message, DedupKey, DedupKeys

-----------------------------------------------------------------------------
(***************************************************************************)
(* The buffer is a window on what was accepted: its latest entries, as     *)
(* many as fit.                                                            *)
(***************************************************************************)
Window(seen, acc) ==
    /\ Len(seen) <= Len(acc)
    /\ Len(seen) <= DedupCap
    /\ Len(seen) < DedupCap => Len(seen) = Len(acc)
    /\ \A i \in 1 .. Len(seen) : seen[i] = acc[Len(acc) - Len(seen) + i]

FarApart(acc) ==
    \A i, j \in 1 .. Len(acc) : i < j /\ acc[i] = acc[j] => j - i > DedupCap

WindowInv ==
    \A n \in Nodes : Window(seenMessages[n], accepted[n]) /\ FarApart(accepted[n])

(***************************************************************************)
(* LRUInsert of a key that the buffer does not contain moves the window by *)
(* one, and the key's last acceptance is further back than the capacity.   *)
(***************************************************************************)
LEMMA AppendIs ==
    ASSUME NEW K, NEW s \in Seq(K), NEW e \in K
    PROVE  /\ Append(s, e) \in Seq(K)
           /\ Len(Append(s, e)) = Len(s) + 1 /\ Len(s) \in Nat
           /\ \A i \in 1 .. Len(s) : Append(s, e)[i] = s[i]
           /\ Append(s, e)[Len(s) + 1] = e
BY AppendProperties

LEMMA WindowMoves ==
    ASSUME NEW K, NEW seen \in Seq(K), NEW acc \in Seq(K), NEW key \in K,
           Window(seen, acc)
    PROVE  /\ LRUInsert(seen, key) \in Seq(K)
           /\ Window(LRUInsert(seen, key), Append(acc, key))
<1> DEFINE acc2 == Append(acc, key)
           kept == IF Len(seen) >= DedupCap THEN Tail(seen) ELSE seen
           seen2 == Append(kept, key)
           off == Len(acc) - Len(seen)
           off2 == Len(acc2) - Len(seen2)
<1>1. /\ Len(seen) \in Nat /\ Len(acc) \in Nat /\ DedupCap \in Nat /\ DedupCap >= 1
    BY SettingsAssumption
<1>2. /\ Len(seen) <= Len(acc) /\ Len(seen) <= DedupCap
      /\ Len(seen) < DedupCap => Len(seen) = Len(acc)
      /\ \A i \in 1 .. Len(seen) : seen[i] = acc[off + i]
    BY DEF Window
<1>3. /\ Len(acc2) = Len(acc) + 1
      /\ \A i \in 1 .. Len(acc) : acc2[i] = acc[i]
      /\ acc2[Len(acc) + 1] = key
    BY AppendIs
<1>4. \/ /\ Len(seen) = DedupCap /\ Len(kept) = Len(seen) - 1 /\ kept \in Seq(K)
         /\ \A i \in 1 .. Len(kept) : kept[i] = seen[i + 1]
      \/ /\ Len(seen) < DedupCap /\ kept = seen
    <2>1. CASE Len(seen) >= DedupCap
        <3>1. Len(seen) = DedupCap /\ seen # <<>> /\ kept = Tail(seen)
            BY <1>1, <1>2, <2>1
        <3>2. /\ Tail(seen) \in Seq(K) /\ Len(Tail(seen)) = Len(seen) - 1
              /\ \A i \in 1 .. Len(Tail(seen)) : Tail(seen)[i] = seen[i + 1]
            BY <3>1, HeadTailProperties
        <3> QED BY <3>1, <3>2
    <2>2. CASE ~(Len(seen) >= DedupCap)
        BY <1>1, <2>2
    <2> QED BY <2>1, <2>2
<1>5. kept \in Seq(K) /\ Len(kept) \in Nat
    <2>1. kept \in Seq(K)
        BY <1>4
    <2> HIDE DEF kept
    <2> QED BY <2>1, LenProperties
<1>6. /\ Len(seen2) = Len(kept) + 1 /\ seen2 \in Seq(K)
      /\ \A i \in 1 .. Len(kept) : seen2[i] = kept[i]
      /\ seen2[Len(kept) + 1] = key
    BY <1>5, AppendIs
<1>7. LRUInsert(seen, key) = seen2
    BY DEF LRUInsert
<1> HIDE DEF acc2, seen2, kept
<1>8. \A i \in 1 .. Len(seen2) : seen2[i] = acc2[off2 + i]
    <2> SUFFICES ASSUME NEW i \in 1 .. Len(seen2) PROVE seen2[i] = acc2[off2 + i]
        OBVIOUS
    <2>1. CASE i = Len(kept) + 1
        BY <1>1, <1>3, <1>5, <1>6, <2>1
    <2>2. CASE i \in 1 .. Len(kept) /\ Len(seen) = DedupCap /\ Len(kept) = Len(seen) - 1
        <3>1. off2 = off + 1 /\ i + 1 \in 1 .. Len(seen)
            BY <1>1, <1>3, <1>6, <2>2
        <3>2. CASE kept = seen
            BY <1>1, <2>2, <3>2
        <3>3. CASE kept[i] = seen[i + 1]
            <4>1. seen2[i] = acc[off + (i + 1)]
                <5> HIDE DEF off
                <5>1. seen[i + 1] = acc[off + (i + 1)]
                    BY <1>2, <3>1
                <5> QED BY <1>6, <2>2, <3>3, <5>1
            <4>2. off + (i + 1) \in 1 .. Len(acc) /\ off + (i + 1) = off2 + i
                <5>1. i \in Nat /\ i + 1 <= Len(seen) /\ off \in Nat
                    BY <1>1, <1>2, <1>5, <2>2
                <5>2. off + Len(seen) = Len(acc)
                    BY <1>1
                <5> HIDE DEF off, off2
                <5> QED BY <1>1, <3>1, <5>1, <5>2
            <4> QED BY <1>3, <4>1, <4>2
        <3> QED BY <1>4, <2>2, <3>2, <3>3
    <2>3. CASE i \in 1 .. Len(kept) /\ Len(seen) < DedupCap /\ kept = seen
        <3>1. off = 0 /\ off2 = 0
            BY <1>1, <1>2, <1>3, <1>6, <2>3
        <3>2. seen2[i] = acc[off + i] /\ off + i = i /\ off2 + i = i
            BY <1>2, <1>6, <2>3, <3>1
        <3>3. i \in 1 .. Len(acc)
            BY <1>1, <1>2, <2>3
        <3> QED BY <1>3, <3>2, <3>3
    <2> QED BY <1>4, <1>5, <1>6, <2>1, <2>2, <2>3
<1>9. /\ Len(seen2) <= Len(acc2) /\ Len(seen2) <= DedupCap
      /\ Len(seen2) < DedupCap => Len(seen2) = Len(acc2)
    BY <1>1, <1>2, <1>3, <1>4, <1>6
<1> QED BY <1>6, <1>7, <1>8, <1>9 DEF Window, acc2

LEMMA StaysFarApart ==
    ASSUME NEW K, NEW seen \in Seq(K), NEW acc \in Seq(K), NEW key \in K,
           Window(seen, acc), FarApart(acc), key \notin ToSet(seen)
    PROVE  FarApart(Append(acc, key))
<1> DEFINE acc2 == Append(acc, key)
           off == Len(acc) - Len(seen)
<1>1. Len(seen) \in Nat /\ Len(acc) \in Nat /\ DedupCap \in Nat
    BY SettingsAssumption
<1>2. /\ Len(acc2) = Len(acc) + 1
      /\ \A i \in 1 .. Len(acc) : acc2[i] = acc[i]
      /\ acc2[Len(acc) + 1] = key
    BY AppendIs
<1>3. /\ Len(seen) <= Len(acc) /\ Len(seen) <= DedupCap
      /\ Len(seen) < DedupCap => Len(seen) = Len(acc)
      /\ \A i \in 1 .. Len(seen) : seen[i] = acc[off + i]
    BY DEF Window
<1> HIDE DEF acc2
<1> SUFFICES ASSUME NEW i \in 1 .. Len(acc2), NEW j \in 1 .. Len(acc2), i < j,
                    acc2[i] = acc2[j]
             PROVE  j - i > DedupCap
    BY DEF FarApart, acc2
<1>4. i \in 1 .. Len(acc) /\ acc2[i] = acc[i]
    BY <1>1, <1>2
<1>5. CASE j \in 1 .. Len(acc)
    <2>1. acc[i] = acc[j]
        BY <1>2, <1>4, <1>5
    <2> QED BY <1>4, <1>5, <2>1 DEF FarApart
<1>6. CASE j = Len(acc) + 1
    <2>1. acc[i] = key
        BY <1>2, <1>4, <1>6
    <2>2. SUFFICES ASSUME j - i <= DedupCap PROVE FALSE
        BY <1>1
    <2>3. i - off \in 1 .. Len(seen)
        BY <1>1, <1>3, <1>4, <1>6, <2>2
    <2>4. off + (i - off) = i
        BY <1>1
    <2>5. seen[i - off] = key
        BY <1>3, <2>1, <2>3, <2>4
    <2>6. i - off \in DOMAIN seen
        BY <2>3, LenProperties
    <2> QED BY <2>5, <2>6 DEF ToSet
<1> QED BY <1>1, <1>2, <1>5, <1>6

LEMMA EmptyWindow == Window(<<>>, <<>>) /\ FarApart(<<>>)
<1>1. Len(<<>>) = 0
    OBVIOUS
<1> QED BY <1>1, SettingsAssumption DEF Window, FarApart

LEMMA DedupInit == Init => DedupTypes /\ WindowInv
<1> SUFFICES ASSUME Init PROVE DedupTypes /\ WindowInv
    OBVIOUS
<1>1. DedupTypes
    BY DEF Init, DedupTypes
<1>2. \A n \in Nodes : seenMessages[n] = <<>> /\ accepted[n] = <<>>
    BY DEF Init
<1> QED BY <1>1, <1>2, EmptyWindow DEF WindowInv

LEMMA DedupTypesNext ==
    ASSUME Types, DedupTypes, [Next]_vars
    PROVE  DedupTypes'
<1>1. ASSUME NEW n \in Nodes, Restart(n) PROVE DedupTypes'
    BY <1>1 DEF Restart, DedupTypes
<1>2. ASSUME NEW d \in net, Arrives(d), RememberId(d)
      PROVE  perTopicDedup' \in [Nodes -> [Topics -> SUBSET Nat]]
    <2>1. d.to \in Nodes /\ d.msg.topic \in Topics /\ d.msg.mid \in Nat
        BY <1>2, ArrivedTypes
    <2>2. PICK ids \in Remembered(perTopicDedup[d.to][d.msg.topic], d.msg.mid) :
            perTopicDedup' = [perTopicDedup EXCEPT ![d.to][d.msg.topic] = ids]
        BY <1>2 DEF RememberId
    <2>3. ids \subseteq perTopicDedup[d.to][d.msg.topic] \cup {d.msg.mid}
        BY <2>2 DEF Remembered
    <2> QED BY <2>1, <2>2, <2>3 DEF DedupTypes
<1>3. ASSUME NEW d \in net, Accept(d) PROVE DedupTypes'
    <2>1. Arrives(d) /\ d.to \in Nodes /\ DedupKey(d.msg) \in DedupKeys
        BY <1>3, ArrivedTypes DEF Accept
    <2>2. LRUInsert(seenMessages[d.to], DedupKey(d.msg)) \in Seq(DedupKeys)
        BY <2>1, SettingsAssumption DEF DedupTypes, LRUInsert
    <2>3. Append(accepted[d.to], DedupKey(d.msg)) \in Seq(DedupKeys)
        BY <2>1 DEF DedupTypes
    <2> QED BY <1>2, <1>3, <2>1, <2>2, <2>3 DEF Accept, DedupTypes
<1>4. ASSUME NEW d \in net, DropSeenDuplicate(d) PROVE DedupTypes'
    BY <1>2, <1>4 DEF DropSeenDuplicate, DedupTypes, history
<1>5. ASSUME NEW d \in net, DropTopicDuplicate(d) PROVE DedupTypes'
    BY <1>5 DEF DropTopicDuplicate, DedupTypes, coreVars
<1>6. CASE UNCHANGED <<perTopicDedup, seenMessages, accepted, receipts>>
    BY <1>6 DEF DedupTypes
<1> QED BY <1>1, <1>3, <1>4, <1>5, <1>6, DedupSteps

LEMMA WindowNext ==
    ASSUME Types, DedupTypes, WindowInv, [Next]_vars
    PROVE  WindowInv'
<1>1. ASSUME NEW n \in Nodes, Restart(n) PROVE WindowInv'
    <2>1. seenMessages'[n] = <<>> /\ accepted'[n] = <<>>
        BY <1>1 DEF Restart, DedupTypes
    <2>2. \A o \in Nodes \ {n} :
            seenMessages'[o] = seenMessages[o] /\ accepted'[o] = accepted[o]
        BY <1>1 DEF Restart, DedupTypes
    <2>3. \A o \in Nodes : Window(seenMessages'[o], accepted'[o]) /\ FarApart(accepted'[o])
        BY <2>1, <2>2, EmptyWindow DEF WindowInv
    <2> QED BY <2>3 DEF WindowInv, Window, FarApart
<1>2. ASSUME NEW d \in net, Accept(d) PROVE WindowInv'
    <2> DEFINE n == d.to
               key == DedupKey(d.msg)
    <2>1. n \in Nodes /\ key \in DedupKeys
        BY <1>2, ArrivedTypes DEF Accept
    <2>2. key \notin ToSet(seenMessages[n])
        BY <1>2 DEF Accept, SeenDuplicate
    <2>3. /\ seenMessages'[n] = LRUInsert(seenMessages[n], key)
          /\ accepted'[n] = Append(accepted[n], key)
          /\ \A o \in Nodes \ {n} :
                seenMessages'[o] = seenMessages[o] /\ accepted'[o] = accepted[o]
        BY <1>2, <2>1 DEF Accept, DedupTypes
    <2> HIDE DEF n, key
    <2>4. seenMessages[n] \in Seq(DedupKeys) /\ accepted[n] \in Seq(DedupKeys)
        BY <2>1 DEF DedupTypes
    <2>5. /\ Window(LRUInsert(seenMessages[n], key), Append(accepted[n], key))
          /\ FarApart(Append(accepted[n], key))
        BY <2>1, <2>2, <2>4, WindowMoves, StaysFarApart DEF WindowInv
    <2>6. \A o \in Nodes : Window(seenMessages'[o], accepted'[o]) /\ FarApart(accepted'[o])
        BY <2>3, <2>5 DEF WindowInv
    <2> QED BY <2>6 DEF WindowInv, Window, FarApart
<1>3. ASSUME NEW d \in net, DropSeenDuplicate(d) \/ DropTopicDuplicate(d)
      PROVE  UNCHANGED <<seenMessages, accepted>>
    BY <1>3 DEF DropSeenDuplicate, DropTopicDuplicate, coreVars
<1>4. CASE UNCHANGED <<seenMessages, accepted>>
    BY <1>4 DEF WindowInv, Window, FarApart
<1> QED BY <1>1, <1>2, <1>3, <1>4, DedupSteps

(***************************************************************************)
(* DedupWindow for every capacity: a process that accepts a message again  *)
(* has accepted at least dedup_capacity others since.                      *)
(***************************************************************************)
THEOREM AcceptedAgainOnlyLater == Spec => []DedupWindow
<1>1. Types /\ DedupTypes /\ WindowInv /\ [Next]_vars => (Types /\ DedupTypes /\ WindowInv)'
    BY TypesNext, DedupTypesNext, WindowNext
<1>2. DedupTypes /\ WindowInv => DedupWindow
    <2>1. DedupTypes => \A n \in Nodes : DOMAIN accepted[n] = 1 .. Len(accepted[n])
        BY LenProperties DEF DedupTypes
    <2> QED BY <2>1 DEF WindowInv, FarApart, DedupWindow
<1>3. Init => Types /\ DedupTypes /\ WindowInv
    BY AckInit, DedupInit DEF AckInv
<1> QED BY <1>1, <1>2, <1>3, PTL DEF Spec

-----------------------------------------------------------------------------
(***************************************************************************)
(* Both de-duplication sets hold only what was accepted.                   *)
(***************************************************************************)
IdWasKept(n, t, i) ==
    \E x \in receipts : x.kept /\ x.node = n /\ x.msg.topic = t /\ x.msg.mid = i

KeyWasKept(n, key) ==
    \E x \in receipts : x.kept /\ x.node = n /\ DedupKey(x.msg) = key

RememberedWasKept ==
    /\ \A n \in Nodes, t \in Topics : \A i \in perTopicDedup[n][t] : IdWasKept(n, t, i)
    /\ \A n \in Nodes : \A key \in ToSet(seenMessages[n]) : KeyWasKept(n, key)

LEMMA LRUHolds ==
    ASSUME NEW K, NEW seen \in Seq(K), NEW key \in K
    PROVE  ToSet(LRUInsert(seen, key)) \subseteq ToSet(seen) \cup {key}
<1> DEFINE kept == IF Len(seen) >= DedupCap THEN Tail(seen) ELSE seen
<1>1. kept \in Seq(K) /\ \A i \in 1 .. Len(kept) : kept[i] \in ToSet(seen)
    <2>1. CASE Len(seen) >= DedupCap
        <3>1. seen # <<>> /\ kept = Tail(seen)
            BY <2>1, SettingsAssumption
        <3>2. /\ Tail(seen) \in Seq(K) /\ Len(Tail(seen)) = Len(seen) - 1
              /\ \A i \in 1 .. Len(Tail(seen)) : Tail(seen)[i] = seen[i + 1]
            BY <3>1, HeadTailProperties
        <3>3. Len(seen) \in Nat /\ DOMAIN seen = 1 .. Len(seen)
            BY LenProperties
        <3>4. \A i \in 1 .. Len(Tail(seen)) : Tail(seen)[i] \in ToSet(seen)
            <4> TAKE i \in 1 .. Len(Tail(seen))
            <4>1. i + 1 \in DOMAIN seen
                BY <3>2, <3>3
            <4> QED BY <3>2, <4>1 DEF ToSet
        <3> QED BY <3>1, <3>2, <3>4
    <2>2. CASE ~(Len(seen) >= DedupCap)
        BY <2>2, LenProperties DEF ToSet
    <2> QED BY <2>1, <2>2
<1>2. LRUInsert(seen, key) = Append(kept, key)
    BY DEF LRUInsert
<1> HIDE DEF kept
<1>3. DOMAIN Append(kept, key) = 1 .. Len(kept) + 1 /\ Len(kept) \in Nat
    BY <1>1, AppendIs, LenProperties
<1>4. \A i \in DOMAIN Append(kept, key) : Append(kept, key)[i] \in ToSet(seen) \cup {key}
    BY <1>1, <1>3, AppendIs
<1> QED BY <1>2, <1>4 DEF ToSet

LEMMA RememberedInit == Init => RememberedWasKept
BY DEF Init, RememberedWasKept, ToSet

\* An id or key that was kept stays so.
LEMMA KeptStays ==
    ASSUME Types, [Next]_vars
    PROVE  /\ \A n, t, i : IdWasKept(n, t, i) => IdWasKept(n, t, i)'
           /\ \A n, key : KeyWasKept(n, key) => KeyWasKept(n, key)'
BY ReceiptsGrow DEF IdWasKept, KeyWasKept

LEMMA RememberedNext ==
    ASSUME Types, DedupTypes, RememberedWasKept, [Next]_vars
    PROVE  RememberedWasKept'
<1>1. ASSUME NEW d \in net, Arrives(d), RememberId(d),
             IdWasKept(d.to, d.msg.topic, d.msg.mid)',
             NEW n \in Nodes, NEW t \in Topics, NEW i \in perTopicDedup'[n][t]
      PROVE  IdWasKept(n, t, i)'
    <2>1. d.to \in Nodes /\ d.msg.topic \in Topics
        BY <1>1, ArrivedTypes
    <2>2. PICK ids \in Remembered(perTopicDedup[d.to][d.msg.topic], d.msg.mid) :
            perTopicDedup' = [perTopicDedup EXCEPT ![d.to][d.msg.topic] = ids]
        BY <1>1 DEF RememberId
    <2>3. ids \subseteq perTopicDedup[d.to][d.msg.topic] \cup {d.msg.mid}
        BY <2>2 DEF Remembered
    <2>4. i \in perTopicDedup[n][t] \/ (n = d.to /\ t = d.msg.topic /\ i = d.msg.mid)
        BY <1>1, <2>1, <2>2, <2>3 DEF DedupTypes
    <2> QED BY <1>1, <2>4, KeptStays DEF RememberedWasKept
<1>2. ASSUME NEW d \in net, Accept(d) PROVE RememberedWasKept'
    <2>1. /\ Arrives(d) /\ RememberId(d) /\ Receipt(d, TRUE) \in receipts'
          /\ d.to \in Nodes /\ DedupKey(d.msg) \in DedupKeys
        BY <1>2, ArrivedTypes DEF Accept
    <2>2. /\ IdWasKept(d.to, d.msg.topic, d.msg.mid)'
          /\ KeyWasKept(d.to, DedupKey(d.msg))'
        BY <2>1 DEF IdWasKept, KeyWasKept, Receipt
    <2>3. ASSUME NEW n \in Nodes, NEW key \in ToSet(seenMessages'[n])
          PROVE  KeyWasKept(n, key)'
        <3>1. CASE n # d.to
            <4>1. seenMessages'[n] = seenMessages[n]
                BY <1>2, <2>1, <3>1 DEF Accept, DedupTypes
            <4> QED BY <2>3, <4>1, KeptStays DEF RememberedWasKept
        <3>2. CASE n = d.to
            <4>1. seenMessages'[n] = LRUInsert(seenMessages[n], DedupKey(d.msg))
                BY <1>2, <2>1, <3>2 DEF Accept, DedupTypes
            <4>2. seenMessages[n] \in Seq(DedupKeys)
                BY DEF DedupTypes
            <4>3. key \in ToSet(seenMessages[n]) \/ key = DedupKey(d.msg)
                BY <2>1, <2>3, <4>1, <4>2, LRUHolds
            <4> QED BY <2>2, <3>2, <4>3, KeptStays DEF RememberedWasKept
        <3> QED BY <3>1, <3>2
    <2>4. \A n \in Nodes, t \in Topics : \A i \in perTopicDedup'[n][t] : IdWasKept(n, t, i)'
        BY <1>1, <2>1, <2>2
    <2> QED BY <2>3, <2>4 DEF RememberedWasKept, ToSet
<1>3. ASSUME NEW d \in net, DropSeenDuplicate(d) PROVE RememberedWasKept'
    <2>1. Arrives(d) /\ RememberId(d) /\ d.to \in Nodes /\ seenMessages' = seenMessages
        BY <1>3, ArrivedTypes DEF DropSeenDuplicate
    <2>2. KeyWasKept(d.to, DedupKey(d.msg))
        BY <1>3, <2>1 DEF DropSeenDuplicate, SeenDuplicate, RememberedWasKept
    <2>3. IdWasKept(d.to, d.msg.topic, d.msg.mid)
        BY <2>2 DEF IdWasKept, KeyWasKept, DedupKey
    <2>4. \A n \in Nodes, t \in Topics : \A i \in perTopicDedup'[n][t] : IdWasKept(n, t, i)'
        BY <1>1, <2>1, <2>3, KeptStays
    <2>5. \A n \in Nodes : \A key \in ToSet(seenMessages'[n]) : KeyWasKept(n, key)'
        BY <2>1, KeptStays DEF RememberedWasKept
    <2> QED BY <2>4, <2>5 DEF RememberedWasKept, ToSet
<1>4. ASSUME NEW n \in Nodes, Restart(n) PROVE RememberedWasKept'
    <2>1. \A o \in Nodes, t \in Topics : perTopicDedup'[o][t] \subseteq perTopicDedup[o][t]
        BY <1>4 DEF Restart, DedupTypes
    <2>2. \A o \in Nodes : seenMessages'[o] = <<>> \/ seenMessages'[o] = seenMessages[o]
        BY <1>4 DEF Restart, DedupTypes
    <2>3. \A o \in Nodes : \A key \in ToSet(seenMessages'[o]) : KeyWasKept(o, key)'
        BY <2>2, KeptStays DEF RememberedWasKept, ToSet
    <2>4. \A o \in Nodes, t \in Topics : \A i \in perTopicDedup'[o][t] : IdWasKept(o, t, i)'
        BY <2>1, KeptStays DEF RememberedWasKept
    <2> QED BY <2>3, <2>4 DEF RememberedWasKept, ToSet
<1>5. CASE UNCHANGED <<perTopicDedup, seenMessages>>
    <2>1. \A o \in Nodes : \A key \in ToSet(seenMessages'[o]) : KeyWasKept(o, key)'
        BY <1>5, KeptStays DEF RememberedWasKept
    <2>2. \A o \in Nodes, t \in Topics : \A i \in perTopicDedup'[o][t] : IdWasKept(o, t, i)'
        BY <1>5, KeptStays DEF RememberedWasKept
    <2> QED BY <2>1, <2>2 DEF RememberedWasKept, ToSet
<1>6. ASSUME NEW d \in net, DropTopicDuplicate(d)
      PROVE  UNCHANGED <<perTopicDedup, seenMessages>>
    BY <1>6 DEF DropTopicDuplicate, coreVars
<1> QED BY <1>2, <1>3, <1>4, <1>5, <1>6, DedupSteps

(***************************************************************************)
(* With one publisher, ids alone tell messages apart.                      *)
(***************************************************************************)
OnePublisher == \A p, q \in Publishers : p = q

LEMMA SameIdSameMessage ==
    ASSUME OnePublisher, Types, IdsAreNames, NEW d \in net, Arrives(d),
           NEW x \in receipts, x.kept, x.node = d.to, x.msg.mid = d.msg.mid
    PROVE  Kept(d.to, d.msg)
<1>1. d.msg \in Message /\ Exists(d.msg)
    BY ArrivedTypes DEF Arrives, Exists, InFlight
<1>2. x \in Receipts /\ x.msg \in Message /\ Exists(x.msg)
    BY DEF Types, Receipts, Exists, Received
<1>3. x.msg.pub = d.msg.pub
    BY <1>1, <1>2 DEF IdsAreNames, OnePublisher
<1>4. x.msg = d.msg
    BY <1>1, <1>2, <1>3 DEF IdsAreNames
<1> QED BY <1>2, <1>4 DEF Receipts, Kept

LEMMA OnlyDuplicatesNext ==
    ASSUME OnePublisher, Types, IdsAreNames, DedupTypes, RememberedWasKept,
           OnlyDuplicatesDropped, [Next]_vars
    PROVE  OnlyDuplicatesDropped'
<1> SUFFICES ASSUME NEW x \in receipts', ~x.kept PROVE Kept(x.node, x.msg)'
    BY DEF OnlyDuplicatesDropped
<1>1. \A n, m : Kept(n, m) => Kept(n, m)'
    BY ReceiptsGrow DEF Kept
<1>2. CASE x \in receipts
    BY <1>1, <1>2 DEF OnlyDuplicatesDropped
<1>3. ASSUME NEW d \in net, Arrives(d), x = Receipt(d, FALSE), Kept(d.to, d.msg)
      PROVE  Kept(x.node, x.msg)'
    BY <1>1, <1>3 DEF Receipt
<1>4. ASSUME NEW d \in net, DropTopicDuplicate(d), x \notin receipts
      PROVE  Kept(x.node, x.msg)'
    <2>1. /\ Arrives(d) /\ x = Receipt(d, FALSE)
          /\ d.msg.mid \in perTopicDedup[d.to][d.msg.topic]
        BY <1>4 DEF DropTopicDuplicate, TopicDuplicate
    <2>2. IdWasKept(d.to, d.msg.topic, d.msg.mid)
        BY <2>1, ArrivedTypes DEF RememberedWasKept
    <2>3. Kept(d.to, d.msg)
        BY <2>1, <2>2, SameIdSameMessage DEF IdWasKept
    <2> QED BY <1>3, <2>1, <2>3
<1>5. ASSUME NEW d \in net, DropSeenDuplicate(d), x \notin receipts
      PROVE  Kept(x.node, x.msg)'
    <2>1. /\ Arrives(d) /\ x = Receipt(d, FALSE)
          /\ DedupKey(d.msg) \in ToSet(seenMessages[d.to])
        BY <1>5 DEF DropSeenDuplicate, SeenDuplicate
    <2>2. KeyWasKept(d.to, DedupKey(d.msg))
        BY <2>1, ArrivedTypes DEF RememberedWasKept
    <2>3. Kept(d.to, d.msg)
        BY <2>1, <2>2, SameIdSameMessage DEF KeyWasKept, DedupKey
    <2> QED BY <1>3, <2>1, <2>3
<1>6. ASSUME NEW d \in net, Accept(d) PROVE x \in receipts
    BY <1>6 DEF Accept, Receipt
<1>7. ASSUME NEW n \in Nodes, Restart(n) PROVE x \in receipts
    BY <1>7 DEF Restart
<1> QED BY <1>2, <1>4, <1>5, <1>6, <1>7, DedupSteps

(***************************************************************************)
(* OnlyDuplicatesDropped for every capacity and every network, with one    *)
(* publisher that is not restarted.  The run two_publishers shows that a   *)
(* second publisher breaks it.                                             *)
(***************************************************************************)
THEOREM DroppedWasAccepted ==
    ASSUME OnePublisher, PublishersStayUp
    PROVE  Spec => []OnlyDuplicatesDropped
<1> DEFINE Inv == /\ Types /\ IdsAreNames /\ DedupTypes /\ RememberedWasKept
                  /\ OnlyDuplicatesDropped
<1>1. Init => Inv
    BY AckInit, DedupInit, RememberedInit DEF AckInv, OnlyDuplicatesDropped, Init
<1>2. Inv /\ [Next]_vars => Inv'
    BY TypesNext, IdsNext, DedupTypesNext, RememberedNext, OnlyDuplicatesNext
<1>3. Inv => OnlyDuplicatesDropped
    OBVIOUS
<1> QED BY <1>1, <1>2, <1>3, PTL DEF Spec

-----------------------------------------------------------------------------
(***************************************************************************)
(* What is left of OnlyDuplicatesDropped with several publishers, and with *)
(* publishers that are restarted: both sets compare topic and id, so what  *)
(* is dropped follows some message of that topic and id that was accepted. *)
(***************************************************************************)
DroppedForItsId ==
    \A x \in receipts : ~x.kept => IdWasKept(x.node, x.msg.topic, x.msg.mid)

LEMMA DroppedForItsIdNext ==
    ASSUME Types, DedupTypes, RememberedWasKept, DroppedForItsId, [Next]_vars
    PROVE  DroppedForItsId'
<1> SUFFICES ASSUME NEW x \in receipts', ~x.kept
             PROVE  IdWasKept(x.node, x.msg.topic, x.msg.mid)'
    BY DEF DroppedForItsId
<1>1. CASE x \in receipts
    BY <1>1, KeptStays DEF DroppedForItsId
<1>2. ASSUME NEW d \in net, DropTopicDuplicate(d), x \notin receipts
      PROVE  IdWasKept(x.node, x.msg.topic, x.msg.mid)'
    <2>1. /\ Arrives(d) /\ x = Receipt(d, FALSE)
          /\ d.msg.mid \in perTopicDedup[d.to][d.msg.topic]
        BY <1>2 DEF DropTopicDuplicate, TopicDuplicate
    <2>2. IdWasKept(d.to, d.msg.topic, d.msg.mid)
        BY <2>1, ArrivedTypes DEF RememberedWasKept
    <2> QED BY <2>1, <2>2, KeptStays DEF Receipt
<1>3. ASSUME NEW d \in net, DropSeenDuplicate(d), x \notin receipts
      PROVE  IdWasKept(x.node, x.msg.topic, x.msg.mid)'
    <2>1. /\ Arrives(d) /\ x = Receipt(d, FALSE)
          /\ DedupKey(d.msg) \in ToSet(seenMessages[d.to])
        BY <1>3 DEF DropSeenDuplicate, SeenDuplicate
    <2>2. KeyWasKept(d.to, DedupKey(d.msg))
        BY <2>1, ArrivedTypes DEF RememberedWasKept
    <2>3. IdWasKept(d.to, d.msg.topic, d.msg.mid)
        BY <2>2 DEF IdWasKept, KeyWasKept, DedupKey
    <2> QED BY <2>1, <2>3, KeptStays DEF Receipt
<1>4. ASSUME NEW d \in net, Accept(d) PROVE x \in receipts
    BY <1>4 DEF Accept, Receipt
<1>5. ASSUME NEW n \in Nodes, Restart(n) PROVE x \in receipts
    BY <1>5 DEF Restart
<1> QED BY <1>1, <1>2, <1>3, <1>4, <1>5, DedupSteps

(***************************************************************************)
(* However many publishers there are and whoever is restarted, a process   *)
(* drops a message only when it accepted one of the same topic and id: all *)
(* that the two sets of onDatagram promise, as the run two_publishers      *)
(* shows.                                                                  *)
(***************************************************************************)
THEOREM DroppedWasAnId == Spec => []DroppedForItsId
<1> DEFINE Inv == Types /\ DedupTypes /\ RememberedWasKept /\ DroppedForItsId
<1>1. Init => Inv
    BY AckInit, DedupInit, RememberedInit DEF AckInv, DroppedForItsId, Init
<1>2. Inv /\ [Next]_vars => Inv'
    BY TypesNext, DedupTypesNext, RememberedNext, DroppedForItsIdNext
<1>3. Inv => DroppedForItsId
    OBVIOUS
<1> QED BY <1>1, <1>2, <1>3, PTL DEF Spec

=============================================================================
