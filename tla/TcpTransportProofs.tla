------------------------- MODULE TcpTransportProofs -------------------------
(***************************************************************************)
(* Theorems about TcpTransport, for any nodes, targets and frames, any     *)
(* payload lengths, any number of sessions, attempts and starts: one link  *)
(* per target and start, and the streams that carry the frames.            *)
(***************************************************************************)
EXTENDS TcpTransport, TLAPS, FiniteSetTheorems, SequenceTheorems,
        WellFoundedInduction

(***************************************************************************)
(* Connections that are opened together.  Opened numbers them in some      *)
(* order; each target gets one new number, and nothing else changes.       *)
(***************************************************************************)
Link(n, m) == [from |-> n, to |-> m]

LEMMA LinkFields == \A n, m : Link(n, m).from = n /\ Link(n, m).to = m
BY DEF Link

LEMMA SetToSeqIsBijective ==
    ASSUME NEW S, IsFiniteSet(S)
    PROVE  /\ SetToSeq(S) \in [1 .. Cardinality(S) -> S]
           /\ \A i, j \in 1 .. Cardinality(S) : SetToSeq(S)[i] = SetToSeq(S)[j] => i = j
           /\ \A x \in S : \E i \in 1 .. Cardinality(S) : SetToSeq(S)[i] = x
           /\ Cardinality(S) \in Nat
           /\ SetToSeq(S) \in Seq(S) /\ Len(SetToSeq(S)) = Cardinality(S)
           /\ DOMAIN SetToSeq(S) = 1 .. Cardinality(S)
<1> DEFINE n == Cardinality(S)
<1>1. n \in Nat /\ ExistsBijection(1 .. n, S)
    BY FS_CardinalityType
<1>2. PICK g \in [1 .. n -> S] : IsInjective(g)
    BY <1>1 DEF ExistsBijection, Bijection, Injection
<1>3. SetToSeq(S) \in [1 .. n -> S] /\ IsInjective(SetToSeq(S))
    BY <1>2 DEF SetToSeq
<1>4. SetToSeq(S) \in Injection(1 .. n, S)
    BY <1>3 DEF Injection
<1>5. Cardinality(1 .. n) = n
    BY <1>1, FS_Interval
<1>6. SetToSeq(S) \in Surjection(1 .. n, S)
    BY <1>4, <1>5, FS_Injection
<1>7. \A x \in S : \E i \in 1 .. n : SetToSeq(S)[i] = x
    BY <1>6 DEF Surjection
<1>8. SetToSeq(S) \in Seq(S) /\ Len(SetToSeq(S)) = n
    BY <1>1, <1>3
<1> QED BY <1>1, <1>3, <1>7, <1>8 DEF IsInjective

-----------------------------------------------------------------------------
(***************************************************************************)
(* Types.  Beside TypeOK: an end of a session exists only where there is a *)
(* session, no node is connected to itself, and a backlog is at the        *)
(* session's target, so no timer of a node is for the node itself; a node  *)
(* where start was not called is down.                                     *)
(***************************************************************************)
Types ==
    /\ status \in [Nodes -> {"down", "running", "stopped"}]
    /\ starts \in [Nodes -> Nat]
    /\ \A n \in Nodes : starts[n] <= MaxStarts[n]
    /\ calls \in [Nodes -> Nat]
    /\ \A n \in Nodes : calls[n] <= starts[n]
    /\ sessions \in Seq([from: Nodes, to: Nodes])
    /\ Len(sessions) <= MaxSessions
    /\ end \in [Ids -> [Nodes -> {"none", "backlog", "attached", "gone"}]]
    /\ broken \subseteq DOMAIN sessions
    /\ timers \in [Nodes -> [Addresses -> Nat]]
    /\ attempts \in [Nodes -> [Addresses -> 0 .. MaxAttempts]]
    /\ failures \in [Nodes -> [Addresses -> Nat]]
    /\ gaveUp \in [Nodes -> SUBSET Addresses]

Ends ==
    /\ \A s \in Ids : \A n \in Nodes : end[s][n] # "none" => s \in DOMAIN sessions
    /\ \A s \in DOMAIN sessions : sessions[s].from # sessions[s].to
    /\ \A s \in Ids : \A n \in Nodes : end[s][n] = "backlog" => sessions[s].to = n
    /\ \A n \in Nodes : timers[n][<<n, 0>>] = 0
    /\ \A n \in Nodes : status[n] = "down" =>
            (\A s \in Ids : end[s][n] # "attached") /\ timers[n] = Zero
    /\ \A n \in Nodes : calls[n] = 0 => status[n] = "down"

TypeInv == Types /\ Ends

LEMMA TypeInvImplies == TypeInv => TypeOK
<1> SUFFICES ASSUME TypeInv PROVE TypeOK
    OBVIOUS
<1>1. \A n \in Nodes : starts[n] \in 0 .. MaxStarts[n] /\ calls[n] \in 0 .. starts[n]
    BY BoundsAssumption DEF TypeInv, Types
<1>2. \A n \in Nodes : status[n] = "down" => Attached(n) = {} /\ timers[n] = Zero
    BY DEF TypeInv, Ends, Attached
<1> QED BY <1>1, <1>2 DEF TypeInv, Types, TypeOK

(***************************************************************************)
(* Opened(n, targets): id is the number of a target's new session.         *)
(***************************************************************************)
LEMMA OpenedSessions ==
    ASSUME Types, NEW n \in Nodes, NEW targets \in SUBSET Nodes, Opened(n, targets)
    PROVE  /\ sessions' \in Seq([from: Nodes, to: Nodes])
           /\ Len(sessions') <= MaxSessions /\ Len(sessions) <= Len(sessions')
           /\ \A s \in DOMAIN sessions : s \in DOMAIN sessions' /\ sessions'[s] = sessions[s]
           /\ \E id \in [targets -> Ids] :
                /\ \A m \in targets : /\ id[m] \in DOMAIN sessions' \ DOMAIN sessions
                                      /\ sessions'[id[m]] = Link(n, m)
                /\ \A s \in DOMAIN sessions' \ DOMAIN sessions :
                        \E m \in targets : s = id[m]
                /\ end' = [i \in Ids |-> [x \in Nodes |->
                        IF \E m \in targets : i = id[m] /\ x = n THEN "attached"
                        ELSE IF \E m \in targets : i = id[m] /\ x = m THEN "backlog"
                        ELSE end[i][x]]]
<1> DEFINE S == {[from |-> n, to |-> m] : m \in targets}
           more == SetToSeq(S)
           pos(m) == CHOOSE i \in DOMAIN more : more[i].to = m
<1>1. IsFiniteSet(S)
    <2>1. IsFiniteSet(targets)
        BY NodesAssumption, FS_Subset
    <2> DEFINE f == [m \in targets |-> [from |-> n, to |-> m]]
    <2>2. f \in Surjection(targets, S)
        BY DEF Surjection
    <2> HIDE DEF f, S
    <2> QED BY <2>1, <2>2, FS_Surjection
<1>2. S \subseteq [from: Nodes, to: Nodes]
    OBVIOUS
<1> DEFINE k == Cardinality(S)
<1>3. /\ more \in [1 .. k -> S]
      /\ \A i, j \in 1 .. k : more[i] = more[j] => i = j
      /\ \A x \in S : \E i \in 1 .. k : more[i] = x
      /\ k \in Nat /\ more \in Seq(S) /\ Len(more) = k /\ DOMAIN more = 1 .. k
    BY <1>1, SetToSeqIsBijective
<1>4. more \in Seq([from: Nodes, to: Nodes])
    <2> HIDE DEF more, S
    <2> QED BY <1>2, <1>3, SeqMonotonic
<1>5. /\ Len(sessions) + Len(more) <= MaxSessions
      /\ sessions' = sessions \o more
      /\ end' = [i \in Ids |-> [x \in Nodes |->
            IF \E m \in targets : i = Len(sessions) + pos(m) /\ x = n THEN "attached"
            ELSE IF \E m \in targets : i = Len(sessions) + pos(m) /\ x = m THEN "backlog"
            ELSE end[i][x]]]
    BY DEF Opened
<1>6. \A i \in 1 .. k : \E m \in targets : more[i] = [from |-> n, to |-> m]
    BY <1>3
<1>7. ASSUME NEW m \in targets
      PROVE  pos(m) \in 1 .. k /\ more[pos(m)] = [from |-> n, to |-> m]
    <2>1. [from |-> n, to |-> m] \in S
        OBVIOUS
    <2>2. PICK i \in 1 .. k : more[i] = [from |-> n, to |-> m]
        BY <1>3, <2>1
    <2>3. more[i].to = m
        BY <2>2
    <2>4. pos(m) \in DOMAIN more /\ more[pos(m)].to = m
        BY <1>3, <2>3
    <2>5. PICK j \in targets : more[pos(m)] = [from |-> n, to |-> j]
        BY <1>3, <1>6, <2>4
    <2>6. j = m
        BY <2>4, <2>5
    <2> QED BY <1>3, <2>4, <2>5, <2>6
<1> HIDE DEF S, more, k
<1> DEFINE len == Len(sessions)
           id  == [m \in targets |-> len + pos(m)]
<1>8. /\ sessions \in Seq([from: Nodes, to: Nodes]) /\ len \in Nat /\ DOMAIN sessions = 1 .. len
      /\ MaxSessions \in Nat
    BY BoundsAssumption, LenProperties DEF Types
<1>9. /\ sessions' \in Seq([from: Nodes, to: Nodes])
      /\ Len(sessions') = len + k
      /\ DOMAIN sessions' = 1 .. len + k
      /\ \A i \in 1 .. len + k : sessions'[i] = IF i <= len THEN sessions[i] ELSE more[i - len]
    <2>1. /\ sessions' \in Seq([from: Nodes, to: Nodes])
          /\ Len(sessions') = len + k
          /\ \A i \in 1 .. len + k : sessions'[i] = IF i <= len THEN sessions[i] ELSE more[i - len]
        <3> DEFINE T == [from: Nodes, to: Nodes]
        <3>1. sessions \in Seq(T) /\ more \in Seq(T)
            BY <1>4, <1>8
        <3> HIDE DEF T, len
        <3>2. /\ sessions \o more \in Seq(T)
              /\ Len(sessions \o more) = Len(sessions) + Len(more)
              /\ \A i \in 1 .. Len(sessions) + Len(more) : (sessions \o more)[i] =
                        IF i <= Len(sessions) THEN sessions[i] ELSE more[i - Len(sessions)]
            BY <3>1, ConcatProperties
        <3> QED BY <1>3, <1>5, <3>2 DEF T, len
    <2> QED BY <2>1, LenProperties
<1>10. len + k <= MaxSessions
    BY <1>3, <1>5
<1>11. /\ Len(sessions') <= MaxSessions /\ len <= Len(sessions')
       /\ \A s \in DOMAIN sessions : s \in DOMAIN sessions' /\ sessions'[s] = sessions[s]
    BY <1>3, <1>8, <1>9, <1>10
<1>12. \A m \in targets : id[m] = len + pos(m) /\ id[m] \in (len + 1) .. (len + k)
    <2> TAKE m \in targets
    <2>1. id[m] = len + pos(m) /\ pos(m) \in 1 .. k
        BY <1>7
    <2> HIDE DEF pos, id, len
    <2> QED BY <1>3, <1>8, <2>1
<1>13. id \in [targets -> Ids]
    <2>1. \A m \in targets : len + pos(m) \in Ids
        <3> TAKE m \in targets
        <3>1. len + pos(m) \in (len + 1) .. (len + k)
            BY <1>12
        <3> HIDE DEF pos, id, len
        <3> QED BY <1>3, <1>8, <1>10, <3>1 DEF Ids
    <2> HIDE DEF pos, len
    <2> QED BY <2>1
<1>14. \A m \in targets : /\ id[m] \in DOMAIN sessions' \ DOMAIN sessions
                          /\ sessions'[id[m]] = Link(n, m)
    <2> TAKE m \in targets
    <2>1. id[m] = len + pos(m) /\ pos(m) \in 1 .. k /\ more[pos(m)] = [from |-> n, to |-> m]
        BY <1>7, <1>12
    <2> HIDE DEF pos, id
    <2>2. id[m] \in 1 .. len + k /\ ~(id[m] <= len) /\ id[m] - len = pos(m)
        BY <1>3, <1>8, <2>1
    <2> QED BY <1>8, <1>9, <2>1, <2>2 DEF Link
<1>15. \A s \in DOMAIN sessions' \ DOMAIN sessions : \E m \in targets : s = id[m]
    <2> TAKE s \in DOMAIN sessions' \ DOMAIN sessions
    <2>1. s \in 1 .. len + k /\ ~(s <= len) /\ s - len \in 1 .. k
        BY <1>3, <1>8, <1>9
    <2>2. PICK m \in targets : more[s - len] = [from |-> n, to |-> m]
        BY <1>6, <2>1
    <2>3. pos(m) \in 1 .. k /\ more[pos(m)] = [from |-> n, to |-> m] /\ id[m] = len + pos(m)
        BY <1>7, <1>12
    <2> HIDE DEF pos, id
    <2>4. pos(m) = s - len
        BY <1>3, <2>1, <2>2, <2>3
    <2> QED BY <1>3, <1>8, <2>1, <2>3, <2>4
<1>16. end' = [i \in Ids |-> [x \in Nodes |->
            IF \E m \in targets : i = id[m] /\ x = n THEN "attached"
            ELSE IF \E m \in targets : i = id[m] /\ x = m THEN "backlog"
            ELSE end[i][x]]]
    BY <1>5, <1>12
<1> QED BY <1>9, <1>11, <1>13, <1>14, <1>15, <1>16

States == {"none", "backlog", "attached", "gone"}

LEMMA OpenedEnds ==
    ASSUME TypeInv, NEW n \in Nodes, NEW targets \in SUBSET (Nodes \ {n}), Opened(n, targets)
    PROVE  /\ end' \in [Ids -> [Nodes -> States]]
           /\ broken \subseteq DOMAIN sessions'
           /\ \A s \in Ids : \A x \in Nodes : end'[s][x] # "none" => s \in DOMAIN sessions'
           /\ \A s \in DOMAIN sessions' : sessions'[s].from # sessions'[s].to
           /\ \A s \in Ids : \A x \in Nodes : end'[s][x] = "backlog" => sessions'[s].to = x
           /\ \A x \in Nodes \ {n} : \A s \in Ids :
                    end'[s][x] = "attached" <=> end[s][x] = "attached"
           /\ \A x \in Nodes \ {n} : \A m \in Nodes : Linked(x, m)' = Linked(x, m)
           /\ \A m \in Nodes \ targets : Linked(n, m)' = Linked(n, m)
           /\ \A m \in targets : \E i \in Ids :
                    i \notin Linked(n, m) /\ Linked(n, m)' = Linked(n, m) \cup {i}
<1>1. targets \in SUBSET Nodes /\ Types /\ Ends
    BY DEF TypeInv
<1>2. PICK id \in [targets -> Ids] :
        /\ \A m \in targets : /\ id[m] \in DOMAIN sessions' \ DOMAIN sessions
                              /\ sessions'[id[m]] = Link(n, m)
        /\ \A s \in DOMAIN sessions' \ DOMAIN sessions : \E m \in targets : s = id[m]
        /\ end' = [i \in Ids |-> [x \in Nodes |->
                IF \E m \in targets : i = id[m] /\ x = n THEN "attached"
                ELSE IF \E m \in targets : i = id[m] /\ x = m THEN "backlog"
                ELSE end[i][x]]]
    BY <1>1, OpenedSessions
<1>3. \A s \in DOMAIN sessions : s \in DOMAIN sessions' /\ sessions'[s] = sessions[s]
    BY <1>1, OpenedSessions
<1>4. /\ end \in [Ids -> [Nodes -> States]] /\ broken \subseteq DOMAIN sessions
      /\ \A s \in Ids : \A x \in Nodes : end[s][x] # "none" => s \in DOMAIN sessions
      /\ \A s \in DOMAIN sessions : sessions[s].from # sessions[s].to
      /\ \A s \in Ids : \A x \in Nodes : end[s][x] = "backlog" => sessions[s].to = x
    BY <1>1 DEF Types, Ends, States
<1>5. /\ end' \in [Ids -> [Nodes -> States]]
      /\ broken \subseteq DOMAIN sessions'
    BY <1>2, <1>3, <1>4 DEF States
\* What an end becomes.
<1>6. ASSUME NEW s \in Ids, NEW x \in Nodes
      PROVE  \/ x = n /\ end'[s][x] = "attached" /\ \E m \in targets : s = id[m]
             \/ x # n /\ end'[s][x] = "backlog" /\ \E m \in targets : s = id[m] /\ x = m
             \/ end'[s][x] = end[s][x] /\ ~(x = n /\ \E m \in targets : s = id[m])
    BY <1>2
<1>7. ASSUME NEW s \in Ids, NEW x \in Nodes, end'[s][x] # "none"
      PROVE  s \in DOMAIN sessions'
    BY <1>2, <1>3, <1>4, <1>6, <1>7
<1>8. ASSUME NEW s \in DOMAIN sessions' PROVE sessions'[s].from # sessions'[s].to
    <2>1. CASE s \in DOMAIN sessions
        BY <1>3, <1>4, <2>1
    <2>2. CASE s \notin DOMAIN sessions
        <3>1. PICK m \in targets : s = id[m]
            BY <1>2, <2>2
        <3>2. sessions'[s] = Link(n, m) /\ m # n
            BY <1>2, <3>1
        <3> QED BY <3>2, LinkFields
    <2> QED BY <2>1, <2>2
<1>9. ASSUME NEW s \in Ids, NEW x \in Nodes, end'[s][x] = "backlog"
      PROVE  sessions'[s].to = x
    <2>1. CASE end[s][x] = "backlog"
        BY <1>3, <1>4, <2>1
    <2>2. CASE end[s][x] # "backlog"
        <3>1. \E m \in targets : s = id[m] /\ x = m
            BY <1>6, <1>9, <2>2
        <3>2. sessions'[s] = Link(n, x)
            BY <1>2, <3>1
        <3> QED BY <3>2, LinkFields
    <2> QED BY <2>1, <2>2
<1>10. ASSUME NEW x \in Nodes \ {n}, NEW s \in Ids
       PROVE  end'[s][x] = "attached" <=> end[s][x] = "attached"
    <2>1. ASSUME NEW m \in targets, s = id[m] PROVE end[s][x] = "none"
        BY <1>2, <1>4, <2>1
    <2> QED BY <1>6, <2>1
<1>11. ASSUME NEW x \in Nodes \ {n}, NEW m \in Nodes PROVE Linked(x, m)' = Linked(x, m)
    <2>1. Attached(x)' = Attached(x)
        BY <1>10 DEF Attached
    <2>2. \A s \in Attached(x) : sessions'[s] = sessions[s]
        BY <1>3, <1>4 DEF Attached
    <2> QED BY <2>1, <2>2 DEF Linked
<1>12. \A s \in Ids : s \in Attached(n)' <=> s \in Attached(n) \/ \E m \in targets : s = id[m]
    BY <1>6 DEF Attached
<1>13. \A s \in Attached(n) : s \in DOMAIN sessions /\ sessions'[s] = sessions[s]
    BY <1>3, <1>4 DEF Attached
<1>14. ASSUME NEW m \in Nodes \ targets PROVE Linked(n, m)' = Linked(n, m)
    <2>1. \A j \in targets : sessions'[id[j]] # Link(n, m)
        BY <1>2, LinkFields
    <2> QED BY <1>12, <1>13, <2>1 DEF Linked, Link, Attached
<1>15. ASSUME NEW m \in targets
       PROVE  id[m] \in Ids /\ id[m] \notin Linked(n, m) /\ Linked(n, m)' = Linked(n, m) \cup {id[m]}
    <2>1. \A j \in targets : sessions'[id[j]] = Link(n, m) => j = m
        BY <1>2, LinkFields
    <2>2. id[m] \in Ids /\ id[m] \notin DOMAIN sessions /\ sessions'[id[m]] = Link(n, m)
        BY <1>2
    <2> QED BY <1>12, <1>13, <2>1, <2>2 DEF Linked, Link, Attached
<1> QED BY <1>5, <1>7, <1>8, <1>9, <1>10, <1>11, <1>14, <1>15

LEMMA TypeInit == Init => TypeInv
<1> SUFFICES ASSUME Init PROVE TypeInv
    OBVIOUS
<1>1. sessions \in Seq([from: Nodes, to: Nodes]) /\ Len(sessions) = 0 /\ DOMAIN sessions = {}
    BY DEF Init
<1>2. \A n \in Nodes : <<n, 0>> \in Addresses
    BY BoundsAssumption DEF Addresses
<1>3. Types
    BY <1>1, BoundsAssumption DEF Init, Types, Zero
<1>4. Ends
    BY <1>1, <1>2 DEF Init, Ends, Zero
<1> QED BY <1>3, <1>4 DEF TypeInv

LEMMA AddressFields ==
    /\ \A n \in Nodes : <<n, 0>> \in Addresses
    /\ \A a \in Addresses : a[1] \in Nodes /\ (a[2] = 0 => a = <<a[1], 0>>)
BY BoundsAssumption DEF Addresses

\* The ends of a node that dies or stops; every other end stays.
LEMMA LeftEnds ==
    ASSUME TypeInv, NEW n \in Nodes, detach(n, Held(n))
    PROVE  /\ end' \in [Ids -> [Nodes -> States]]
           /\ \A s \in Ids : \A x \in Nodes :
                /\ end'[s][x] # "none" => end[s][x] # "none"
                /\ end'[s][x] = "backlog" => end[s][x] = "backlog"
                /\ end'[s][x] = "attached" <=> x # n /\ end[s][x] = "attached"
<1>1. end \in [Ids -> [Nodes -> States]]
    BY DEF TypeInv, Types, States
<1>2. end' = [s \in Ids |-> [end[s] EXCEPT ![n] = IF end[s][n] # "none" THEN "gone" ELSE @]]
    BY DEF detach, Held
<1> QED BY <1>1, <1>2 DEF States

\* What Ends says of the ends of sessions, of which no new ones are made.
LEMMA EndsKept ==
    ASSUME TypeInv, UNCHANGED sessions,
           \A s \in Ids : \A x \in Nodes :
                /\ end'[s][x] # "none" => end[s][x] # "none"
                /\ end'[s][x] = "backlog" => end[s][x] = "backlog"
    PROVE  /\ \A s \in Ids : \A x \in Nodes : end'[s][x] # "none" => s \in DOMAIN sessions'
           /\ \A s \in DOMAIN sessions' : sessions'[s].from # sessions'[s].to
           /\ \A s \in Ids : \A x \in Nodes : end'[s][x] = "backlog" => sessions'[s].to = x
BY DEF TypeInv, Ends

LEMMA TypeStart ==
    ASSUME TypeInv, NEW n \in Nodes, start(n)
    PROVE  TypeInv'
<1>1. Types /\ Ends
    BY DEF TypeInv
<1>2. PICK ok \in SUBSET {m \in connect[n] : Accepts(<<m, 0>>)} :
        /\ Opened(n, ok)
        /\ timers' = [timers EXCEPT ![n] = [a \in Addresses |->
                IF a[2] = 0 /\ a[1] \in connect[n] \ ok THEN @[a] + 1 ELSE @[a]]]
        /\ failures' = [failures EXCEPT ![n] = [a \in Addresses |->
                IF a[2] = 0 /\ a[1] \in ok THEN 0 ELSE @[a]]]
    BY DEF start
<1>3. ok \in SUBSET (Nodes \ {n}) /\ ok \in SUBSET Nodes
    BY NodesAssumption
<1>4. sessions' \in Seq([from: Nodes, to: Nodes]) /\ Len(sessions') <= MaxSessions
    BY <1>1, <1>2, <1>3, OpenedSessions
<1>5. /\ end' \in [Ids -> [Nodes -> States]]
      /\ broken \subseteq DOMAIN sessions'
      /\ \A s \in Ids : \A x \in Nodes : end'[s][x] # "none" => s \in DOMAIN sessions'
      /\ \A s \in DOMAIN sessions' : sessions'[s].from # sessions'[s].to
      /\ \A s \in Ids : \A x \in Nodes : end'[s][x] = "backlog" => sessions'[s].to = x
      /\ \A x \in Nodes \ {n} : \A s \in Ids :
                end'[s][x] = "attached" <=> end[s][x] = "attached"
    BY <1>2, <1>3, OpenedEnds
<1>6. /\ status' \in [Nodes -> {"down", "running", "stopped"}]
      /\ status'[n] = "running" /\ \A x \in Nodes \ {n} : status'[x] = status[x]
    BY <1>1 DEF start, Types
<1>7. /\ starts' \in [Nodes -> Nat]
      /\ \A x \in Nodes : starts'[x] <= MaxStarts[x]
      /\ calls' \in [Nodes -> Nat] /\ \A x \in Nodes : calls'[x] <= starts'[x]
      /\ calls'[n] # 0 /\ \A x \in Nodes \ {n} : calls'[x] = calls[x]
    <2>1. /\ starts \in [Nodes -> Nat] /\ \A x \in Nodes : starts[x] <= MaxStarts[x]
          /\ MaxStarts \in [Nodes -> Nat]
          /\ starts[n] < MaxStarts[n] /\ starts' = [starts EXCEPT ![n] = @ + 1]
        BY <1>1, BoundsAssumption DEF start, Types
    <2>2. starts' \in [Nodes -> Nat]
        BY <2>1
    <2>3. starts'[n] <= MaxStarts[n]
        BY <2>1
    <2>4. \A x \in Nodes \ {n} : starts'[x] = starts[x]
        BY <2>1
    <2>5. /\ calls \in [Nodes -> Nat] /\ calls' = [calls EXCEPT ![n] = @ + 1]
          /\ \A x \in Nodes : calls[x] <= starts[x]
        BY <1>1 DEF start, Types
    <2>6. calls' \in [Nodes -> Nat] /\ calls'[n] <= starts'[n] /\ calls'[n] # 0
        BY <2>1, <2>5
    <2>7. \A x \in Nodes \ {n} : calls'[x] = calls[x]
        BY <2>5
    <2>8. \A x \in Nodes : calls'[x] <= starts'[x]
        BY <2>4, <2>5, <2>6, <2>7
    <2> QED BY <2>1, <2>2, <2>3, <2>4, <2>6, <2>7, <2>8
<1>8. /\ timers' \in [Nodes -> [Addresses -> Nat]]
      /\ \A x \in Nodes \ {n} : timers'[x] = timers[x]
    BY <1>1, <1>2 DEF Types
<1>9. timers'[n][<<n, 0>>] = 0
    <2>1. n \notin connect[n] /\ <<n, 0>> \in Addresses /\ timers[n][<<n, 0>>] = 0
        BY <1>1, AddressFields, NodesAssumption DEF Ends
    <2> QED BY <1>1, <1>2, <2>1 DEF Types
<1>f. failures' \in [Nodes -> [Addresses -> Nat]]
    BY <1>1, <1>2 DEF Types
<1>g. gaveUp' \in [Nodes -> SUBSET Addresses] /\ attempts' = attempts /\ broken' = broken
    BY <1>1 DEF start, Types
<1>10. Types'
    BY <1>1, <1>4, <1>5, <1>6, <1>7, <1>8, <1>f, <1>g DEF Types, States
<1>11. \A x \in Nodes : timers'[x][<<x, 0>>] = 0
    BY <1>1, <1>8, <1>9 DEF Ends
<1>12. \A x \in Nodes : status'[x] = "down" =>
            (\A s \in Ids : end'[s][x] # "attached") /\ timers'[x] = Zero
    <2> SUFFICES ASSUME NEW x \in Nodes, status'[x] = "down"
                 PROVE  (\A s \in Ids : end'[s][x] # "attached") /\ timers'[x] = Zero
        OBVIOUS
    <2>1. x \in Nodes \ {n} /\ status[x] = "down" /\ timers'[x] = timers[x]
        BY <1>6, <1>8
    <2>2. (\A s \in Ids : end[s][x] # "attached") /\ timers[x] = Zero
        BY <1>1, <2>1 DEF Ends
    <2> QED BY <1>5, <2>1, <2>2
<1>13. \A x \in Nodes : calls'[x] = 0 => status'[x] = "down"
    BY <1>1, <1>6, <1>7 DEF Ends
<1>14. Ends'
    BY <1>5, <1>11, <1>12, <1>13 DEF Ends, Zero, Addresses, Ids
<1> QED BY <1>10, <1>14 DEF TypeInv

\* What a node leaves it leaves broken.
LEMMA TypeDied ==
    ASSUME TypeInv, NEW n \in Nodes, Died(n)
    PROVE  TypeInv'
<1>1. Types /\ Ends
    BY DEF TypeInv
<1>2. /\ end' \in [Ids -> [Nodes -> States]]
      /\ \A s \in Ids : \A x \in Nodes :
            /\ end'[s][x] # "none" => end[s][x] # "none"
            /\ end'[s][x] = "backlog" => end[s][x] = "backlog"
            /\ end'[s][x] = "attached" <=> x # n /\ end[s][x] = "attached"
    BY LeftEnds DEF Died
<1>3. UNCHANGED sessions
    BY DEF Died
<1>4. broken' \subseteq DOMAIN sessions'
    BY <1>1, <1>3 DEF Died, detach, Held, Types, Ends
<1>5. Zero \in [Addresses -> Nat] /\ Zero \in [Addresses -> 0 .. MaxAttempts]
    BY BoundsAssumption DEF Zero
<1>c. /\ calls' \in [Nodes -> Nat] /\ UNCHANGED starts
      /\ \A x \in Nodes : calls'[x] <= starts'[x]
      /\ \A x \in Nodes \ {n} : calls'[x] = calls[x]
    BY <1>1 DEF Types, Died
<1>6. Types'
    BY <1>1, <1>2, <1>3, <1>4, <1>5, <1>c DEF Types, States, Died
<1>7. /\ timers'[n] = Zero /\ \A x \in Nodes \ {n} : timers'[x] = timers[x]
      /\ status'[n] = "down" /\ \A x \in Nodes \ {n} : status'[x] = status[x]
    BY <1>1 DEF Died, Types
<1>8. \A x \in Nodes : timers'[x][<<x, 0>>] = 0
    <2>1. Zero[<<n, 0>>] = 0
        BY AddressFields DEF Zero
    <2> QED BY <1>1, <1>7, <2>1 DEF Ends
<1>9. \A x \in Nodes : status'[x] = "down" =>
            (\A s \in Ids : end'[s][x] # "attached") /\ timers'[x] = Zero
    BY <1>1, <1>2, <1>7 DEF Ends
<1>e. \A x \in Nodes : calls'[x] = 0 => status'[x] = "down"
    BY <1>1, <1>7, <1>c DEF Ends
<1>10. Ends'
    BY <1>2, <1>3, <1>8, <1>9, <1>e, EndsKept DEF Ends, Zero, Addresses, Ids
<1> QED BY <1>6, <1>10 DEF TypeInv

LEMMA TypeStop ==
    ASSUME TypeInv, NEW n \in Nodes, stop(n)
    PROVE  TypeInv'
<1>1. CASE Died(n)
    BY <1>1, TypeDied
<1>2. CASE /\ status' = [status EXCEPT ![n] = "stopped"]
           /\ detach(n, Held(n))
           /\ UNCHANGED <<starts, calls, sessions, timing>>
    <2>1. Types /\ Ends /\ UNCHANGED <<starts, calls, sessions, timers, attempts, failures, gaveUp>>
        BY <1>2 DEF TypeInv, timing
    <2>2. /\ end' \in [Ids -> [Nodes -> States]]
          /\ \A s \in Ids : \A x \in Nodes :
                /\ end'[s][x] # "none" => end[s][x] # "none"
                /\ end'[s][x] = "backlog" => end[s][x] = "backlog"
                /\ end'[s][x] = "attached" <=> x # n /\ end[s][x] = "attached"
        BY <1>2, LeftEnds
    <2>3. broken' \subseteq DOMAIN sessions'
        BY <1>2, <2>1 DEF detach, Held, Types, Ends
    <2>4. Types'
        BY <1>2, <2>1, <2>2, <2>3 DEF Types, States
    <2>0. status[n] # "down"
        BY DEF stop
    <2>5. \A x \in Nodes : status'[x] = "down" => status[x] = "down"
        BY <1>2, <2>1 DEF Types
    <2>8. \A x \in Nodes : calls'[x] = 0 => status'[x] = "down"
        BY <1>2, <2>0, <2>1 DEF Types, Ends
    <2>6. \A x \in Nodes : status'[x] = "down" =>
                (\A s \in Ids : end'[s][x] # "attached") /\ timers'[x] = Zero
        BY <2>1, <2>2, <2>5 DEF Ends
    <2>7. Ends'
        BY <2>1, <2>2, <2>6, <2>8, EndsKept DEF Ends, Zero, Addresses, Ids
    <2> QED BY <2>4, <2>7 DEF TypeInv
<1> QED BY <1>1, <1>2 DEF stop

LEMMA TypeAccept ==
    ASSUME TypeInv, NEW n \in Nodes, onNewConnection(n)
    PROVE  TypeInv'
<1>1. Types /\ Ends /\ status[n] = "running"
      /\ end \in [Ids -> [Nodes -> States]]
      /\ end' = [s \in Ids |-> [end[s] EXCEPT ![n] = IF @ = "backlog" THEN "attached" ELSE @]]
      /\ UNCHANGED <<status, starts, calls, sessions, broken, timers, attempts, failures, gaveUp>>
    BY DEF TypeInv, onNewConnection, starting, timing, Types, States
<1>2. end' \in [Ids -> [Nodes -> States]]
    BY <1>1 DEF States
<1>3. \A s \in Ids : \A x \in Nodes :
            /\ end'[s][x] # "none" => end[s][x] # "none"
            /\ end'[s][x] = "backlog" => end[s][x] = "backlog"
            /\ x # n => end'[s][x] = end[s][x]
    BY <1>1 DEF States
<1>4. Types'
    BY <1>1, <1>2 DEF Types, States
<1>5. \A x \in Nodes : status'[x] = "down" =>
            (\A s \in Ids : end'[s][x] # "attached") /\ timers'[x] = Zero
    BY <1>1, <1>3 DEF Ends
<1>6. Ends'
    BY <1>1, <1>3, <1>5, EndsKept DEF Ends, Zero, Addresses, Ids
<1> QED BY <1>4, <1>6 DEF TypeInv

\* An error is of a session that is known; the timer is for another node, or
\* for an ephemeral port.
LEMMA ErrorAddress ==
    ASSUME TypeInv, NEW n \in Nodes, NEW s \in Ids, s \in Attached(n)
    PROVE  /\ s \in DOMAIN sessions /\ PeerAddress(s, n) \in Addresses
           /\ sessions[s].from = n =>
                PeerAddress(s, n) = <<sessions[s].to, 0>> /\ sessions[s].to # n
           /\ sessions[s].from # n => \A m \in Nodes : PeerAddress(s, n) # <<m, 0>>
<1>1. s \in DOMAIN sessions /\ sessions[s].from # sessions[s].to
    BY DEF TypeInv, Ends, Attached
<1>2. sessions[s].from \in Nodes /\ sessions[s].to \in Nodes
    <2>1. sessions \in Seq([from: Nodes, to: Nodes])
        BY DEF TypeInv, Types
    <2>2. sessions[s] \in [from: Nodes, to: Nodes]
        BY <1>1, <2>1, ElementOfSeq, LenProperties
    <2> QED BY <2>2
<1>3. s \in 1 .. MaxSessions /\ MaxSessions \in Nat
    BY BoundsAssumption DEF Ids
<1> QED BY <1>1, <1>2, <1>3 DEF PeerAddress, Addresses

LEMMA ErrorEnds ==
    ASSUME TypeInv, NEW n \in Nodes, NEW s \in Ids, onSocketError(n, s)
    PROVE  end' = [end EXCEPT ![s][n] = "gone"] /\ broken' = broken
<1>1. end \in [Ids -> [Nodes -> States]]
    BY DEF TypeInv, Types, States
<1>2. end' = [i \in Ids |-> [end[i] EXCEPT ![n] = IF i \in {s} THEN "gone" ELSE @]]
    BY DEF onSocketError, detach
<1>3. end' = [end EXCEPT ![s][n] = "gone"]
    BY <1>1, <1>2
<1>4. s \in broken /\ broken' = broken \cup {s}
    BY DEF onSocketError, detach
<1> QED BY <1>3, <1>4

LEMMA TypeError ==
    ASSUME TypeInv, NEW n \in Nodes, NEW s \in Ids, onSocketError(n, s)
    PROVE  TypeInv'
<1>1. Types /\ Ends /\ s \in Attached(n)
      /\ end \in [Ids -> [Nodes -> States]]
      /\ end' = [end EXCEPT ![s][n] = "gone"] /\ broken' = broken
      /\ timers' = [timers EXCEPT ![n][PeerAddress(s, n)] = @ + 1]
      /\ UNCHANGED <<status, starts, calls, sessions, attempts, failures, gaveUp>>
    BY ErrorEnds DEF TypeInv, onSocketError, starting, Types, States
<1>2. PeerAddress(s, n) \in Addresses /\ PeerAddress(s, n) # <<n, 0>>
    BY <1>1, ErrorAddress
<1>3. end' \in [Ids -> [Nodes -> States]]
    BY <1>1 DEF States
<1>4. timers \in [Nodes -> [Addresses -> Nat]]
    BY <1>1 DEF Types
<1>5. timers' \in [Nodes -> [Addresses -> Nat]]
    BY <1>1, <1>2, <1>4
<1>6. Types'
    BY <1>1, <1>3, <1>5 DEF Types, States
<1>7. \A i \in Ids : \A x \in Nodes :
            /\ end'[i][x] # "none" => end[i][x] # "none"
            /\ end'[i][x] = "backlog" => end[i][x] = "backlog"
            /\ end'[i][x] = "attached" => end[i][x] = "attached"
    <2>1. end[s][n] = "attached"
        BY <1>1 DEF Attached
    <2> QED BY <1>1, <2>1 DEF States
<1>8. \A x \in Nodes \ {n} : timers'[x] = timers[x]
    BY <1>1, <1>4
<1>9. timers'[n][<<n, 0>>] = timers[n][<<n, 0>>]
    BY <1>1, <1>2, <1>4, AddressFields
<1>10. status[n] # "down"
    BY <1>1 DEF Ends, Attached
<1>11. \A x \in Nodes : timers'[x][<<x, 0>>] = 0
    BY <1>1, <1>8, <1>9 DEF Ends
<1>12. \A x \in Nodes : status'[x] = "down" =>
            (\A i \in Ids : end'[i][x] # "attached") /\ timers'[x] = Zero
    BY <1>1, <1>7, <1>8, <1>10 DEF Ends
<1>13. Ends'
    BY <1>1, <1>7, <1>11, <1>12, EndsKept DEF Ends, Zero, Addresses, Ids
<1> QED BY <1>6, <1>13 DEF TypeInv

\* A timer that ends was there; a node that is down has none.
LEMMA TimerSteps ==
    ASSUME TypeInv, NEW n \in Nodes, NEW a \in Addresses, timers[n][a] > 0
    PROVE  /\ status[n] # "down"
           /\ a[2] = 0 => a = <<a[1], 0>> /\ a[1] \in Nodes \ {n}
           /\ TimerEnded(n, a) \in [Nodes -> [Addresses -> Nat]]
           /\ TimerEnded(n, a)[n][a] = timers[n][a] - 1
           /\ \A b \in Addresses : b # a => TimerEnded(n, a)[n][b] = timers[n][b]
           /\ \A x \in Nodes \ {n} : TimerEnded(n, a)[x] = timers[x]
<1>1. timers \in [Nodes -> [Addresses -> Nat]]
    BY DEF TypeInv, Types
<1>2. timers[n][a] \in Nat \ {0}
    BY <1>1
<1>3. status[n] # "down"
    BY <1>2 DEF TypeInv, Ends, Zero
<1>4. a[2] = 0 => a = <<a[1], 0>> /\ a[1] \in Nodes
    BY AddressFields
<1>5. timers[n][<<n, 0>>] = 0
    BY DEF TypeInv, Ends
<1>6. timers[n][a] - 1 \in Nat
    BY <1>2
<1> QED BY <1>1, <1>2, <1>3, <1>4, <1>5, <1>6 DEF TimerEnded

LEMMA TypeTimeout ==
    ASSUME TypeInv, NEW n \in Nodes, NEW a \in Addresses, Timeout(n, a)
    PROVE  TypeInv'
<1>1. Types /\ Ends /\ timers[n][a] > 0 /\ UNCHANGED <<status, starts, calls>>
      /\ timers \in [Nodes -> [Addresses -> Nat]]
    BY DEF TypeInv, Types, Timeout, starting
<1>2. /\ status[n] # "down"
      /\ a[2] = 0 => a = <<a[1], 0>> /\ a[1] \in Nodes \ {n}
      /\ TimerEnded(n, a) \in [Nodes -> [Addresses -> Nat]]
      /\ TimerEnded(n, a)[n][a] = timers[n][a] - 1
      /\ \A b \in Addresses : b # a => TimerEnded(n, a)[n][b] = timers[n][b]
      /\ \A x \in Nodes \ {n} : TimerEnded(n, a)[x] = timers[x]
    BY <1>1, TimerSteps
<1>3. TimerEnded(n, a)[n][<<n, 0>>] = 0
    <2>1. <<n, 0>> \in Addresses /\ timers[n][<<n, 0>>] = 0
        BY <1>1, AddressFields DEF Ends
    <2> QED BY <1>1, <1>2, <2>1
<1>4. CASE GiveUp(n, a)
    <2>1. /\ timers' = TimerEnded(n, a)
          /\ gaveUp' = [gaveUp EXCEPT ![n] = @ \cup {a}]
          /\ UNCHANGED <<sessions, end, broken, attempts, failures>>
        BY <1>4 DEF GiveUp, links
    <2>2. gaveUp' \in [Nodes -> SUBSET Addresses]
        BY <1>1, <2>1 DEF Types
    <2>3. Types'
        BY <1>1, <1>2, <2>1, <2>2 DEF Types
    <2>4. \A x \in Nodes : timers'[x][<<x, 0>>] = 0
        BY <1>1, <1>2, <1>3, <2>1 DEF Ends
    <2>5. \A x \in Nodes : status'[x] = "down" =>
                (\A s \in Ids : end'[s][x] # "attached") /\ timers'[x] = Zero
        BY <1>1, <1>2, <2>1 DEF Ends
    <2>6. Ends'
        BY <1>1, <2>1, <2>4, <2>5 DEF Ends, Zero, Addresses, Ids
    <2> QED BY <2>3, <2>6 DEF TypeInv
<1>5. CASE Reconnect(n, a)
    <2>1. /\ Opened(n, {a[1]}) /\ a[2] = 0
          /\ timers' = TimerEnded(n, a)
          /\ attempts' = [attempts EXCEPT ![n][a] = 0]
          /\ failures' = [failures EXCEPT ![n][a] = 0]
          /\ UNCHANGED <<broken, gaveUp>>
        BY <1>5 DEF Reconnect, AttemptsForgotten, Accepts
    <2>2. {a[1]} \in SUBSET (Nodes \ {n}) /\ {a[1]} \in SUBSET Nodes
        BY <1>2, <2>1
    <2>3. sessions' \in Seq([from: Nodes, to: Nodes]) /\ Len(sessions') <= MaxSessions
        BY <1>1, <2>1, <2>2, OpenedSessions
    <2>4. /\ end' \in [Ids -> [Nodes -> States]]
          /\ broken \subseteq DOMAIN sessions'
          /\ \A s \in Ids : \A x \in Nodes : end'[s][x] # "none" => s \in DOMAIN sessions'
          /\ \A s \in DOMAIN sessions' : sessions'[s].from # sessions'[s].to
          /\ \A s \in Ids : \A x \in Nodes : end'[s][x] = "backlog" => sessions'[s].to = x
          /\ \A x \in Nodes \ {n} : \A s \in Ids :
                    end'[s][x] = "attached" <=> end[s][x] = "attached"
        BY <2>1, <2>2, OpenedEnds
    <2>5. /\ attempts' \in [Nodes -> [Addresses -> 0 .. MaxAttempts]]
          /\ failures' \in [Nodes -> [Addresses -> Nat]]
        BY <1>1, <2>1, BoundsAssumption DEF Types
    <2>6. Types'
        BY <1>1, <1>2, <2>1, <2>3, <2>4, <2>5 DEF Types, States
    <2>7. \A x \in Nodes : timers'[x][<<x, 0>>] = 0
        BY <1>1, <1>2, <1>3, <2>1 DEF Ends
    <2>8. \A x \in Nodes : status'[x] = "down" =>
                (\A s \in Ids : end'[s][x] # "attached") /\ timers'[x] = Zero
        BY <1>1, <1>2, <2>1, <2>4 DEF Ends
    <2>c. \A x \in Nodes : calls'[x] = 0 => status'[x] = "down"
        BY <1>1 DEF Ends
    <2>9. Ends'
        BY <2>4, <2>7, <2>8, <2>c DEF Ends, Zero, Addresses, Ids
    <2> QED BY <2>6, <2>9 DEF TypeInv
<1>6. CASE Fail(n, a)
    <2>1. /\ ~(attempts[n][a] >= MaxAttempts)
          /\ attempts' = [attempts EXCEPT ![n][a] = @ + 1]
          /\ failures' = [failures EXCEPT ![n][a] = @ + 1]
          /\ UNCHANGED <<sessions, end, broken, timers, gaveUp>>
        BY <1>6 DEF Fail, FailAgain, Exhausted, links
    <2>2. attempts' \in [Nodes -> [Addresses -> 0 .. MaxAttempts]]
        <3>1. attempts \in [Nodes -> [Addresses -> 0 .. MaxAttempts]]
            BY <1>1 DEF Types
        <3>2. attempts[n][a] + 1 \in 0 .. MaxAttempts
            BY <2>1, <3>1, BoundsAssumption
        <3> QED BY <2>1, <3>1, <3>2
    <2>3. failures' \in [Nodes -> [Addresses -> Nat]]
        <3>1. failures \in [Nodes -> [Addresses -> Nat]]
            BY <1>1 DEF Types
        <3> QED BY <2>1, <3>1
    <2>4. Types'
        BY <1>1, <2>1, <2>2, <2>3 DEF Types
    <2>5. Ends'
        BY <1>1, <2>1 DEF Ends, Zero, Addresses, Ids
    <2> QED BY <2>4, <2>5 DEF TypeInv
<1> QED BY <1>4, <1>5, <1>6 DEF Timeout

\* Steps on frames, and a step that changes nothing, leave the types alone.
LEMMA TypeKept ==
    ASSUME TypeInv, UNCHANGED <<status, starts, calls, sessions, end, timing>>,
           broken' \subseteq DOMAIN sessions
    PROVE  TypeInv'
<1>1. UNCHANGED <<timers, attempts, failures, gaveUp>>
    BY DEF timing
<1>2. Types'
    BY <1>1 DEF TypeInv, Types
<1>3. Ends'
    BY <1>1 DEF TypeInv, Ends, Zero, Addresses, Ids
<1> QED BY <1>2, <1>3 DEF TypeInv

LEMMA TypeNext == TypeInv /\ [Next]_vars => TypeInv'
<1> SUFFICES ASSUME TypeInv, [Next]_vars PROVE TypeInv'
    OBVIOUS
<1>1. broken \subseteq DOMAIN sessions
    BY DEF TypeInv, Types
<1>2. ASSUME NEW n \in Nodes, start(n) PROVE TypeInv'
    BY <1>2, TypeStart
<1>3. ASSUME NEW n \in Nodes, stop(n) PROVE TypeInv'
    BY <1>3, TypeStop
<1>4. ASSUME NEW n \in Nodes, Crash(n) PROVE TypeInv'
    BY <1>4, TypeDied DEF Crash
<1>5. ASSUME NEW n \in Nodes, onNewConnection(n) PROVE TypeInv'
    BY <1>5, TypeAccept
<1>6. ASSUME NEW n \in Nodes, NEW f \in Frames, send(n, f) PROVE TypeInv'
    <2>1. UNCHANGED <<status, starts, calls, sessions, end, broken, timing>>
        BY <1>6 DEF send, links, starting
    <2> QED BY <1>1, <2>1, TypeKept
<1>7. ASSUME NEW n \in Nodes, NEW s \in Ids, onReadyRead(n, s) PROVE TypeInv'
    <2>1. UNCHANGED <<status, starts, calls, sessions, end, broken, timing>>
        BY <1>7 DEF onReadyRead, links, starting
    <2> QED BY <1>1, <2>1, TypeKept
<1>8. ASSUME NEW n \in Nodes, NEW s \in Ids, onSocketError(n, s) PROVE TypeInv'
    BY <1>8, TypeError
<1>9. ASSUME NEW n \in Nodes, NEW a \in Addresses, Timeout(n, a) PROVE TypeInv'
    BY <1>9, TypeTimeout
<1>10. ASSUME NEW s \in Ids, Break(s) PROVE TypeInv'
    <2>1. UNCHANGED <<status, starts, calls, sessions, end, timing>> /\ broken' \subseteq DOMAIN sessions
        BY <1>1, <1>10 DEF Break, starting
    <2> QED BY <2>1, TypeKept
<1>11. CASE UNCHANGED vars
    <2>1. UNCHANGED <<status, starts, calls, sessions, end, broken, timing>>
        BY <1>11 DEF vars, links, starting
    <2> QED BY <1>1, <2>1, TypeKept
<1> QED BY <1>2, <1>3, <1>4, <1>5, <1>6, <1>7, <1>8, <1>9, <1>10, <1>11 DEF Next

LEMMA Typed == Spec => []TypeInv
<1> QED BY TypeInit, TypeNext, PTL DEF Spec

(***************************************************************************)
(* The state keeps its types, and a node that is down holds no session and *)
(* no timer, for any number of nodes and sessions.                         *)
(***************************************************************************)
THEOREM TypeCorrect == Spec => []TypeOK
<1> QED BY Typed, TypeInvImplies, PTL

-----------------------------------------------------------------------------
(***************************************************************************)
(* Giving up.  An address that was given up has used up its counter and,   *)
(* being exhausted, is not tried again.  The counter is at least the       *)
(* number of attempts that failed since the last success; it is more only  *)
(* by those from before a later start, which connects without clearing it. *)
(***************************************************************************)
TurnOK(n, a) ==
    /\ failures[n][a] <= attempts[n][a]
    /\ calls[n] <= 1 => failures[n][a] = attempts[n][a]
    /\ calls[n] = 0 => attempts[n][a] = 0
    /\ a \in gaveUp[n] => attempts[n][a] >= MaxAttempts

TurnInv == \A n \in Nodes : \A a \in Addresses : TurnOK(n, a)

LEMMA TurnInvImplies == TypeInv /\ TurnInv => GivenUpInTurn
<1> SUFFICES ASSUME TypeInv, TurnInv, NEW n \in Nodes, NEW a \in Addresses
             PROVE  /\ failures[n][a] <= MaxAttempts
                    /\ a \in gaveUp[n] /\ calls[n] = 1 => failures[n][a] = MaxAttempts
    BY DEF GivenUpInTurn
<1>1. TurnOK(n, a)
    BY DEF TurnInv
<1>2. attempts[n][a] \in 0 .. MaxAttempts /\ failures[n][a] \in Nat
    BY DEF TypeInv, Types
<1> QED BY <1>1, <1>2, BoundsAssumption DEF TurnOK

LEMMA TurnInit == Init => TurnInv
BY BoundsAssumption DEF Init, TurnInv, TurnOK, Zero

LEMMA TurnKept ==
    ASSUME TurnInv, UNCHANGED <<calls, attempts, failures, gaveUp>>
    PROVE  TurnInv'
BY DEF TurnInv, TurnOK, Addresses

LEMMA TurnStart ==
    ASSUME TypeInv, TurnInv, NEW n \in Nodes, start(n)
    PROVE  TurnInv'
<1>1. /\ calls \in [Nodes -> Nat] /\ calls' = [calls EXCEPT ![n] = @ + 1]
      /\ attempts \in [Nodes -> [Addresses -> 0 .. MaxAttempts]] /\ attempts' = attempts
      /\ failures \in [Nodes -> [Addresses -> Nat]]
      /\ gaveUp \in [Nodes -> SUBSET Addresses]
      /\ gaveUp' = [gaveUp EXCEPT ![n] = @ \ {<<m, 0>> : m \in connect[n]}]
    BY DEF TypeInv, Types, start
<1>2. PICK ok \in SUBSET connect[n] :
        failures' = [failures EXCEPT ![n] = [a \in Addresses |->
                IF a[2] = 0 /\ a[1] \in ok THEN 0 ELSE @[a]]]
    BY DEF start
<1>3. ASSUME NEW x \in Nodes, NEW a \in Addresses PROVE TurnOK(x, a)'
    <2>1. TurnOK(x, a) /\ attempts[x][a] \in Nat /\ failures[x][a] \in Nat /\ calls[x] \in Nat
        BY <1>1, BoundsAssumption DEF TurnInv
    <2>2. CASE x = n
        <3>1. failures'[x][a] = 0 \/ failures'[x][a] = failures[x][a]
            BY <1>1, <1>2, <2>2
        <3>2. calls'[x] = calls[x] + 1 /\ attempts'[x][a] = attempts[x][a]
              /\ (a \in gaveUp'[x] => a \in gaveUp[x])
            BY <1>1, <2>2
        <3>3. failures'[x][a] <= attempts'[x][a]
            BY <2>1, <3>1, <3>2 DEF TurnOK
        <3>4. calls'[x] <= 1 => failures'[x][a] = attempts'[x][a]
            BY <2>1, <3>1, <3>2 DEF TurnOK
        <3>5. calls'[x] # 0
            BY <2>1, <3>2
        <3> QED BY <2>1, <3>2, <3>3, <3>4, <3>5 DEF TurnOK
    <2>3. CASE x # n
        <3>1. /\ failures'[x] = failures[x] /\ calls'[x] = calls[x]
              /\ gaveUp'[x] = gaveUp[x] /\ attempts' = attempts
            BY <1>1, <1>2, <2>3
        <3> QED BY <2>1, <3>1 DEF TurnOK
    <2> QED BY <2>2, <2>3
<1> QED BY <1>3 DEF TurnInv, Addresses

LEMMA TurnDied ==
    ASSUME TypeInv, TurnInv, NEW n \in Nodes, Died(n)
    PROVE  TurnInv'
<1>1. /\ attempts' = [attempts EXCEPT ![n] = Zero]
      /\ failures' = [failures EXCEPT ![n] = Zero]
      /\ gaveUp' = [gaveUp EXCEPT ![n] = {}]
      /\ calls' = [calls EXCEPT ![n] = 0]
    BY DEF Died
<1>2. DOMAIN attempts = Nodes /\ DOMAIN failures = Nodes /\ DOMAIN gaveUp = Nodes
      /\ DOMAIN calls = Nodes
    BY DEF TypeInv, Types
<1>3. ASSUME NEW x \in Nodes, NEW a \in Addresses PROVE TurnOK(x, a)'
    <2>1. CASE x = n
        <3>1. attempts'[x] = Zero /\ failures'[x] = Zero /\ gaveUp'[x] = {}
            BY <1>1, <1>2, <2>1
        <3>2. Zero[a] = 0
            BY DEF Zero
        <3> QED BY <3>1, <3>2 DEF TurnOK
    <2>2. CASE x # n
        <3>1. attempts'[x] = attempts[x] /\ failures'[x] = failures[x]
              /\ gaveUp'[x] = gaveUp[x] /\ calls'[x] = calls[x]
            BY <1>1, <1>2, <2>2
        <3> QED BY <3>1 DEF TurnInv, TurnOK
    <2> QED BY <2>1, <2>2
<1> QED BY <1>3 DEF TurnInv, Addresses

LEMMA TurnTimeout ==
    ASSUME TypeInv, TurnInv, NEW n \in Nodes, NEW a \in Addresses, Timeout(n, a)
    PROVE  TurnInv'
<1>1. /\ attempts \in [Nodes -> [Addresses -> 0 .. MaxAttempts]]
      /\ failures \in [Nodes -> [Addresses -> Nat]]
      /\ gaveUp \in [Nodes -> SUBSET Addresses]
      /\ calls \in [Nodes -> Nat] /\ calls' = calls
    BY DEF TypeInv, Types, Timeout, starting
<1>2. TurnOK(n, a) /\ attempts[n][a] \in Nat /\ failures[n][a] \in Nat
    BY <1>1, BoundsAssumption DEF TurnInv
<1>c. calls[n] # 0
    <2>1. status[n] # "down"
        BY TimerSteps DEF Timeout
    <2> QED BY <2>1 DEF TypeInv, Ends
<1>3. CASE GiveUp(n, a)
    <2>1. /\ attempts[n][a] >= MaxAttempts
          /\ gaveUp' = [gaveUp EXCEPT ![n] = @ \cup {a}]
          /\ UNCHANGED <<attempts, failures>>
        BY <1>3 DEF GiveUp, Exhausted
    <2>2. ASSUME NEW x \in Nodes, NEW b \in Addresses, b \in gaveUp'[x]
          PROVE  attempts'[x][b] >= MaxAttempts
        <3>1. CASE x = n /\ b = a
            BY <2>1, <3>1
        <3>2. CASE ~(x = n /\ b = a)
            <4>1. b \in gaveUp[x]
                BY <1>1, <2>1, <2>2, <3>2
            <4> QED BY <2>1, <4>1 DEF TurnInv, TurnOK
        <3> QED BY <3>1, <3>2
    <2> QED BY <1>1, <2>1, <2>2 DEF TurnInv, TurnOK, Addresses
<1>4. ASSUME NEW k \in Nat, NEW j \in Nat, ~(attempts[n][a] >= MaxAttempts),
             j <= k, calls[n] <= 1 => j = k,
             attempts' = [attempts EXCEPT ![n][a] = k],
             failures' = [failures EXCEPT ![n][a] = j],
             UNCHANGED gaveUp
      PROVE  TurnInv'
    <2>1. ASSUME NEW x \in Nodes, NEW b \in Addresses PROVE TurnOK(x, b)'
        <3>1. CASE x = n /\ b = a
            <4>1. attempts'[x][b] = k /\ failures'[x][b] = j
                BY <1>1, <1>4, <3>1
            <4>2. b \notin gaveUp'[x]
                BY <1>2, <1>4, <3>1 DEF TurnOK
            <4> QED BY <1>1, <1>4, <1>c, <3>1, <4>1, <4>2 DEF TurnOK
        <3>2. CASE ~(x = n /\ b = a)
            <4>1. attempts'[x][b] = attempts[x][b] /\ failures'[x][b] = failures[x][b]
                BY <1>1, <1>4, <3>2
            <4> QED BY <1>1, <1>4, <4>1 DEF TurnInv, TurnOK
        <3> QED BY <3>1, <3>2
    <2> QED BY <2>1 DEF TurnInv, Addresses
<1>5. CASE Reconnect(n, a)
    <2>1. /\ ~(attempts[n][a] >= MaxAttempts)
          /\ attempts' = [attempts EXCEPT ![n][a] = 0]
          /\ failures' = [failures EXCEPT ![n][a] = 0]
          /\ UNCHANGED gaveUp
        BY <1>5 DEF Reconnect, Exhausted, AttemptsForgotten
    <2>2. 0 \in Nat /\ 0 <= 0
        OBVIOUS
    <2> QED BY <1>4, <2>1, <2>2
<1>6. CASE Fail(n, a)
    <2>1. attempts[n][a] + 1 \in Nat /\ failures[n][a] + 1 \in Nat
          /\ failures[n][a] + 1 <= attempts[n][a] + 1
          /\ (calls[n] <= 1 => failures[n][a] + 1 = attempts[n][a] + 1)
        BY <1>2 DEF TurnOK
    <2>2. /\ ~(attempts[n][a] >= MaxAttempts)
          /\ attempts' = [attempts EXCEPT ![n][a] = attempts[n][a] + 1]
          /\ failures' = [failures EXCEPT ![n][a] = failures[n][a] + 1]
          /\ UNCHANGED gaveUp
        BY <1>6 DEF Fail, Exhausted
    <2> QED BY <1>4, <2>1, <2>2
<1> QED BY <1>3, <1>5, <1>6 DEF Timeout

LEMMA TurnNext == TypeInv /\ TurnInv /\ [Next]_vars => TurnInv'
<1> SUFFICES ASSUME TypeInv, TurnInv, [Next]_vars PROVE TurnInv'
    OBVIOUS
<1>1. ASSUME NEW n \in Nodes, start(n) PROVE TurnInv'
    BY <1>1, TurnStart
<1>2. ASSUME NEW n \in Nodes, stop(n) PROVE TurnInv'
    BY <1>2, TurnKept, TurnDied DEF stop, timing
<1>3. ASSUME NEW n \in Nodes, Crash(n) PROVE TurnInv'
    BY <1>3, TurnDied DEF Crash
<1>4. ASSUME NEW n \in Nodes, onNewConnection(n) PROVE TurnInv'
    BY <1>4, TurnKept DEF onNewConnection, timing, starting
<1>5. ASSUME NEW n \in Nodes, NEW f \in Frames, send(n, f) PROVE TurnInv'
    BY <1>5, TurnKept DEF send, timing, starting
<1>6. ASSUME NEW n \in Nodes, NEW s \in Ids, onReadyRead(n, s) PROVE TurnInv'
    BY <1>6, TurnKept DEF onReadyRead, timing, starting
<1>7. ASSUME NEW n \in Nodes, NEW s \in Ids, onSocketError(n, s) PROVE TurnInv'
    BY <1>7, TurnKept DEF onSocketError, starting
<1>8. ASSUME NEW n \in Nodes, NEW a \in Addresses, Timeout(n, a) PROVE TurnInv'
    BY <1>8, TurnTimeout
<1>9. ASSUME NEW s \in Ids, Break(s) PROVE TurnInv'
    BY <1>9, TurnKept DEF Break, timing, starting
<1>10. CASE UNCHANGED vars
    BY <1>10, TurnKept DEF vars, timing, starting
<1> QED BY <1>1, <1>2, <1>3, <1>4, <1>5, <1>6, <1>7, <1>8, <1>9, <1>10 DEF Next

(***************************************************************************)
(* However timers, broken sessions and calls of start interleave, an       *)
(* address is never tried more than MaxAttempts times in a row without     *)
(* success; and with one call of start it is given up only after exactly   *)
(* so many.                                                                *)
(***************************************************************************)
THEOREM GivesUpInTurn == Spec => []GivenUpInTurn
<1> QED BY Typed, TurnInit, TurnNext, TurnInvImplies, PTL DEF Spec

-----------------------------------------------------------------------------
(***************************************************************************)
(* One link for each target and start.  A session and a timer are counted  *)
(* together: a start makes one or the other for each target, an error      *)
(* trades the one for the other, a reconnection trades it back, and giving *)
(* up spends it.                                                           *)
(***************************************************************************)
Count(n, m) == Cardinality(Linked(n, m)) + timers[n][<<m, 0>>]

LinkOK(n, m) ==
    /\ Count(n, m) <= calls[n]
    /\ status[n] = "running" /\ Count(n, m) = 0 => <<m, 0>> \in gaveUp[n]

LinkInv == \A n \in Nodes : \A m \in connect[n] : LinkOK(n, m)

LEMMA LinkInvImplies == LinkInv => OneLinkPerStart
BY DEF LinkInv, LinkOK, Count, OneLinkPerStart

LEMMA TargetFacts ==
    ASSUME NEW n \in Nodes, NEW m \in connect[n]
    PROVE  m \in Nodes /\ m # n /\ <<m, 0>> \in Addresses
BY NodesAssumption, BoundsAssumption DEF Addresses

LEMMA LinkedFinite == \A n, m : IsFiniteSet(Linked(n, m)) /\ Cardinality(Linked(n, m)) \in Nat
<1> TAKE n, m
<1>1. IsFiniteSet(Ids)
    BY BoundsAssumption, FS_Interval DEF Ids
<1>2. Linked(n, m) \in SUBSET Ids
    BY DEF Linked, Attached
<1> QED BY <1>1, <1>2, FS_Subset, FS_CardinalityType

\* A node without sessions has none to a target.
LEMMA LinkedOfNone ==
    ASSUME NEW n \in Nodes, \A s \in Ids : end[s][n] # "attached"
    PROVE  \A m : Linked(n, m) = {} /\ Cardinality(Linked(n, m)) = 0
<1> TAKE m
<1>1. Linked(n, m) = {}
    BY DEF Linked, Attached
<1> QED BY <1>1, FS_EmptySet

LEMMA LinkKept ==
    ASSUME NEW n \in Nodes, NEW m \in connect[n], LinkOK(n, m), Linked(n, m)' = Linked(n, m),
           timers'[n][<<m, 0>>] = timers[n][<<m, 0>>],
           calls'[n] = calls[n], status'[n] = "running" => status[n] = "running",
           <<m, 0>> \in gaveUp[n] => <<m, 0>> \in gaveUp'[n]
    PROVE  LinkOK(n, m)'
<1>1. Count(n, m)' = Count(n, m)
    BY DEF Count
<1> QED BY <1>1 DEF LinkOK

LEMMA LinkInit == Init => LinkInv
<1> SUFFICES ASSUME Init, NEW n \in Nodes, NEW m \in connect[n] PROVE LinkOK(n, m)
    BY DEF LinkInv
<1>1. \A s \in Ids : end[s][n] # "attached"
    BY DEF Init
<1>2. timers[n][<<m, 0>>] = 0 /\ status[n] # "running"
    BY TargetFacts DEF Init, Zero
<1>3. Cardinality(Linked(n, m)) = 0
    BY <1>1, LinkedOfNone
<1>4. calls[n] = 0
    BY DEF Init
<1> QED BY <1>2, <1>3, <1>4 DEF LinkOK, Count

LEMMA LinkStart ==
    ASSUME TypeInv, LinkInv, NEW k \in Nodes, start(k)
    PROVE  LinkInv'
<1>1. PICK ok \in SUBSET {m \in connect[k] : Accepts(<<m, 0>>)} :
        /\ Opened(k, ok)
        /\ timers' = [timers EXCEPT ![k] = [a \in Addresses |->
                IF a[2] = 0 /\ a[1] \in connect[k] \ ok THEN @[a] + 1 ELSE @[a]]]
    BY DEF start
<1>2. ok \in SUBSET (Nodes \ {k})
    BY NodesAssumption
<1>3. /\ \A x \in Nodes \ {k} : \A m \in Nodes : Linked(x, m)' = Linked(x, m)
      /\ \A m \in Nodes \ ok : Linked(k, m)' = Linked(k, m)
      /\ \A m \in ok : \E i \in Ids :
            i \notin Linked(k, m) /\ Linked(k, m)' = Linked(k, m) \cup {i}
    BY <1>1, <1>2, OpenedEnds
<1>4. /\ timers \in [Nodes -> [Addresses -> Nat]]
      /\ status \in [Nodes -> {"down", "running", "stopped"}]
      /\ gaveUp \in [Nodes -> SUBSET Addresses]
      /\ calls \in [Nodes -> Nat] /\ calls' = [calls EXCEPT ![k] = @ + 1]
      /\ status' = [status EXCEPT ![k] = "running"]
      /\ gaveUp' = [gaveUp EXCEPT ![k] = @ \ {<<m, 0>> : m \in connect[k]}]
    BY DEF TypeInv, Types, start
<1> SUFFICES ASSUME NEW n \in Nodes, NEW m \in connect[n] PROVE LinkOK(n, m)'
    BY DEF LinkInv
<1>6. m \in Nodes /\ <<m, 0>> \in Addresses /\ LinkOK(n, m)
    BY TargetFacts DEF LinkInv
<1>7. CASE n # k
    <2>1. /\ timers'[n] = timers[n] /\ status'[n] = status[n]
          /\ calls'[n] = calls[n] /\ gaveUp'[n] = gaveUp[n]
        BY <1>1, <1>4, <1>7
    <2>2. Linked(n, m)' = Linked(n, m)
        BY <1>3, <1>6, <1>7
    <2> QED BY <1>6, <2>1, <2>2, LinkKept
<1>8. CASE n = k
    <2>1. timers'[n][<<m, 0>>] = IF m \in ok THEN timers[n][<<m, 0>>] ELSE timers[n][<<m, 0>>] + 1
        BY <1>1, <1>4, <1>6, <1>8
    <2>2. IsFiniteSet(Linked(n, m)) /\ Cardinality(Linked(n, m)) \in Nat
        BY LinkedFinite
    <2>3. timers[n][<<m, 0>>] \in Nat /\ calls[n] \in Nat /\ calls'[n] = calls[n] + 1
        BY <1>4, <1>6, <1>8
    <2>4. Cardinality(Linked(n, m)') =
                IF m \in ok THEN Cardinality(Linked(n, m)) + 1 ELSE Cardinality(Linked(n, m))
        <3>1. CASE m \in ok
            <4>1. PICK i \in Ids : i \notin Linked(n, m) /\ Linked(n, m)' = Linked(n, m) \cup {i}
                BY <1>3, <1>8, <3>1
            <4> QED BY <2>2, <3>1, <4>1, FS_AddElement
        <3>2. CASE m \notin ok
            BY <1>3, <1>6, <1>8, <3>2
        <3> QED BY <3>1, <3>2
    <2>5. Count(n, m)' = Count(n, m) + 1
        BY <2>1, <2>2, <2>3, <2>4 DEF Count
    <2>6. Count(n, m) \in Nat
        BY <2>2, <2>3 DEF Count
    <2>7. Count(n, m)' <= calls'[n] /\ Count(n, m)' # 0
        BY <1>6, <2>3, <2>5, <2>6 DEF LinkOK
    <2> QED BY <2>7 DEF LinkOK
<1> QED BY <1>7, <1>8

\* The sessions of a node that dies or stops are gone, those of others stay.
LEMMA LinkedLeft ==
    ASSUME TypeInv, NEW n \in Nodes, UNCHANGED sessions, detach(n, Held(n))
    PROVE  /\ \A x \in Nodes \ {n} : \A m : Linked(x, m)' = Linked(x, m)
           /\ \A m : Linked(n, m)' = {} /\ Cardinality(Linked(n, m)') = 0
<1>1. \A s \in Ids : \A x \in Nodes :
            end'[s][x] = "attached" <=> x # n /\ end[s][x] = "attached"
    BY LeftEnds
<1>2. \A x \in Nodes \ {n} : Attached(x)' = Attached(x)
    BY <1>1 DEF Attached, Ids
<1>3. Attached(n)' = {}
    BY <1>1 DEF Attached, Ids
<1>4. \A x \in Nodes \ {n} : \A m : Linked(x, m)' = Linked(x, m)
    BY <1>2 DEF Linked
<1>5. \A m : Linked(n, m)' = {}
    BY <1>3 DEF Linked
<1> QED BY <1>4, <1>5, FS_EmptySet

LEMMA LinkDied ==
    ASSUME TypeInv, LinkInv, NEW k \in Nodes, Died(k)
    PROVE  LinkInv'
<1> SUFFICES ASSUME NEW n \in Nodes, NEW m \in connect[n] PROVE LinkOK(n, m)'
    BY DEF LinkInv
<1>1. /\ timers \in [Nodes -> [Addresses -> Nat]]
      /\ status \in [Nodes -> {"down", "running", "stopped"}]
      /\ gaveUp \in [Nodes -> SUBSET Addresses] /\ calls \in [Nodes -> Nat]
    BY DEF TypeInv, Types
<1>2. /\ \A x \in Nodes \ {k} : \A j : Linked(x, j)' = Linked(x, j)
      /\ \A j : Linked(k, j)' = {} /\ Cardinality(Linked(k, j)') = 0
    BY LinkedLeft DEF Died
<1>3. /\ status' = [status EXCEPT ![k] = "down"]
      /\ timers' = [timers EXCEPT ![k] = Zero]
      /\ gaveUp' = [gaveUp EXCEPT ![k] = {}] /\ calls' = [calls EXCEPT ![k] = 0]
    BY DEF Died
<1>4. CASE n # k
    <2>1. /\ status'[n] = status[n] /\ timers'[n] = timers[n]
          /\ gaveUp'[n] = gaveUp[n] /\ calls'[n] = calls[n]
        BY <1>1, <1>3, <1>4
    <2>2. LinkOK(n, m) /\ Linked(n, m)' = Linked(n, m)
        BY <1>2, <1>4 DEF LinkInv
    <2> QED BY <2>1, <2>2, LinkKept
<1>5. CASE n = k
    <2>1. status'[n] = "down" /\ timers'[n] = Zero /\ calls'[n] = 0
        BY <1>1, <1>3, <1>5
    <2>2. Zero[<<m, 0>>] = 0
        BY TargetFacts DEF Zero
    <2>3. Count(n, m)' = 0
        BY <1>2, <1>5, <2>1, <2>2 DEF Count
    <2> QED BY <2>1, <2>3 DEF LinkOK
<1> QED BY <1>4, <1>5

LEMMA LinkStop ==
    ASSUME TypeInv, LinkInv, NEW k \in Nodes, stop(k)
    PROVE  LinkInv'
<1>1. CASE Died(k)
    BY <1>1, LinkDied
<1>2. CASE /\ status' = [status EXCEPT ![k] = "stopped"]
           /\ detach(k, Held(k))
           /\ UNCHANGED <<calls, sessions, timing>>
    <2> SUFFICES ASSUME NEW n \in Nodes, NEW m \in connect[n] PROVE LinkOK(n, m)'
        BY DEF LinkInv
    <2>1. /\ timers \in [Nodes -> [Addresses -> Nat]]
          /\ status \in [Nodes -> {"down", "running", "stopped"}]
          /\ calls \in [Nodes -> Nat] /\ UNCHANGED <<calls, timers, gaveUp>>
        BY <1>2 DEF TypeInv, Types, timing
    <2>2. /\ \A x \in Nodes \ {k} : \A j : Linked(x, j)' = Linked(x, j)
          /\ \A j : Linked(k, j)' = {} /\ Cardinality(Linked(k, j)') = 0
        BY <1>2, LinkedLeft
    <2>3. LinkOK(n, m)
        BY DEF LinkInv
    <2>4. CASE n # k
        <3>1. status'[n] = status[n] /\ Linked(n, m)' = Linked(n, m)
            BY <1>2, <2>1, <2>2, <2>4
        <3> QED BY <2>1, <2>3, <3>1, LinkKept
    <2>5. CASE n = k
        <3>1. status'[n] = "stopped"
            BY <1>2, <2>1, <2>5
        <3>2. Cardinality(Linked(n, m)) \in Nat /\ timers[n][<<m, 0>>] \in Nat
              /\ calls[n] \in Nat
            BY <2>1, LinkedFinite, TargetFacts
        <3>3. Count(n, m)' = timers[n][<<m, 0>>]
            BY <2>1, <2>2, <2>5, <3>2 DEF Count
        <3>4. Count(n, m)' <= calls'[n]
            BY <2>1, <2>3, <3>2, <3>3 DEF LinkOK, Count
        <3> QED BY <3>1, <3>4 DEF LinkOK
    <2> QED BY <2>4, <2>5
<1> QED BY <1>1, <1>2 DEF stop

\* What the server takes over is no session to a target.
LEMMA LinkAccept ==
    ASSUME TypeInv, LinkInv, NEW k \in Nodes, onNewConnection(k)
    PROVE  LinkInv'
<1> SUFFICES ASSUME NEW n \in Nodes, NEW m \in connect[n] PROVE LinkOK(n, m)'
    BY DEF LinkInv
<1>1. /\ end \in [Ids -> [Nodes -> States]]
      /\ end' = [s \in Ids |-> [end[s] EXCEPT ![k] = IF @ = "backlog" THEN "attached" ELSE @]]
      /\ UNCHANGED <<status, calls, sessions, timers, gaveUp>>
    BY DEF TypeInv, Types, States, onNewConnection, timing, starting
<1>2. m # n
    BY TargetFacts
<1>3. ASSUME NEW s \in Ids, sessions[s] = Link(n, m)
      PROVE  end'[s][n] = "attached" <=> end[s][n] = "attached"
    <2>1. sessions[s].to = m
        BY <1>3, LinkFields
    <2>2. end[s][n] # "backlog"
        BY <1>2, <2>1 DEF TypeInv, Ends
    <2> QED BY <1>1, <2>2
<1>4. Linked(n, m)' = Linked(n, m)
    BY <1>1, <1>3 DEF Linked, Link, Attached, Ids
<1>5. LinkOK(n, m)
    BY DEF LinkInv
<1> QED BY <1>1, <1>4, <1>5, LinkKept

\* An error of a session to a target makes a timer of it; another error makes
\* one that is for no target.
LEMMA LinkError ==
    ASSUME TypeInv, LinkInv, NEW k \in Nodes, NEW s \in Ids, onSocketError(k, s)
    PROVE  LinkInv'
<1> SUFFICES ASSUME NEW n \in Nodes, NEW m \in connect[n] PROVE LinkOK(n, m)'
    BY DEF LinkInv
<1>1. /\ end \in [Ids -> [Nodes -> States]] /\ timers \in [Nodes -> [Addresses -> Nat]]
      /\ s \in Attached(k)
      /\ end' = [end EXCEPT ![s][k] = "gone"]
      /\ timers' = [timers EXCEPT ![k][PeerAddress(s, k)] = @ + 1]
      /\ UNCHANGED <<status, calls, sessions, gaveUp>>
    BY ErrorEnds DEF TypeInv, Types, States, onSocketError, starting
<1>2. /\ s \in DOMAIN sessions /\ PeerAddress(s, k) \in Addresses
      /\ sessions[s].from = k => PeerAddress(s, k) = <<sessions[s].to, 0>>
      /\ sessions[s].from # k => \A j \in Nodes : PeerAddress(s, k) # <<j, 0>>
    BY <1>1, ErrorAddress
<1>3. m \in Nodes /\ <<m, 0>> \in Addresses /\ LinkOK(n, m)
    BY TargetFacts DEF LinkInv
<1>4. /\ \A x \in Nodes \ {k} : Attached(x)' = Attached(x)
      /\ Attached(k)' = Attached(k) \ {s}
    BY <1>1 DEF Attached, States, Ids
<1>5. CASE ~(n = k /\ s \in Linked(n, m))
    <2>1. Linked(n, m)' = Linked(n, m)
        BY <1>1, <1>4, <1>5 DEF Linked
    <2>2. timers'[n][<<m, 0>>] = timers[n][<<m, 0>>]
        <3>1. CASE n # k
            BY <1>1, <3>1
        <3>2. CASE n = k
            <4>1. sessions[s] # [from |-> n, to |-> m]
                BY <1>1, <1>5, <3>2 DEF Linked
            <4>2. sessions[s] \in [from: Nodes, to: Nodes]
                <5>1. sessions \in Seq([from: Nodes, to: Nodes])
                    BY DEF TypeInv, Types
                <5> QED BY <1>2, <5>1, ElementOfSeq, LenProperties
            <4>3. ~(sessions[s].from = n /\ sessions[s].to = m)
                BY <4>1, <4>2
            <4>4. PeerAddress(s, k) # <<m, 0>>
                BY <1>2, <1>3, <3>2, <4>3
            <4> QED BY <1>1, <1>2, <1>3, <4>4
        <3> QED BY <3>1, <3>2
    <2> QED BY <1>1, <1>3, <2>1, <2>2, LinkKept
<1>6. CASE n = k /\ s \in Linked(n, m)
    <2>1. sessions[s].from = n /\ sessions[s].to = m
        BY <1>6 DEF Linked
    <2>2. n = k
        BY <1>6
    <2>3. Linked(n, m)' = Linked(n, m) \ {s}
        BY <1>1, <1>4, <2>2 DEF Linked
    <2>4. Cardinality(Linked(n, m) \ {s}) = Cardinality(Linked(n, m)) - 1
        BY <1>6, LinkedFinite, FS_RemoveElement
    <2>5. timers'[n][<<m, 0>>] = timers[n][<<m, 0>>] + 1
        BY <1>1, <1>2, <1>3, <2>1, <2>2
    <2>6. Cardinality(Linked(n, m)) \in Nat /\ timers[n][<<m, 0>>] \in Nat
        BY <1>1, <1>3, LinkedFinite
    <2>7. Count(n, m)' = Count(n, m)
        BY <2>3, <2>4, <2>5, <2>6 DEF Count
    <2> QED BY <1>1, <1>3, <2>7 DEF LinkOK
<1> QED BY <1>5, <1>6

LEMMA LinkTimeout ==
    ASSUME TypeInv, LinkInv, NEW k \in Nodes, NEW a \in Addresses, Timeout(k, a)
    PROVE  LinkInv'
<1> SUFFICES ASSUME NEW n \in Nodes, NEW m \in connect[n] PROVE LinkOK(n, m)'
    BY DEF LinkInv
<1>1. /\ timers \in [Nodes -> [Addresses -> Nat]] /\ gaveUp \in [Nodes -> SUBSET Addresses]
      /\ timers[k][a] > 0 /\ status' = status
      /\ calls \in [Nodes -> Nat] /\ calls' = calls
    BY DEF TypeInv, Types, Timeout, starting
<1>2. /\ a[2] = 0 => a = <<a[1], 0>> /\ a[1] \in Nodes \ {k}
      /\ TimerEnded(k, a)[k][a] = timers[k][a] - 1
      /\ \A b \in Addresses : b # a => TimerEnded(k, a)[k][b] = timers[k][b]
      /\ \A x \in Nodes \ {k} : TimerEnded(k, a)[x] = timers[x]
    BY <1>1, TimerSteps
<1>3. m \in Nodes /\ <<m, 0>> \in Addresses /\ LinkOK(n, m)
    BY TargetFacts DEF LinkInv
<1>4. Cardinality(Linked(n, m)) \in Nat /\ IsFiniteSet(Linked(n, m))
      /\ timers[n][<<m, 0>>] \in Nat /\ calls[n] \in Nat
    BY <1>1, <1>3, LinkedFinite
\* The timer that ends is this target's, or another one.
<1>5. ~(n = k /\ a = <<m, 0>>) => TimerEnded(k, a)[n][<<m, 0>>] = timers[n][<<m, 0>>]
    BY <1>2, <1>3
<1>6. CASE GiveUp(k, a)
    <2>1. /\ timers' = TimerEnded(k, a)
          /\ gaveUp' = [gaveUp EXCEPT ![k] = @ \cup {a}]
          /\ UNCHANGED <<sessions, end>>
        BY <1>6 DEF GiveUp, links
    <2>2. Linked(n, m)' = Linked(n, m)
        BY <2>1 DEF Linked, Attached, Ids
    <2>3. <<m, 0>> \in gaveUp[n] => <<m, 0>> \in gaveUp'[n]
        BY <1>1, <2>1
    <2>4. CASE n = k /\ a = <<m, 0>>
        <3>1. timers'[n][<<m, 0>>] = timers[n][<<m, 0>>] - 1
            BY <1>2, <2>1, <2>4
        <3>2. Count(n, m)' <= calls'[n]
            BY <1>1, <1>3, <1>4, <2>2, <3>1 DEF LinkOK, Count
        <3>3. <<m, 0>> \in gaveUp'[n]
            BY <1>1, <2>1, <2>4
        <3> QED BY <3>2, <3>3 DEF LinkOK
    <2>5. CASE ~(n = k /\ a = <<m, 0>>)
        BY <1>1, <1>3, <1>5, <2>1, <2>2, <2>3, <2>5, LinkKept
    <2> QED BY <2>4, <2>5
<1>7. CASE Reconnect(k, a)
    <2>1. /\ Opened(k, {a[1]}) /\ a[2] = 0
          /\ timers' = TimerEnded(k, a) /\ gaveUp' = gaveUp
        BY <1>7 DEF Reconnect, Accepts
    <2>2. {a[1]} \in SUBSET (Nodes \ {k}) /\ a = <<a[1], 0>>
        BY <1>2, <2>1
    <2>3. /\ \A x \in Nodes \ {k} : \A j \in Nodes : Linked(x, j)' = Linked(x, j)
          /\ \A j \in Nodes \ {a[1]} : Linked(k, j)' = Linked(k, j)
          /\ \A j \in {a[1]} : \E i \in Ids :
                i \notin Linked(k, j) /\ Linked(k, j)' = Linked(k, j) \cup {i}
        BY <2>1, <2>2, OpenedEnds
    <2>4. CASE n = k /\ m = a[1]
        <3>1. PICK i \in Ids : i \notin Linked(n, m) /\ Linked(n, m)' = Linked(n, m) \cup {i}
            BY <2>3, <2>4
        <3>2. Cardinality(Linked(n, m)') = Cardinality(Linked(n, m)) + 1
            BY <1>4, <3>1, FS_AddElement
        <3>3. timers'[n][<<m, 0>>] = timers[n][<<m, 0>>] - 1
            BY <1>2, <2>1, <2>2, <2>4
        <3>4. Count(n, m)' = Count(n, m)
            BY <1>4, <3>2, <3>3 DEF Count
        <3> QED BY <1>1, <1>3, <2>1, <3>4 DEF LinkOK
    <2>5. CASE ~(n = k /\ m = a[1])
        <3>1. Linked(n, m)' = Linked(n, m)
            BY <1>3, <2>3, <2>5
        <3>2. ~(n = k /\ a = <<m, 0>>)
            BY <2>5
        <3> QED BY <1>1, <1>3, <1>5, <2>1, <3>1, <3>2, LinkKept
    <2> QED BY <2>4, <2>5
<1>8. CASE Fail(k, a)
    <2>1. UNCHANGED <<sessions, end, timers, gaveUp>>
        BY <1>8 DEF Fail, FailAgain, links
    <2>2. Linked(n, m)' = Linked(n, m)
        BY <2>1 DEF Linked, Attached, Ids
    <2> QED BY <1>1, <1>3, <2>1, <2>2, LinkKept
<1> QED BY <1>6, <1>7, <1>8 DEF Timeout

LEMMA LinkUnchanged ==
    ASSUME LinkInv, UNCHANGED <<status, calls, sessions, end, timers, gaveUp>>
    PROVE  LinkInv'
<1> SUFFICES ASSUME NEW n \in Nodes, NEW m \in connect[n] PROVE LinkOK(n, m)'
    BY DEF LinkInv
<1>1. Linked(n, m)' = Linked(n, m)
    BY DEF Linked, Attached, Ids
<1>2. LinkOK(n, m)
    BY DEF LinkInv
<1> QED BY <1>1, <1>2, LinkKept

LEMMA LinkNext == TypeInv /\ LinkInv /\ [Next]_vars => LinkInv'
<1> SUFFICES ASSUME TypeInv, LinkInv, [Next]_vars PROVE LinkInv'
    OBVIOUS
<1>1. ASSUME NEW n \in Nodes, start(n) PROVE LinkInv'
    BY <1>1, LinkStart
<1>2. ASSUME NEW n \in Nodes, stop(n) PROVE LinkInv'
    BY <1>2, LinkStop
<1>3. ASSUME NEW n \in Nodes, Crash(n) PROVE LinkInv'
    BY <1>3, LinkDied DEF Crash
<1>4. ASSUME NEW n \in Nodes, onNewConnection(n) PROVE LinkInv'
    BY <1>4, LinkAccept
<1>5. ASSUME NEW n \in Nodes, NEW f \in Frames, send(n, f) PROVE LinkInv'
    BY <1>5, LinkUnchanged DEF send, starting, timing, links
<1>6. ASSUME NEW n \in Nodes, NEW s \in Ids, onReadyRead(n, s) PROVE LinkInv'
    BY <1>6, LinkUnchanged DEF onReadyRead, starting, timing, links
<1>7. ASSUME NEW n \in Nodes, NEW s \in Ids, onSocketError(n, s) PROVE LinkInv'
    BY <1>7, LinkError
<1>8. ASSUME NEW n \in Nodes, NEW a \in Addresses, Timeout(n, a) PROVE LinkInv'
    BY <1>8, LinkTimeout
<1>9. ASSUME NEW s \in Ids, Break(s) PROVE LinkInv'
    BY <1>9, LinkUnchanged DEF Break, starting, timing
<1>10. CASE UNCHANGED vars
    BY <1>10, LinkUnchanged DEF vars, starting, timing, links
<1> QED BY <1>1, <1>2, <1>3, <1>4, <1>5, <1>6, <1>7, <1>8, <1>9, <1>10 DEF Next

(***************************************************************************)
(* However often its sessions break, its timers fire and it stops, a node  *)
(* has for a target no more sessions and timers together than start was    *)
(* called times: one, if it was called once.  A node that runs has none    *)
(* only for a target it gave up.                                           *)
(***************************************************************************)
THEOREM TargetsLinkedPerStart == Spec => []OneLinkPerStart
<1> QED BY Typed, LinkInit, LinkNext, LinkInvImplies, PTL DEF Spec

-----------------------------------------------------------------------------
(***************************************************************************)
(* Reading a stream.  What a recursive function computes is shown for the  *)
(* least argument that could break it: a set of naturals has a least       *)
(* element, as < is well founded.                                          *)
(***************************************************************************)
LEMMA LessThanIsWellFounded ==
    \E R : IsWellFoundedOn(R, Nat) /\ \A x, y \in Nat : x < y => <<x, y>> \in R
<1>1. IsWellFoundedOn(OpToRel(<, Nat), Nat)
    BY NatLessThanWellFounded, Zenon
<1>2. \A x, y \in Nat : x < y => <<x, y>> \in OpToRel(<, Nat)
    BY DEF OpToRel
<1> QED BY <1>1, <1>2, Zenon

LEMMA LeastNat ==
    ASSUME NEW T \in SUBSET Nat, T # {}
    PROVE  \E x \in T : \A y \in T : x <= y
<1>1. PICK R : IsWellFoundedOn(R, Nat) /\ \A x, y \in Nat : x < y => <<x, y>> \in R
    BY LessThanIsWellFounded
<1>2. IsWellFoundedOn(R, Nat) /\ T \subseteq Nat
    BY <1>1
<1>3. \E x \in T : \A y \in T : ~(<<y, x>> \in R)
    BY <1>2, WFMin, Zenon
<1>4. PICK x \in T : \A y \in T : ~(<<y, x>> \in R)
    BY <1>3
<1>5. ASSUME NEW y \in T PROVE x <= y
    <2>1. y < x => <<y, x>> \in R
        BY <1>1
    <2>2. ~(y < x)
        BY <1>4, <2>1, Zenon
    <2> QED BY <2>2
<1> QED BY <1>4, <1>5

\* A set of naturals that holds 0, and with each number the next, holds all;
\* up to a limit N, and from then on nothing is said.
LEMMA CountUp ==
    ASSUME NEW N \in Nat, NEW T, 0 \in T,
           \A k \in 0 .. N - 1 : k \in T => k + 1 \in T
    PROVE  \A k \in 0 .. N : k \in T
<1> DEFINE Left == {k \in 0 .. N : k \notin T}
<1> SUFFICES ASSUME Left # {} PROVE FALSE
    OBVIOUS
<1>1. Left \in SUBSET Nat
    OBVIOUS
<1> HIDE DEF Left
<1>2. PICK x \in Left : \A y \in Left : x <= y
    BY <1>1, LeastNat
<1> USE DEF Left
<1>3. x - 1 \in 0 .. N - 1 /\ x - 1 \in T
    BY <1>2
<1> QED BY <1>2, <1>3

(***************************************************************************)
(* The loop of Decoded is defined: it has a value after any number of      *)
(* steps, the next one of which is that of tryDecode.                      *)
(***************************************************************************)
LEMMA LoopDefined ==
    ASSUME NEW buf, NEW N \in Nat
    PROVE  \E g : g = [k \in 0 .. N |->
                        IF k = 0 THEN Undecoded(buf) ELSE tryDecode(g[k - 1])]
<1> DEFINE P(m) == \E g : g = [k \in 0 .. m |->
                        IF k = 0 THEN Undecoded(buf) ELSE tryDecode(g[k - 1])]
           T == {m \in Nat : P(m)}
<1>1. P(0)
    <2> DEFINE g == [k \in 0 .. 0 |-> Undecoded(buf)]
    <2>1. g = [k \in 0 .. 0 |-> IF k = 0 THEN Undecoded(buf) ELSE tryDecode(g[k - 1])]
        OBVIOUS
    <2> QED BY <2>1
<1>2. ASSUME NEW m \in 0 .. N - 1, P(m) PROVE P(m + 1)
    <2>1. PICK g : g = [k \in 0 .. m |->
                        IF k = 0 THEN Undecoded(buf) ELSE tryDecode(g[k - 1])]
        BY <1>2
    <2> DEFINE h == [k \in 0 .. m + 1 |-> IF k = m + 1 THEN tryDecode(g[m]) ELSE g[k]]
    <2>2. ASSUME NEW k \in 0 .. m + 1
          PROVE  h[k] = IF k = 0 THEN Undecoded(buf) ELSE tryDecode(h[k - 1])
        <3>1. CASE k = 0
            BY <2>1, <3>1
        <3>2. CASE k \in 1 .. m
            <4>1. h[k] = g[k] /\ h[k - 1] = g[k - 1]
                BY <3>2
            <4> QED BY <2>1, <3>2, <4>1
        <3>3. CASE k = m + 1
            <4>1. h[k] = tryDecode(g[m]) /\ h[k - 1] = g[m] /\ k # 0
                BY <3>3
            <4> QED BY <4>1
        <3> QED BY <3>1, <3>2, <3>3
    <2>3. h = [k \in 0 .. m + 1 |->
                        IF k = 0 THEN Undecoded(buf) ELSE tryDecode(h[k - 1])]
        BY <2>2
    <2> QED BY <2>3
<1>3. 0 \in T
    BY <1>1
<1>4. \A k \in 0 .. N - 1 : k \in T => k + 1 \in T
    BY <1>2
<1> HIDE DEF T
<1>5. N \in T
    BY <1>3, <1>4, CountUp
<1> USE DEF T
<1> QED BY <1>5

-----------------------------------------------------------------------------
(***************************************************************************)
(* The bytes B of a stream that carry the frames q after the first r of    *)
(* them: own[j] is the number of the frame byte j belongs to.  The first   *)
(* byte begins frame r + 1, and after each byte comes the next of its      *)
(* frame or, after the last, the first of the next frame.                  *)
(***************************************************************************)
Bytes == Frames \X Nat

Size(f) == Header + Payload[f]

Carries(B, q, r, own) ==
    /\ own \in [1 .. Len(B) -> 1 .. Len(q)]
    /\ \A j \in 1 .. Len(B) :
         B[j][1] = q[own[j]] /\ B[j][2] \in 1 .. Size(q[own[j]])
    /\ Len(B) > 0 => own[1] = r + 1 /\ B[1][2] = 1
    /\ \A j \in 1 .. Len(B) - 1 :
         IF B[j][2] < Size(q[own[j]])
           THEN own[j + 1] = own[j] /\ B[j + 1][2] = B[j][2] + 1
           ELSE own[j + 1] = own[j] + 1 /\ B[j + 1][2] = 1

\* It carries all of them: the last byte ends the last frame.
Complete(B, q, r, own) ==
    IF Len(B) = 0 THEN r = Len(q)
    ELSE own[Len(B)] = Len(q) /\ B[Len(B)][2] = Size(q[Len(q)])

LEMMA SizeOfFrame == \A f \in Frames : Size(f) \in Nat \ {0} /\ Size(f) >= Header
BY CodecAssumption DEF Size

LEMMA FrameIsBytes ==
    ASSUME NEW f \in Frames
    PROVE  /\ encode(f) \in Seq(Bytes) /\ Len(encode(f)) = Size(f)
           /\ \A i \in 1 .. Size(f) : encode(f)[i] = <<f, i>>
<1>1. Size(f) \in Nat /\ encode(f) = [i \in 1 .. Size(f) |-> <<f, i>>]
    BY SizeOfFrame DEF Size, encode
<1>2. \A i \in 1 .. Size(f) : <<f, i>> \in Bytes
    BY <1>1 DEF Bytes
<1> QED BY <1>1, <1>2

\* From the first byte of a frame on come its bytes, one by one.
LEMMA BytesOfFrame ==
    ASSUME NEW q \in Seq(Frames), NEW B \in Seq(Bytes), NEW r, NEW own,
           Carries(B, q, r, own),
           NEW o \in 0 .. Len(B) - 1, B[o + 1][2] = 1,
           NEW L \in Nat, L = Size(q[own[o + 1]])
    PROVE  \A j \in 1 .. L : o + j <= Len(B) =>
                own[o + j] = own[o + 1] /\ B[o + j][2] = j
<1> DEFINE T == {k \in Nat : o + k + 1 <= Len(B) =>
                    own[o + k + 1] = own[o + 1] /\ B[o + k + 1][2] = k + 1}
<1>1. Len(B) \in Nat
    BY LenProperties
<1>2. 0 \in T
    OBVIOUS
<1>3. ASSUME NEW k \in 0 .. (L - 1) - 1, k \in T PROVE k + 1 \in T
    <2> SUFFICES ASSUME o + (k + 1) + 1 <= Len(B)
                 PROVE  own[o + (k + 1) + 1] = own[o + 1] /\ B[o + (k + 1) + 1][2] = k + 2
        OBVIOUS
    <2>1. own[o + k + 1] = own[o + 1] /\ B[o + k + 1][2] = k + 1
        BY <1>1, <1>3
    <2>2. o + k + 1 \in 1 .. Len(B) - 1 /\ k + 1 < L
        BY <1>1
    <2> DEFINE j == o + k + 1
    <2>3. B[j][2] < Size(q[own[j]])
        BY <2>1, <2>2
    <2>4. own[j + 1] = own[j] /\ B[j + 1][2] = B[j][2] + 1
        BY <2>2, <2>3 DEF Carries
    <2> QED BY <1>1, <2>1, <2>4
<1>4. \A k \in 0 .. L - 1 : k \in T
    <2> HIDE DEF T
    <2>1. CASE L = 0
        BY <2>1
    <2>2. CASE L # 0
        <3>1. L - 1 \in Nat
            BY <2>2
        <3> QED BY <1>2, <1>3, <3>1, CountUp
    <2> QED BY <2>1, <2>2
<1>5. ASSUME NEW j \in 1 .. L, o + j <= Len(B)
      PROVE  own[o + j] = own[o + 1] /\ B[o + j][2] = j
    <2>1. j - 1 \in 0 .. L - 1 /\ o + (j - 1) + 1 = o + j /\ (j - 1) + 1 = j
        BY <1>1
    <2>2. j - 1 \in T
        BY <1>4, <2>1
    <2> QED BY <1>1, <1>5, <2>1, <2>2
<1> QED BY <1>5

\* A cut of a sequence.
LEMMA Cut ==
    ASSUME NEW S, NEW B \in Seq(S), NEW o \in 0 .. Len(B), NEW m \in o .. Len(B)
    PROVE  /\ SubSeq(B, o + 1, m) \in Seq(S) /\ Len(SubSeq(B, o + 1, m)) = m - o
           /\ \A i \in 1 .. m - o : SubSeq(B, o + 1, m)[i] = B[o + i]
<1>1. Len(B) \in Nat /\ \A i \in 1 .. Len(B) : B[i] \in S
    BY LenProperties
<1>2. o + 1 \in Int /\ m \in Int /\ \A i \in o + 1 .. m : B[i] \in S
    BY <1>1
<1>3. /\ SubSeq(B, o + 1, m) \in Seq(S)
      /\ Len(SubSeq(B, o + 1, m)) = IF o + 1 <= m THEN m - (o + 1) + 1 ELSE 0
      /\ \A i \in 1 .. m - (o + 1) + 1 : SubSeq(B, o + 1, m)[i] = B[(o + 1) + i - 1]
    BY <1>2, SubSeqProperties
<1>4. m - (o + 1) + 1 = m - o /\ \A i \in Int : (o + 1) + i - 1 = o + i
    BY <1>1
<1>5. Len(SubSeq(B, o + 1, m)) = m - o
    BY <1>1, <1>3
<1>6. ASSUME NEW i \in 1 .. m - o PROVE SubSeq(B, o + 1, m)[i] = B[o + i]
    <2>1. i \in 1 .. m - (o + 1) + 1 /\ (o + 1) + i - 1 = o + i
        BY <1>1, <1>4
    <2> QED BY <1>3, <2>1
<1> QED BY <1>3, <1>5, <1>6

LEMMA Prefix ==
    ASSUME NEW S, NEW q \in Seq(S), NEW n \in 0 .. Len(q)
    PROVE  /\ SubSeq(q, 1, n) \in Seq(S) /\ Len(SubSeq(q, 1, n)) = n
           /\ \A i \in 1 .. n : SubSeq(q, 1, n)[i] = q[i]
<1>1. 0 \in 0 .. Len(q) /\ n - 0 = n
    BY LenProperties
<1>2. /\ SubSeq(q, 0 + 1, n) \in Seq(S) /\ Len(SubSeq(q, 0 + 1, n)) = n - 0
      /\ \A i \in 1 .. n - 0 : SubSeq(q, 0 + 1, n)[i] = q[0 + i]
    BY <1>1, Cut
<1> QED BY <1>1, <1>2

LEMMA PrefixKept ==
    ASSUME NEW S, NEW q \in Seq(S), NEW f \in S, NEW n \in 0 .. Len(q)
    PROVE  SubSeq(Append(q, f), 1, n) = SubSeq(q, 1, n)
<1> DEFINE p == Append(q, f)
           X == SubSeq(p, 1, n)
           Y == SubSeq(q, 1, n)
<1>1. p \in Seq(S) /\ Len(p) = Len(q) + 1 /\ Len(q) \in Nat
      /\ \A i \in 1 .. Len(q) : p[i] = q[i]
    BY AppendProperties, LenProperties
<1>2. n \in 0 .. Len(p)
    BY <1>1
<1> HIDE DEF p
<1>3. X \in Seq(S) /\ Len(X) = n /\ \A i \in 1 .. n : X[i] = p[i]
    BY <1>1, <1>2, Prefix
<1>4. Y \in Seq(S) /\ Len(Y) = n /\ \A i \in 1 .. n : Y[i] = q[i]
    BY Prefix
<1>5. Len(X) = Len(Y) /\ \A i \in 1 .. Len(X) : X[i] = Y[i]
    BY <1>1, <1>3, <1>4
<1> HIDE DEF X, Y
<1>6. X = Y
    BY <1>3, <1>4, <1>5, SeqEqual
<1> QED BY <1>6 DEF X, Y, p

\* A cut of a cut.
LEMMA CutAgain ==
    ASSUME NEW S, NEW B \in Seq(S), NEW o \in 0 .. Len(B), NEW m \in o .. Len(B),
           NEW i \in 0 .. m - o
    PROVE  SubSeq(SubSeq(B, o + 1, m), i + 1, m - o) = SubSeq(B, o + i + 1, m)
<1>1. Len(B) \in Nat
    BY LenProperties
<1> DEFINE C == SubSeq(B, o + 1, m)
<1>2. C \in Seq(S) /\ Len(C) = m - o /\ \A j \in 1 .. m - o : C[j] = B[o + j]
    BY Cut
<1>3. i \in 0 .. Len(C) /\ m - o \in i .. Len(C) /\ o + i \in 0 .. Len(B) /\ m \in o + i .. Len(B)
    BY <1>1, <1>2
<1> HIDE DEF C
<1> DEFINE X == SubSeq(C, i + 1, m - o)
           Y == SubSeq(B, o + i + 1, m)
<1>4. X \in Seq(S) /\ Len(X) = (m - o) - i /\ \A j \in 1 .. (m - o) - i : X[j] = C[i + j]
    BY <1>2, <1>3, Cut
<1>5. Y \in Seq(S) /\ Len(Y) = m - (o + i) /\ \A j \in 1 .. m - (o + i) : Y[j] = B[(o + i) + j]
    BY <1>3, Cut
<1> HIDE DEF X, Y
<1>6. Len(X) = Len(Y) /\ \A j \in 1 .. Len(X) : X[j] = Y[j]
    <2>1. Len(X) = Len(Y)
        BY <1>1, <1>4, <1>5
    <2>2. ASSUME NEW j \in 1 .. Len(X) PROVE X[j] = Y[j]
        <3>1. X[j] = C[i + j] /\ Y[j] = B[(o + i) + j]
            BY <1>1, <1>4, <1>5
        <3>2. i + j \in 1 .. m - o /\ o + (i + j) = (o + i) + j
            BY <1>1, <1>4
        <3>3. C[i + j] = B[o + (i + j)]
            BY <1>2, <3>2
        <3> QED BY <3>1, <3>2, <3>3
    <2> QED BY <2>1, <2>2
<1>7. X = Y
    BY <1>4, <1>5, <1>6, SeqEqual
<1> QED BY <1>7 DEF X, Y, C

\* The first o bytes are those of whole frames, the last of which is frame x.
At(B, q, own, o, x) ==
    /\ x \in 0 .. Len(q)
    /\ o < Len(B) => own[o + 1] = x + 1 /\ B[o + 1][2] = 1
    /\ o > 0 => own[o] = x /\ B[o][2] = Size(q[x])

\* tryDecode takes the next frame off what was read, if all of it was read.
FrameTaken(q, B, own, o, m, x, d) ==
    \E p \in o + 1 .. m :
        /\ At(B, q, own, p, x + 1)
        /\ tryDecode(d) = [frames |-> Append(d.frames, q[x + 1]),
                           rest   |-> SubSeq(B, p + 1, m)]

LEMMA FrameDecoded ==
    ASSUME NEW q \in Seq(Frames), NEW B \in Seq(Bytes), NEW r, NEW own,
           Carries(B, q, r, own),
           NEW o \in 0 .. Len(B), NEW m \in o .. Len(B), NEW x, At(B, q, own, o, x),
           NEW d, d.rest = SubSeq(B, o + 1, m), Decodable(d.rest)
    PROVE  FrameTaken(q, B, own, o, m, x, d)
<1> DEFINE R == SubSeq(B, o + 1, m)
<1>1. Len(B) \in Nat /\ Len(q) \in Nat /\ x \in 0 .. Len(q)
    BY LenProperties DEF At
<1>2. R \in Seq(Bytes) /\ Len(R) = m - o /\ \A i \in 1 .. m - o : R[i] = B[o + i]
    BY Cut
<1>3. Len(R) >= Header /\ Len(R) >= FrameLength(R) /\ d.rest = R
    BY DEF Decodable
<1>4. o < m /\ o < Len(B)
    BY <1>1, <1>2, <1>3, CodecAssumption
<1>5. own[o + 1] = x + 1 /\ B[o + 1][2] = 1
    BY <1>4 DEF At
<1>6. x + 1 \in 1 .. Len(q) /\ B[o + 1][1] = q[x + 1]
    <2>1. o + 1 \in 1 .. Len(B)
        BY <1>1, <1>4
    <2> QED BY <1>5, <2>1 DEF Carries
<1>7. q[x + 1] \in Frames
    BY <1>6, ElementOfSeq
<1> DEFINE f == q[x + 1]
           L == Size(f)
<1>8. L \in Nat \ {0}
    BY <1>7, SizeOfFrame
<1>9. R[1][1] = f /\ FrameLength(R) = L
    <2>1. R[1] = B[o + 1]
        BY <1>1, <1>2, <1>4
    <2> QED BY <1>6, <2>1 DEF FrameLength, Size
<1>10. L <= m - o
    BY <1>2, <1>3, <1>9
<1>11. \A j \in 1 .. L : o + j <= Len(B) => own[o + j] = x + 1 /\ B[o + j][2] = j
    <2>1. o \in 0 .. Len(B) - 1 /\ L \in Nat /\ L = Size(q[own[o + 1]])
        BY <1>1, <1>4, <1>5, <1>8
    <2> HIDE DEF L
    <2>2. \A j \in 1 .. L : o + j <= Len(B) => own[o + j] = own[o + 1] /\ B[o + j][2] = j
        BY <1>5, <2>1, BytesOfFrame
    <2> QED BY <1>5, <2>2
<1>12. \A j \in 1 .. L : B[o + j] = <<f, j>>
    <2> SUFFICES ASSUME NEW j \in 1 .. L PROVE B[o + j] = <<f, j>>
        OBVIOUS
    <2>1. o + j \in 1 .. Len(B)
        BY <1>1, <1>8, <1>10
    <2>2. B[o + j] \in Bytes
        BY <2>1, ElementOfSeq
    <2>3. B[o + j][1] = q[x + 1] /\ B[o + j][2] = j
        BY <1>11, <2>1 DEF Carries
    <2> QED BY <2>2, <2>3 DEF Bytes
<1>13. SubSeq(R, 1, L) = encode(f)
    <2>1. L \in 0 .. Len(R)
        BY <1>1, <1>2, <1>8, <1>10
    <2>2. /\ SubSeq(R, 1, L) \in Seq(Bytes) /\ Len(SubSeq(R, 1, L)) = L
          /\ \A i \in 1 .. L : SubSeq(R, 1, L)[i] = R[i]
        <3> HIDE DEF R, L
        <3> QED BY <1>2, <2>1, Prefix
    <2>3. \A i \in 1 .. L : R[i] = <<f, i>>
        <3> SUFFICES ASSUME NEW i \in 1 .. L PROVE R[i] = <<f, i>>
            OBVIOUS
        <3>1. R[i] = B[o + i]
            BY <1>1, <1>2, <1>8, <1>10
        <3> QED BY <1>12, <3>1
    <2>4. /\ encode(f) \in Seq(Bytes) /\ Len(encode(f)) = L
          /\ \A i \in 1 .. L : encode(f)[i] = <<f, i>>
        BY <1>7, FrameIsBytes
    <2>5. Len(SubSeq(R, 1, L)) = Len(encode(f))
          /\ \A i \in 1 .. Len(SubSeq(R, 1, L)) : SubSeq(R, 1, L)[i] = encode(f)[i]
        BY <2>2, <2>3, <2>4
    <2> HIDE DEF R, L, f
    <2> QED BY <2>2, <2>4, <2>5, SeqEqual
<1>14. FirstFrame(R) = f
    BY <1>9, <1>13 DEF FirstFrame
<1>15. SubSeq(R, L + 1, Len(R)) = SubSeq(B, o + L + 1, m)
    <2>1. L \in 0 .. m - o
        BY <1>1, <1>8, <1>10
    <2> QED BY <1>2, <2>1, CutAgain
<1>16. tryDecode(d) = [frames |-> Append(d.frames, f), rest |-> SubSeq(B, o + L + 1, m)]
    BY <1>3, <1>9, <1>14, <1>15 DEF tryDecode
<1>17. o + L \in o + 1 .. m
    BY <1>1, <1>8, <1>10
<1>18. At(B, q, own, o + L, x + 1)
    <2>1. own[o + L] = x + 1 /\ B[o + L][2] = L /\ o + L \in 1 .. Len(B)
        BY <1>1, <1>8, <1>10, <1>11
    <2>2. ASSUME o + L < Len(B)
          PROVE  own[o + L + 1] = x + 2 /\ B[o + L + 1][2] = 1
        <3>1. o + L \in 1 .. Len(B) - 1
            BY <1>1, <2>1, <2>2
        <3>2. ~(B[o + L][2] < Size(q[own[o + L]]))
            BY <1>8, <2>1
        <3>3. own[o + L + 1] = own[o + L] + 1 /\ B[o + L + 1][2] = 1
            <4> HIDE DEF L
            <4> QED BY <3>1, <3>2 DEF Carries
        <3> QED BY <1>1, <2>1, <3>3
    <2> QED BY <1>1, <1>6, <2>1, <2>2 DEF At
<1> QED BY <1>16, <1>17, <1>18 DEF FrameTaken

\* What the loop of Decoded leaves: it has taken off every whole frame that was
\* read, and nothing but whole frames.
LEMMA LoopDecodes ==
    ASSUME NEW q \in Seq(Frames), NEW B \in Seq(Bytes), NEW r \in Nat, NEW own,
           r <= Len(q), Carries(B, q, r, own), At(B, q, own, 0, r),
           NEW m \in 0 .. Len(B)
    PROVE  \E o \in 0 .. m : \E x \in r .. Len(q) :
              /\ At(B, q, own, o, x)
              /\ Decoded(SubSeq(B, 1, m)) = [frames |-> SubSeq(q, r + 1, x),
                                             rest   |-> SubSeq(B, o + 1, m)]
              /\ ~Decodable(SubSeq(B, o + 1, m))
<1> DEFINE buf == SubSeq(B, 1, m)
<1>1. Len(B) \in Nat /\ Len(q) \in Nat /\ m \in Nat
    BY LenProperties
<1>2. Len(buf) = m
    BY Prefix
<1> HIDE DEF buf
<1> DEFINE decode[k \in 0 .. m] ==
            IF k = 0 THEN Undecoded(buf) ELSE tryDecode(decode[k - 1])
<1>3. Decoded(buf) = decode[m]
    BY <1>2 DEF Decoded
<1>4. decode = [k \in 0 .. m |-> IF k = 0 THEN Undecoded(buf) ELSE tryDecode(decode[k - 1])]
    BY <1>1, LoopDefined
<1> HIDE DEF decode
<1> DEFINE In(k, o, x) ==
              /\ At(B, q, own, o, x)
              /\ decode[k] = [frames |-> SubSeq(q, r + 1, x), rest |-> SubSeq(B, o + 1, m)]
              /\ Decodable(SubSeq(B, o + 1, m)) => o >= k
           Good(k) == \E o \in 0 .. m : \E x \in r .. Len(q) : In(k, o, x)
           T == {k \in Nat : Good(k)}
<1>5. 0 \in T
    <2>1. SubSeq(q, r + 1, r) = <<>>
        BY <1>1, SubSeqEmpty
    <2>2. decode[0] = [frames |-> <<>>, rest |-> buf]
        BY <1>1, <1>4 DEF Undecoded
    <2>3. buf = SubSeq(B, 0 + 1, m)
        BY DEF buf
    <2>4. 0 \in 0 .. m /\ r \in r .. Len(q)
        BY <1>1
    <2>5. In(0, 0, r)
        BY <1>1, <2>1, <2>2, <2>3, <2>4
    <2> HIDE DEF In
    <2>6. Good(0)
        BY <2>4, <2>5
    <2> QED BY <2>6
<1>6. ASSUME NEW k \in 0 .. m - 1, k \in T PROVE k + 1 \in T
    <2>1. PICK o \in 0 .. m, x \in r .. Len(q) : In(k, o, x)
        BY <1>6
    <2>2. /\ At(B, q, own, o, x)
          /\ decode[k] = [frames |-> SubSeq(q, r + 1, x), rest |-> SubSeq(B, o + 1, m)]
          /\ Decodable(SubSeq(B, o + 1, m)) => o >= k
        BY <2>1
    <2>3. decode[k + 1] = tryDecode(decode[k])
        <3>1. k + 1 \in 0 .. m /\ k + 1 # 0 /\ (k + 1) - 1 = k
            BY <1>1
        <3> QED BY <1>4, <3>1
    <2>4. CASE Decodable(SubSeq(B, o + 1, m))
        <3>1. o \in 0 .. Len(B) /\ m \in o .. Len(B)
            BY <1>1
        <3>2. decode[k].rest = SubSeq(B, o + 1, m) /\ decode[k].frames = SubSeq(q, r + 1, x)
            BY <2>2
        <3>3. Decodable(decode[k].rest) /\ At(B, q, own, o, x)
            BY <2>2, <2>4, <3>2
        <3> DEFINE d == decode[k]
        <3>0. d.rest = SubSeq(B, o + 1, m) /\ Decodable(d.rest)
            BY <3>2, <3>3
        <3> HIDE DEF d
        <3>20. FrameTaken(q, B, own, o, m, x, d)
            BY <3>0, <3>1, <3>3, FrameDecoded
        <3>4. PICK p \in o + 1 .. m :
                /\ At(B, q, own, p, x + 1)
                /\ tryDecode(decode[k]) = [frames |-> Append(decode[k].frames, q[x + 1]),
                                           rest   |-> SubSeq(B, p + 1, m)]
            BY <3>20 DEF d, FrameTaken
        <3>5. x + 1 \in r .. Len(q)
            BY <1>1, <3>4 DEF At
        <3>6. Append(SubSeq(q, r + 1, x), q[x + 1]) = SubSeq(q, r + 1, x + 1)
            <4>1. r + 1 \in 1 .. Len(q) /\ x + 1 \in r + 1 .. Len(q)
                BY <1>1, <3>5
            <4>2. SubSeq(q, r + 1, x + 1) = SubSeq(q, r + 1, (x + 1) - 1) \o << q[x + 1] >>
                BY <4>1, SubSeqRecursiveSecond
            <4>3. (x + 1) - 1 = x
                BY <1>1
            <4>4. SubSeq(q, r + 1, x) \in Seq(Frames) /\ q[x + 1] \in Frames
                <5>1. r \in 0 .. Len(q) /\ x \in r .. Len(q) /\ x + 1 \in 1 .. Len(q)
                    BY <1>1, <3>5
                <5> QED BY <5>1, Cut, ElementOfSeq
            <4> QED BY <4>2, <4>3, <4>4, AppendIsConcat
        <3>7. p \in 0 .. m /\ p >= k + 1
            BY <1>1, <2>2, <2>4
        <3>8. decode[k + 1] = [frames |-> SubSeq(q, r + 1, x + 1), rest |-> SubSeq(B, p + 1, m)]
            BY <2>3, <3>2, <3>4, <3>6
        <3>9. In(k + 1, p, x + 1)
            BY <3>4, <3>7, <3>8
        <3> HIDE DEF In
        <3>10. Good(k + 1) /\ k + 1 \in Nat
            BY <3>5, <3>7, <3>9
        <3> QED BY <3>10
    <2>5. CASE ~Decodable(SubSeq(B, o + 1, m))
        <3>1. decode[k].rest = SubSeq(B, o + 1, m)
            BY <2>2
        <3>2. decode[k + 1] = decode[k]
            BY <2>3, <2>5, <3>1 DEF tryDecode
        <3>3. In(k + 1, o, x)
            BY <2>2, <2>5, <3>2
        <3> HIDE DEF In
        <3>4. Good(k + 1) /\ k + 1 \in Nat
            BY <3>3
        <3> QED BY <3>4
    <2> QED BY <2>4, <2>5
<1>7. m \in T
    <2> HIDE DEF T
    <2>1. \A k \in 0 .. m - 1 : k \in T => k + 1 \in T
        BY <1>6
    <2>2. \A k \in 0 .. m : k \in T
        BY <1>1, <1>5, <2>1, CountUp
    <2> QED BY <1>1, <2>2
<1>8. PICK o \in 0 .. m, x \in r .. Len(q) : In(m, o, x)
    BY <1>7
<1>9. ~Decodable(SubSeq(B, o + 1, m))
    <2> SUFFICES ASSUME Decodable(SubSeq(B, o + 1, m)) PROVE FALSE
        OBVIOUS
    <2>1. o = m
        BY <1>1, <1>8
    <2>2. o \in 0 .. Len(B) /\ m \in o .. Len(B)
        BY <1>1
    <2>3. Len(SubSeq(B, o + 1, m)) = m - o
        BY <2>2, Cut
    <2> QED BY <1>1, <2>1, <2>3, CodecAssumption DEF Decodable
<1>10. decode[m] = [frames |-> SubSeq(q, r + 1, x), rest |-> SubSeq(B, o + 1, m)]
    BY <1>8
<1> QED BY <1>3, <1>8, <1>9, <1>10 DEF buf

-----------------------------------------------------------------------------
(***************************************************************************)
(* One direction of a session: rx was read and not decoded, w is on its    *)
(* way, q was sent and rec received; lasts says that the session did not   *)
(* break.  No whole frame is left in rx; rx and w carry the frames of q    *)
(* that follow rec, all of them if the session lasts.                      *)
(***************************************************************************)
InOrder(rx, w, q, rec, lasts) ==
    /\ Len(rec) <= Len(q) /\ rec = SubSeq(q, 1, Len(rec))
    /\ ~Decodable(rx)
    /\ \E own : /\ Carries(rx \o w, q, Len(rec), own)
                /\ lasts => Complete(rx \o w, q, Len(rec), own)

LEMMA StreamStarts == InOrder(<<>>, <<>>, <<>>, <<>>, TRUE)
<1> DEFINE own == [j \in 1 .. 0 |-> 0]
<1>1. <<>> \in Seq(Frames) /\ Len(<<>>) = 0 /\ <<>> \o <<>> = <<>> /\ SubSeq(<<>>, 1, 0) = <<>>
    BY EmptySeq, ConcatEmptySeq, SubSeqEmpty
<1>2. ~Decodable(<<>>)
    BY <1>1, CodecAssumption DEF Decodable
<1>3. Carries(<<>>, <<>>, 0, own) /\ Complete(<<>>, <<>>, 0, own)
    BY <1>1 DEF Carries, Complete
<1> QED BY <1>1, <1>2, <1>3 DEF InOrder

LEMMA StreamBreaks ==
    ASSUME NEW rx, NEW w, NEW q, NEW rec, NEW lasts, InOrder(rx, w, q, rec, lasts)
    PROVE  InOrder(rx, w, q, rec, FALSE)
BY DEF InOrder

\* Whether a session lasts is a condition on broken: what holds if it does and
\* what holds anyway.
LEMMA StreamLasts ==
    ASSUME NEW rx, NEW w, NEW q, NEW rec, NEW lasts, InOrder(rx, w, q, rec, lasts), lasts
    PROVE  InOrder(rx, w, q, rec, TRUE)
BY DEF InOrder

LEMMA StreamWhole ==
    ASSUME NEW rx, NEW w, NEW q, NEW rec, NEW lasts, InOrder(rx, w, q, rec, TRUE)
    PROVE  InOrder(rx, w, q, rec, lasts)
BY DEF InOrder

LEMMA StreamBroken ==
    ASSUME NEW rx, NEW w, NEW q, NEW rec, NEW lasts, InOrder(rx, w, q, rec, FALSE), ~lasts
    PROVE  InOrder(rx, w, q, rec, lasts)
BY DEF InOrder

\* What an end that is deleted had not decoded is lost.
LEMMA StreamDropped ==
    ASSUME NEW rx, NEW w, NEW q \in Seq(Frames), NEW rec, NEW lasts, InOrder(rx, w, q, rec, lasts)
    PROVE  InOrder(<<>>, <<>>, q, rec, FALSE)
<1> DEFINE own == [j \in 1 .. 0 |-> 0]
<1>1. Len(<<>>) = 0 /\ <<>> \o <<>> = <<>>
    BY EmptySeq, ConcatEmptySeq
<1>2. ~Decodable(<<>>)
    BY <1>1, CodecAssumption DEF Decodable
<1>3. Carries(<<>>, q, Len(rec), own)
    BY <1>1 DEF Carries
<1> QED BY <1>1, <1>2, <1>3 DEF InOrder

\* A frame that is sent over a session that broke is lost.
LEMMA StreamLoses ==
    ASSUME NEW rx \in Seq(Bytes), NEW w \in Seq(Bytes), NEW q \in Seq(Frames),
           NEW rec \in Seq(Frames), NEW f \in Frames, InOrder(rx, w, q, rec, FALSE)
    PROVE  InOrder(rx, w, Append(q, f), rec, FALSE)
<1> DEFINE B == rx \o w
           r == Len(rec)
           p == Append(q, f)
<1>1. /\ p \in Seq(Frames) /\ Len(p) = Len(q) + 1 /\ \A i \in 1 .. Len(q) : p[i] = q[i]
      /\ Len(q) \in Nat /\ r \in Nat /\ r <= Len(q) /\ rec = SubSeq(q, 1, r)
    BY AppendProperties, LenProperties DEF InOrder
<1>2. SubSeq(p, 1, r) = SubSeq(q, 1, r)
    <2>1. r \in 0 .. Len(q)
        BY <1>1
    <2> HIDE DEF r
    <2> QED BY <2>1, PrefixKept
<1>3. PICK own : Carries(B, q, r, own)
    BY DEF InOrder
<1>4. Carries(B, p, r, own)
    <2> HIDE DEF B, p, r
    <2>1. own \in [1 .. Len(B) -> 1 .. Len(p)]
        BY <1>1, <1>3 DEF Carries
    <2>2. \A j \in 1 .. Len(B) : p[own[j]] = q[own[j]]
        BY <1>1, <1>3 DEF Carries
    <2>3. \A j \in 1 .. Len(B) - 1 : j \in 1 .. Len(B)
        OBVIOUS
    <2> QED BY <1>3, <2>1, <2>2, <2>3 DEF Carries
<1> HIDE DEF B, r, p
<1>5. r <= Len(p) /\ rec = SubSeq(p, 1, r) /\ ~Decodable(rx)
    BY <1>1, <1>2 DEF InOrder
<1> QED BY <1>4, <1>5 DEF InOrder, B, r, p

\* Over one that lasts its bytes come after those on their way.
LEMMA StreamSends ==
    ASSUME NEW rx \in Seq(Bytes), NEW w \in Seq(Bytes), NEW q \in Seq(Frames),
           NEW rec \in Seq(Frames), NEW f \in Frames, InOrder(rx, w, q, rec, TRUE)
    PROVE  InOrder(rx, w \o encode(f), Append(q, f), rec, TRUE)
<1> DEFINE B == rx \o w
           e == encode(f)
           C == B \o e
           r == Len(rec)
           p == Append(q, f)
           l == Len(B)
           z == Size(f)
<1>1. /\ p \in Seq(Frames) /\ Len(p) = Len(q) + 1 /\ p[Len(q) + 1] = f
      /\ \A i \in 1 .. Len(q) : p[i] = q[i]
      /\ Len(q) \in Nat /\ r \in Nat /\ r <= Len(q) /\ rec = SubSeq(q, 1, r)
    BY AppendProperties, LenProperties DEF InOrder
<1>2. /\ e \in Seq(Bytes) /\ Len(e) = z /\ z \in Nat \ {0}
      /\ \A i \in 1 .. z : e[i] = <<f, i>>
    BY FrameIsBytes, SizeOfFrame
<1>3. B \in Seq(Bytes) /\ l \in Nat
    BY ConcatProperties, LenProperties
<1>4. /\ C \in Seq(Bytes) /\ Len(C) = l + z
      /\ \A i \in 1 .. l + z : C[i] = IF i <= l THEN B[i] ELSE e[i - l]
    <2> HIDE DEF B, e
    <2> QED BY <1>2, <1>3, ConcatProperties
<1>5. rx \o (w \o e) = C
    <2> HIDE DEF e
    <2> QED BY <1>2, ConcatAssociative
<1>6. SubSeq(p, 1, r) = rec
    <2>1. r \in 0 .. Len(q)
        BY <1>1
    <2> HIDE DEF r
    <2> QED BY <1>1, <2>1, PrefixKept
<1>7. PICK own : Carries(B, q, r, own) /\ Complete(B, q, r, own)
    BY DEF InOrder
<1>8. ~Decodable(rx)
    BY DEF InOrder
<1> DEFINE new == [j \in 1 .. l + z |-> IF j <= l THEN own[j] ELSE Len(q) + 1]
<1> HIDE DEF B, e, C, r, p, l, z
<1>9. own \in [1 .. l -> 1 .. Len(q)]
      /\ \A j \in 1 .. l : B[j][1] = q[own[j]] /\ B[j][2] \in 1 .. Size(q[own[j]])
    BY <1>7 DEF Carries, l
<1>10. \A j \in 1 .. l : new[j] = own[j] /\ p[new[j]] = q[own[j]] /\ C[j] = B[j]
    BY <1>1, <1>2, <1>3, <1>4, <1>9
<1>11. \A j \in l + 1 .. l + z : new[j] = Len(q) + 1 /\ p[new[j]] = f /\ C[j] = <<f, j - l>>
    <2> SUFFICES ASSUME NEW j \in l + 1 .. l + z
                 PROVE  new[j] = Len(q) + 1 /\ p[new[j]] = f /\ C[j] = <<f, j - l>>
        OBVIOUS
    <2>1. j \in 1 .. l + z /\ ~(j <= l) /\ j - l \in 1 .. z
        BY <1>2, <1>3
    <2>2. C[j] = e[j - l] /\ e[j - l] = <<f, j - l>>
        BY <1>2, <1>4, <2>1
    <2>3. new[j] = Len(q) + 1
        BY <2>1
    <2> QED BY <1>1, <2>2, <2>3
<1>12. new \in [1 .. l + z -> 1 .. Len(p)]
    BY <1>1, <1>9
<1> HIDE DEF new
<1>13. \A j \in 1 .. l + z : C[j][1] = p[new[j]] /\ C[j][2] \in 1 .. Size(p[new[j]])
    <2> SUFFICES ASSUME NEW j \in 1 .. l + z
                 PROVE  C[j][1] = p[new[j]] /\ C[j][2] \in 1 .. Size(p[new[j]])
        OBVIOUS
    <2>1. CASE j <= l
        <3>1. j \in 1 .. l
            BY <1>3, <2>1
        <3> QED BY <1>9, <1>10, <3>1
    <2>2. CASE ~(j <= l)
        <3>1. j \in l + 1 .. l + z /\ j - l \in 1 .. z
            BY <1>2, <1>3, <2>2
        <3>2. p[new[j]] = f /\ C[j] = <<f, j - l>>
            BY <1>11, <3>1
        <3> QED BY <3>1, <3>2 DEF z
    <2> QED BY <2>1, <2>2
<1>14. Len(C) > 0 => new[1] = r + 1 /\ C[1][2] = 1
    <2>1. CASE l = 0
        <3>1. r = Len(q)
            BY <1>7, <2>1 DEF Complete, l
        <3>2. 1 \in l + 1 .. l + z /\ 1 - l = 1
            BY <1>2, <2>1
        <3>3. new[1] = Len(q) + 1 /\ C[1] = <<f, 1 - l>>
            BY <1>11, <3>2
        <3> QED BY <3>1, <3>2, <3>3
    <2>2. CASE l # 0
        <3>1. 1 \in 1 .. l
            BY <1>3, <2>2
        <3>2. own[1] = r + 1 /\ B[1][2] = 1
            BY <1>3, <1>7, <2>2 DEF Carries, l
        <3> QED BY <1>10, <3>1, <3>2
    <2> QED BY <2>1, <2>2
<1>15. ASSUME NEW j \in 1 .. l + z - 1
       PROVE  IF C[j][2] < Size(p[new[j]])
                THEN new[j + 1] = new[j] /\ C[j + 1][2] = C[j][2] + 1
                ELSE new[j + 1] = new[j] + 1 /\ C[j + 1][2] = 1
    <2>1. CASE j < l
        <3>1. j \in 1 .. l - 1 /\ j \in 1 .. l /\ j + 1 \in 1 .. l
            BY <1>3, <2>1
        <3>2. IF B[j][2] < Size(q[own[j]])
                THEN own[j + 1] = own[j] /\ B[j + 1][2] = B[j][2] + 1
                ELSE own[j + 1] = own[j] + 1 /\ B[j + 1][2] = 1
            BY <1>7, <3>1 DEF Carries, l
        <3>3. /\ new[j] = own[j] /\ p[new[j]] = q[own[j]] /\ C[j] = B[j]
              /\ new[j + 1] = own[j + 1] /\ C[j + 1] = B[j + 1]
            BY <1>10, <3>1
        <3> QED BY <3>2, <3>3
    <2>2. CASE j = l
        <3>1. l \in 1 .. l /\ l \in 1 .. l + z /\ l # 0 /\ l + 1 \in l + 1 .. l + z /\ (l + 1) - l = 1
            BY <1>2, <1>3, <2>2
        <3>2. own[l] = Len(q) /\ B[l][2] = Size(q[Len(q)])
            BY <1>7, <3>1 DEF Complete, l
        <3>3. new[l] = Len(q) /\ C[l][2] = Size(p[new[l]])
            BY <1>10, <3>1, <3>2
        <3>4. new[l + 1] = Len(q) + 1 /\ C[l + 1] = <<f, (l + 1) - l>>
            BY <1>11, <3>1
        <3>5. ~(C[l][2] < Size(p[new[l]]))
            <4>1. C[l][2] \in 1 .. Size(p[new[l]])
                BY <1>13, <3>1
            <4>2. p[new[l]] \in Frames
                <5>1. new[l] \in 1 .. Len(p)
                    BY <1>12, <3>1
                <5> QED BY <1>1, <5>1, ElementOfSeq
            <4>3. Size(p[new[l]]) \in Nat
                BY <4>2, SizeOfFrame
            <4> QED BY <3>3, <4>1, <4>3
        <3> QED BY <2>2, <3>1, <3>3, <3>4, <3>5
    <2>3. CASE j > l
        <3>1. /\ j \in l + 1 .. l + z /\ j + 1 \in l + 1 .. l + z
              /\ (j + 1) - l = (j - l) + 1 /\ j - l < z
            BY <1>2, <1>3, <2>3
        <3>2. /\ new[j] = Len(q) + 1 /\ p[new[j]] = f /\ C[j] = <<f, j - l>>
              /\ new[j + 1] = Len(q) + 1 /\ C[j + 1] = <<f, (j + 1) - l>>
            BY <1>11, <3>1
        <3> QED BY <3>1, <3>2 DEF z
    <2> QED BY <1>3, <2>1, <2>2, <2>3
<1>16. Carries(C, p, r, new)
    <2>1. Len(C) = l + z
        BY <1>4
    <2>2. new \in [1 .. Len(C) -> 1 .. Len(p)]
        BY <1>12, <2>1
    <2>3. \A j \in 1 .. Len(C) : C[j][1] = p[new[j]] /\ C[j][2] \in 1 .. Size(p[new[j]])
        BY <1>13, <2>1
    <2>4. \A j \in 1 .. Len(C) - 1 :
            IF C[j][2] < Size(p[new[j]])
              THEN new[j + 1] = new[j] /\ C[j + 1][2] = C[j][2] + 1
              ELSE new[j + 1] = new[j] + 1 /\ C[j + 1][2] = 1
        <3>1. \A j \in 1 .. Len(C) - 1 : j \in 1 .. l + z - 1
            BY <1>2, <1>3, <2>1
        <3> QED BY <1>15, <3>1, Zenon
    <2> QED BY <1>14, <2>2, <2>3, <2>4, Zenon DEF Carries
<1>17. Complete(C, p, r, new)
    <2>1. l + z \in l + 1 .. l + z /\ l + z # 0 /\ (l + z) - l = z
        BY <1>2, <1>3
    <2>2. new[l + z] = Len(q) + 1 /\ C[l + z] = <<f, (l + z) - l>>
        BY <1>11, <2>1
    <2> QED BY <1>1, <1>4, <2>1, <2>2 DEF Complete, z
<1>18. InOrder(rx, w \o e, p, rec, TRUE)
    <2>1. r <= Len(p)
        BY <1>1
    <2> QED BY <1>5, <1>6, <1>8, <1>16, <1>17, <2>1 DEF InOrder, r
<1> QED BY <1>18 DEF e, p

\* What a read adds is the next frames that were sent.
LEMMA StreamReads ==
    ASSUME NEW rx \in Seq(Bytes), NEW w \in Seq(Bytes), NEW q \in Seq(Frames),
           NEW rec \in Seq(Frames), NEW lasts, InOrder(rx, w, q, rec, lasts),
           NEW k \in 1 .. Len(w),
           NEW d, d = Decoded(rx \o SubSeq(w, 1, k))
    PROVE  /\ d.rest \in Seq(Bytes)
           /\ \E x \in Len(rec) .. Len(q) : rec \o d.frames = SubSeq(q, 1, x)
           /\ InOrder(d.rest, SubSeq(w, k + 1, Len(w)), q, rec \o d.frames, lasts)
<1> DEFINE B == rx \o w
           r == Len(rec)
           m == Len(rx) + k
           rest == SubSeq(w, k + 1, Len(w))
<1>1. /\ Len(q) \in Nat /\ r \in Nat /\ r <= Len(q) /\ rec = SubSeq(q, 1, r)
      /\ Len(rx) \in Nat /\ Len(w) \in Nat
    BY LenProperties DEF InOrder
<1>2. /\ B \in Seq(Bytes) /\ Len(B) = Len(rx) + Len(w)
      /\ \A i \in 1 .. Len(rx) + Len(w) :
            B[i] = IF i <= Len(rx) THEN rx[i] ELSE w[i - Len(rx)]
    BY ConcatProperties
<1>3. PICK own : Carries(B, q, r, own) /\ (lasts => Complete(B, q, r, own))
    BY DEF InOrder
<1>4. m \in 0 .. Len(B) /\ m \in 1 .. Len(B)
    BY <1>1, <1>2
<1>5. rx \o SubSeq(w, 1, k) = SubSeq(B, 1, m) /\ rest = SubSeq(B, m + 1, Len(B))
    <2> DEFINE v == SubSeq(w, 1, k)
               X == rx \o v
               Y == SubSeq(B, 1, m)
               Z == SubSeq(B, m + 1, Len(B))
    <2>1. v \in Seq(Bytes) /\ Len(v) = k /\ \A i \in 1 .. k : v[i] = w[i]
        <3>1. k \in 0 .. Len(w)
            BY <1>1
        <3> QED BY <3>1, Prefix
    <2> HIDE DEF v
    <2>2. X \in Seq(Bytes) /\ Len(X) = m
          /\ \A i \in 1 .. Len(rx) + Len(v) :
                X[i] = IF i <= Len(rx) THEN rx[i] ELSE v[i - Len(rx)]
        BY <2>1, ConcatProperties
    <2>3. Y \in Seq(Bytes) /\ Len(Y) = m /\ \A i \in 1 .. m : Y[i] = B[i]
        <3> HIDE DEF B, m
        <3> QED BY <1>2, <1>4, Prefix
    <2>4. ASSUME NEW i \in 1 .. m PROVE X[i] = Y[i]
        <3>1. X[i] = IF i <= Len(rx) THEN rx[i] ELSE v[i - Len(rx)]
            BY <2>1, <2>2
        <3>2. B[i] = IF i <= Len(rx) THEN rx[i] ELSE w[i - Len(rx)]
            BY <1>1, <1>2
        <3>3. ~(i <= Len(rx)) => i - Len(rx) \in 1 .. k
            BY <1>1
        <3> HIDE DEF B, X, Y
        <3> QED BY <2>1, <2>3, <3>1, <3>2, <3>3
    <2>5. Z \in Seq(Bytes) /\ Len(Z) = Len(B) - m /\ \A i \in 1 .. Len(B) - m : Z[i] = B[m + i]
        <3>1. Len(B) \in m .. Len(B)
            BY <1>1, <1>2
        <3> HIDE DEF B, m
        <3> QED BY <1>2, <1>4, <3>1, Cut
    <2>6. rest \in Seq(Bytes) /\ Len(rest) = Len(w) - k
          /\ \A i \in 1 .. Len(w) - k : rest[i] = w[k + i]
        <3>1. k \in 0 .. Len(w) /\ Len(w) \in k .. Len(w)
            BY <1>1
        <3> QED BY <3>1, Cut
    <2>7. ASSUME NEW i \in 1 .. Len(w) - k PROVE rest[i] = Z[i]
        <3>1. /\ i \in 1 .. Len(B) - m /\ m + i \in 1 .. Len(rx) + Len(w)
              /\ ~(m + i <= Len(rx)) /\ (m + i) - Len(rx) = k + i
            BY <1>1, <1>2
        <3>2. B[m + i] = w[(m + i) - Len(rx)]
            <4> HIDE DEF B, m
            <4> QED BY <1>2, <3>1
        <3> HIDE DEF B, m, Z, rest
        <3> QED BY <2>5, <2>6, <3>1, <3>2
    <2>8. Len(B) - m = Len(w) - k
        BY <1>1, <1>2
    <2> HIDE DEF X, Y, Z, B, m, rest
    <2>9. X = Y
        BY <2>2, <2>3, <2>4, SeqEqual
    <2>10. rest = Z
        BY <2>5, <2>6, <2>7, <2>8, SeqEqual
    <2> QED BY <2>9, <2>10 DEF X, Y, Z, v
<1> HIDE DEF B, m, rest
<1>6. At(B, q, own, 0, r)
    <2>1. r \in 0 .. Len(q) /\ 0 + 1 = 1 /\ ~(0 > 0)
        BY <1>1
    <2> QED BY <1>3, <2>1 DEF At, Carries
<1>7. PICK o \in 0 .. m, x \in r .. Len(q) :
              /\ At(B, q, own, o, x)
              /\ Decoded(SubSeq(B, 1, m)) = [frames |-> SubSeq(q, r + 1, x),
                                             rest   |-> SubSeq(B, o + 1, m)]
              /\ ~Decodable(SubSeq(B, o + 1, m))
    <2> HIDE DEF r
    <2> QED BY <1>1, <1>2, <1>3, <1>4, <1>6, LoopDecodes
<1>8. d.frames = SubSeq(q, r + 1, x) /\ d.rest = SubSeq(B, o + 1, m)
    <2>1. d = Decoded(SubSeq(B, 1, m))
        BY <1>5, Zenon
    <2>2. d = [frames |-> SubSeq(q, r + 1, x), rest |-> SubSeq(B, o + 1, m)]
        BY <1>7, <2>1, Zenon
    <2> QED BY <2>2
<1>9. rec \o d.frames = SubSeq(q, 1, x)
    <2>1. 1 \in 1 .. Len(q) + 1 /\ r \in 1 - 1 .. Len(q) /\ x \in r .. Len(q)
        BY <1>1
    <2> HIDE DEF r
    <2> QED BY <1>1, <1>8, <2>1, ConcatAdjacentSubSeq
<1>10. o \in 0 .. Len(B) /\ m \in o .. Len(B) /\ Len(B) \in Nat
    BY <1>2, <1>4, LenProperties
<1>11. d.rest \in Seq(Bytes)
    BY <1>2, <1>8, <1>10, Cut
<1>12. d.rest \o rest = SubSeq(B, o + 1, Len(B))
    <2>1. o + 1 \in 1 .. Len(B) + 1 /\ m \in (o + 1) - 1 .. Len(B) /\ Len(B) \in m .. Len(B)
        BY <1>10
    <2> QED BY <1>2, <1>5, <1>8, <2>1, ConcatAdjacentSubSeq
<1> DEFINE C == SubSeq(B, o + 1, Len(B))
           l == Len(B) - o
           new == [j \in 1 .. l |-> own[o + j]]
<1>13. C \in Seq(Bytes) /\ Len(C) = l /\ l \in Nat /\ \A j \in 1 .. l : C[j] = B[o + j]
    <2>1. Len(B) \in o .. Len(B)
        BY <1>10
    <2> QED BY <1>2, <1>10, <2>1, Cut
<1> HIDE DEF C
<1>14. \A j \in 1 .. l : o + j \in 1 .. Len(B) /\ new[j] = own[o + j]
    BY <1>10
<1>15. Carries(C, q, x, new)
    <2>1. new \in [1 .. Len(C) -> 1 .. Len(q)]
        BY <1>3, <1>13, <1>14 DEF Carries
    <2>2. \A j \in 1 .. Len(C) : C[j][1] = q[new[j]] /\ C[j][2] \in 1 .. Size(q[new[j]])
        BY <1>3, <1>13, <1>14 DEF Carries
    <2>3. Len(C) > 0 => new[1] = x + 1 /\ C[1][2] = 1
        <3> SUFFICES ASSUME l > 0 PROVE new[1] = x + 1 /\ C[1][2] = 1
            BY <1>13
        <3>1. 1 \in 1 .. l /\ o < Len(B)
            BY <1>10
        <3> QED BY <1>7, <1>13, <1>14, <3>1 DEF At
    <2>4. ASSUME NEW j \in 1 .. Len(C) - 1
          PROVE  IF C[j][2] < Size(q[new[j]])
                   THEN new[j + 1] = new[j] /\ C[j + 1][2] = C[j][2] + 1
                   ELSE new[j + 1] = new[j] + 1 /\ C[j + 1][2] = 1
        <3> DEFINE i == o + j
        <3>1. /\ j \in 1 .. l /\ j + 1 \in 1 .. l /\ i \in 1 .. Len(B) - 1 /\ o + (j + 1) = i + 1
            BY <1>10, <1>13
        <3>2. /\ C[j] = B[i] /\ new[j] = own[i]
              /\ C[j + 1] = B[i + 1] /\ new[j + 1] = own[i + 1]
            <4> HIDE DEF new
            <4>1. C[j] = B[o + j] /\ C[j + 1] = B[o + (j + 1)]
                BY <1>13, <3>1
            <4>2. new[j] = own[o + j] /\ new[j + 1] = own[o + (j + 1)]
                BY <1>14, <3>1
            <4> QED BY <3>1, <4>1, <4>2
        <3> HIDE DEF i, new
        <3>3. IF B[i][2] < Size(q[own[i]])
                THEN own[i + 1] = own[i] /\ B[i + 1][2] = B[i][2] + 1
                ELSE own[i + 1] = own[i] + 1 /\ B[i + 1][2] = 1
            BY <1>3, <3>1 DEF Carries
        <3> QED BY <3>2, <3>3
    <2> HIDE DEF new
    <2> QED BY <2>1, <2>2, <2>3, <2>4, Zenon DEF Carries
<1>16. lasts => Complete(C, q, x, new)
    <2> SUFFICES ASSUME lasts PROVE Complete(C, q, x, new)
        OBVIOUS
    <2>1. CASE l = 0
        <3>1. o = Len(B)
            BY <1>10, <2>1
        <3>2. x = Len(q)
            <4>1. CASE o = 0
                <5>1. r = Len(q)
                    BY <1>3, <3>1, <4>1 DEF Complete
                <5> QED BY <1>1, <5>1
            <4>2. CASE o # 0
                BY <1>3, <1>7, <1>10, <3>1, <4>2 DEF Complete, At
            <4> QED BY <4>1, <4>2
        <3> QED BY <1>13, <2>1, <3>2 DEF Complete
    <2>2. CASE l # 0
        <3>0. o + l = Len(B)
            BY <1>10
        <3>1. l \in 1 .. l /\ o + l = Len(B) /\ Len(B) # 0
            <4> HIDE DEF l
            <4> QED BY <1>10, <1>13, <2>2, <3>0
        <3>2. C[l] = B[Len(B)] /\ new[l] = own[Len(B)]
            BY <1>13, <1>14, <3>1
        <3> HIDE DEF l, new
        <3> QED BY <1>3, <1>13, <2>2, <3>1, <3>2 DEF Complete
    <2> QED BY <2>1, <2>2
<1>17. x \in 0 .. Len(q) /\ Len(SubSeq(q, 1, x)) = x
    <2>1. x \in 0 .. Len(q)
        BY <1>1
    <2> QED BY <2>1, Prefix
<1> HIDE DEF new, l
<1>18. InOrder(d.rest, rest, q, SubSeq(q, 1, x), lasts)
    <2>1. x <= Len(q)
        BY <1>1, <1>17
    <2> QED BY <1>7, <1>8, <1>12, <1>15, <1>16, <1>17, <2>1 DEF InOrder, C
<1> QED BY <1>9, <1>11, <1>18 DEF rest, r

\* Over a session that lasts, nothing on its way means everything was received:
\* what is not decoded would be the whole of the last frame.
LEMMA StreamArrives ==
    ASSUME NEW rx \in Seq(Bytes), NEW q \in Seq(Frames), NEW rec \in Seq(Frames),
           InOrder(rx, <<>>, q, rec, TRUE)
    PROVE  rec = q
<1> DEFINE r == Len(rec)
           l == Len(rx)
<1>1. /\ Len(q) \in Nat /\ r \in Nat /\ r <= Len(q) /\ rec = SubSeq(q, 1, r) /\ l \in Nat
      /\ ~Decodable(rx)
    BY LenProperties DEF InOrder
<1>2. rx \o <<>> = rx
    BY ConcatEmptySeq
<1>3. PICK own : Carries(rx, q, r, own) /\ Complete(rx, q, r, own)
    BY <1>2 DEF InOrder
<1>4. r = Len(q)
    <2> SUFFICES ASSUME l # 0 PROVE FALSE
        BY <1>3 DEF Complete
    <2>1. own[1] = r + 1 /\ rx[1][2] = 1
        BY <1>1, <1>3 DEF Carries
    <2>2. own[l] = Len(q) /\ rx[l][2] = Size(q[Len(q)])
        BY <1>3 DEF Complete
    <2>3. 1 \in 1 .. l /\ l \in 1 .. l
        BY <1>1
    <2>4. r + 1 \in 1 .. Len(q) /\ rx[1][1] = q[r + 1]
        BY <1>3, <2>1, <2>3 DEF Carries
    <2> DEFINE L == Size(q[r + 1])
    <2>5. L \in Nat \ {0} /\ L >= Header
        BY <2>4, SizeOfFrame, ElementOfSeq
    <2>6. L <= l
        <3> SUFFICES ASSUME l < L PROVE FALSE
            BY <1>1, <2>5
        <3>1. l \in 1 .. L /\ 0 + l <= Len(rx) /\ 0 \in 0 .. Len(rx) - 1 /\ 0 + l = l /\ 0 + 1 = 1
            BY <1>1, <2>5
        <3>2. rx[0 + 1][2] = 1 /\ L = Size(q[own[0 + 1]]) /\ L \in Nat
            BY <2>1, <2>5
        <3> HIDE DEF L
        <3>3. \A j \in 1 .. L : 0 + j <= Len(rx) =>
                own[0 + j] = own[0 + 1] /\ rx[0 + j][2] = j
            BY <1>3, <3>1, <3>2, BytesOfFrame
        <3>4. own[l] = r + 1 /\ rx[l][2] = l
            BY <2>1, <3>1, <3>3
        <3>5. rx[l][2] = L
            BY <2>2, <3>4 DEF L
        <3> QED BY <2>5, <3>4, <3>5
    <2>7. FrameLength(rx) = L
        BY <2>4 DEF FrameLength, Size
    <2> QED BY <1>1, <2>5, <2>6, <2>7, CodecAssumption DEF Decodable
<1> QED BY <1>1, <1>4, SubSeqFull

(***************************************************************************)
(* The streams of all sessions are in order, in every state: only send and *)
(* onReadyRead add to them, and a session that broke stays broken.         *)
(***************************************************************************)
StreamInv ==
    /\ wire \in [Ids -> [Nodes -> Seq(Bytes)]]
    /\ rxBuf \in [Ids -> [Nodes -> Seq(Bytes)]]
    /\ sent \in [Ids -> [Nodes -> Seq(Frames)]]
    /\ received \in [Ids -> [Nodes -> Seq(Frames)]]
    /\ \A s \in Ids : \A n \in Nodes :
         InOrder(rxBuf[s][n], wire[s][n], sent[s][n], received[s][n], s \notin broken)

LEMMA StreamInit == Init => StreamInv
<1> SUFFICES ASSUME Init PROVE StreamInv
    OBVIOUS
<1>1. broken = {} /\ wire = Streams /\ rxBuf = Streams /\ sent = Streams /\ received = Streams
    BY DEF Init
<1>2. <<>> \in Seq(Bytes) /\ <<>> \in Seq(Frames)
    BY EmptySeq
<1>3. Streams \in [Ids -> [Nodes -> Seq(Bytes)]] /\ Streams \in [Ids -> [Nodes -> Seq(Frames)]]
    BY <1>2 DEF Streams
<1>4. \A s \in Ids : \A n \in Nodes : Streams[s][n] = <<>>
    BY DEF Streams
<1>5. ASSUME NEW s \in Ids, NEW n \in Nodes
      PROVE  InOrder(rxBuf[s][n], wire[s][n], sent[s][n], received[s][n], s \notin broken)
    <2>1. InOrder(<<>>, <<>>, <<>>, <<>>, s \notin broken)
        BY StreamStarts, StreamWhole
    <2> QED BY <1>1, <1>4, <2>1
<1> QED BY <1>1, <1>3, <1>5 DEF StreamInv

\* Any step but send and onReadyRead: a stream stays, or its end is deleted.
StreamsKept ==
    /\ UNCHANGED <<sent, received>> /\ broken \subseteq broken'
    /\ wire' \in [Ids -> [Nodes -> Seq(Bytes)]]
    /\ rxBuf' \in [Ids -> [Nodes -> Seq(Bytes)]]
    /\ \A s \in Ids : \A n \in Nodes :
        \/ wire'[s][n] = wire[s][n] /\ rxBuf'[s][n] = rxBuf[s][n]
        \/ wire'[s][n] = <<>> /\ rxBuf'[s][n] = <<>> /\ s \in broken'

LEMMA KeptUnchanged ==
    ASSUME StreamInv, UNCHANGED streams, broken \subseteq broken'
    PROVE  StreamsKept
BY DEF StreamInv, StreamsKept, streams

LEMMA KeptDetached ==
    ASSUME StreamInv, NEW n \in Nodes, NEW left, detach(n, left)
    PROVE  StreamsKept
<1>1. /\ wire \in [Ids -> [Nodes -> Seq(Bytes)]] /\ rxBuf \in [Ids -> [Nodes -> Seq(Bytes)]]
      /\ wire' = [s \in Ids |-> [wire[s] EXCEPT ![n] = IF s \in left THEN <<>> ELSE @]]
      /\ rxBuf' = [s \in Ids |-> [rxBuf[s] EXCEPT ![n] = IF s \in left THEN <<>> ELSE @]]
      /\ broken' = broken \cup left
      /\ UNCHANGED <<sent, received>>
    BY DEF StreamInv, detach
<1>2. <<>> \in Seq(Bytes)
    BY EmptySeq
<1>3. wire' \in [Ids -> [Nodes -> Seq(Bytes)]] /\ rxBuf' \in [Ids -> [Nodes -> Seq(Bytes)]]
    BY <1>1, <1>2
<1>4. ASSUME NEW s \in Ids, NEW m \in Nodes
      PROVE  \/ wire'[s][m] = wire[s][m] /\ rxBuf'[s][m] = rxBuf[s][m]
             \/ wire'[s][m] = <<>> /\ rxBuf'[s][m] = <<>> /\ s \in broken'
    <2>1. CASE m = n /\ s \in left
        BY <1>1, <2>1
    <2>2. CASE ~(m = n /\ s \in left)
        BY <1>1, <2>2
    <2> QED BY <2>1, <2>2
<1> QED BY <1>1, <1>3, <1>4 DEF StreamsKept

LEMMA StepKinds ==
    ASSUME StreamInv, [Next]_vars
    PROVE  \/ \E n \in Nodes : \E f \in Frames : send(n, f)
           \/ \E n \in Nodes : \E s \in Ids : onReadyRead(n, s)
           \/ StreamsKept
<1>1. ASSUME NEW n \in Nodes, start(n) PROVE StreamsKept
    BY <1>1, KeptUnchanged DEF start
<1>2. ASSUME NEW n \in Nodes, Died(n) PROVE StreamsKept
    BY <1>2, KeptDetached DEF Died
<1>3. ASSUME NEW n \in Nodes, stop(n) \/ Crash(n) PROVE StreamsKept
    BY <1>2, <1>3, KeptDetached DEF stop, Crash
<1>4. ASSUME NEW n \in Nodes, onNewConnection(n) PROVE StreamsKept
    BY <1>4, KeptUnchanged DEF onNewConnection
<1>5. ASSUME NEW n \in Nodes, NEW s \in Ids, onSocketError(n, s) PROVE StreamsKept
    BY <1>5, KeptDetached DEF onSocketError
<1>6. ASSUME NEW n \in Nodes, NEW a \in Addresses, Timeout(n, a) PROVE StreamsKept
    <2>1. UNCHANGED streams /\ UNCHANGED broken
        BY <1>6 DEF Timeout, GiveUp, Reconnect, Fail, links
    <2> QED BY <2>1, KeptUnchanged
<1>7. ASSUME NEW s \in Ids, Break(s) PROVE StreamsKept
    BY <1>7, KeptUnchanged DEF Break
<1>8. ASSUME UNCHANGED vars PROVE StreamsKept
    BY <1>8, KeptUnchanged DEF vars, links
<1> QED BY <1>1, <1>3, <1>4, <1>5, <1>6, <1>7, <1>8 DEF Next

\* send, for one direction of a session.
LEMMA SentOnStream ==
    ASSUME StreamInv, NEW n \in Nodes, NEW f \in Frames, send(n, f)
    PROVE  /\ StreamInv'
           /\ UNCHANGED <<broken, received>>
           /\ \E to \in SUBSET (Ids \X Nodes) :
                sent' = [s \in Ids |-> [m \in Nodes |->
                    IF <<s, m>> \in to THEN Append(sent[s][m], f) ELSE sent[s][m]]]
<1> DEFINE to == {c \in Attached(n) \X (Nodes \ {n}) : end[c[1]][c[2]] # "none"}
<1>1. /\ sent' = [s \in Ids |-> [m \in Nodes |->
            IF <<s, m>> \in to THEN Append(sent[s][m], f) ELSE sent[s][m]]]
      /\ wire' = [s \in Ids |-> [m \in Nodes |->
            IF <<s, m>> \in to /\ s \notin broken
              THEN wire[s][m] \o encode(f) ELSE wire[s][m]]]
      /\ UNCHANGED <<broken, rxBuf, received>>
    BY DEF send, links
<1>2. to \in SUBSET (Ids \X Nodes)
    BY DEF Attached
<1> HIDE DEF to
<1>3. encode(f) \in Seq(Bytes)
    BY FrameIsBytes
<1>4. \A s \in Ids : \A m \in Nodes :
        /\ wire[s][m] \in Seq(Bytes) /\ rxBuf[s][m] \in Seq(Bytes)
        /\ sent[s][m] \in Seq(Frames) /\ received[s][m] \in Seq(Frames)
    BY DEF StreamInv
<1>5. \A s \in Ids : \A m \in Nodes :
        wire[s][m] \o encode(f) \in Seq(Bytes) /\ Append(sent[s][m], f) \in Seq(Frames)
    BY <1>3, <1>4, ConcatProperties, AppendProperties
<1>6. sent' \in [Ids -> [Nodes -> Seq(Frames)]] /\ wire' \in [Ids -> [Nodes -> Seq(Bytes)]]
    BY <1>1, <1>4, <1>5
<1>7. ASSUME NEW s \in Ids, NEW m \in Nodes
      PROVE  InOrder(rxBuf'[s][m], wire'[s][m], sent'[s][m], received'[s][m], s \notin broken')
    <2> DEFINE rx == rxBuf[s][m]
               w == wire[s][m]
               q == sent[s][m]
               rec == received[s][m]
    <2>1. rx \in Seq(Bytes) /\ w \in Seq(Bytes) /\ q \in Seq(Frames) /\ rec \in Seq(Frames)
          /\ InOrder(rx, w, q, rec, s \notin broken)
        BY <1>4 DEF StreamInv
    <2>2. rxBuf'[s][m] = rx /\ received'[s][m] = rec /\ broken' = broken
        BY <1>1
    <2>3. sent'[s][m] = IF <<s, m>> \in to THEN Append(q, f) ELSE q
        BY <1>1
    <2>4. wire'[s][m] = IF <<s, m>> \in to /\ s \notin broken THEN w \o encode(f) ELSE w
        BY <1>1
    <2> HIDE DEF rx, w, q, rec
    <2>5. CASE <<s, m>> \notin to
        BY <2>1, <2>2, <2>3, <2>4, <2>5
    <2>6. CASE <<s, m>> \in to /\ s \in broken
        <3>1. InOrder(rx, w, q, rec, FALSE)
            BY <2>1, StreamBreaks
        <3>2. InOrder(rx, w, Append(q, f), rec, FALSE)
            BY <2>1, <3>1, StreamLoses
        <3>3. InOrder(rx, w, Append(q, f), rec, s \notin broken)
            BY <2>6, <3>2, StreamBroken
        <3> QED BY <2>2, <2>3, <2>4, <2>6, <3>3
    <2>7. CASE <<s, m>> \in to /\ s \notin broken
        <3>1. InOrder(rx, w, q, rec, TRUE)
            BY <2>1, <2>7, StreamLasts
        <3>2. InOrder(rx, w \o encode(f), Append(q, f), rec, TRUE)
            BY <2>1, <3>1, StreamSends
        <3>3. InOrder(rx, w \o encode(f), Append(q, f), rec, s \notin broken)
            BY <3>2, StreamWhole
        <3> QED BY <2>2, <2>3, <2>4, <2>7, <3>3
    <2> QED BY <2>5, <2>6, <2>7
<1>8. StreamInv'
    BY <1>1, <1>6, <1>7 DEF StreamInv, Ids, Bytes
<1> QED BY <1>1, <1>2, <1>8

\* onReadyRead: what was received is what was sent, up to some frame.
LEMMA ReadFromStream ==
    ASSUME StreamInv, NEW n \in Nodes, NEW s \in Ids, onReadyRead(n, s)
    PROVE  /\ StreamInv'
           /\ UNCHANGED <<broken, sent>>
           /\ \E x \in Len(received[s][n]) .. Len(sent[s][n]) :
                received' = [received EXCEPT ![s][n] = SubSeq(sent[s][n], 1, x)]
<1>1. UNCHANGED <<broken, sent>>
    BY DEF onReadyRead, links
<1> DEFINE rx == rxBuf[s][n]
           w == wire[s][n]
           q == sent[s][n]
           rec == received[s][n]
<1>2. PICK k \in 1 .. Len(w) :
        LET d == Decoded(rx \o SubSeq(w, 1, k))
        IN  /\ wire' = [wire EXCEPT ![s][n] = SubSeq(@, k + 1, Len(@))]
            /\ rxBuf' = [rxBuf EXCEPT ![s][n] = d.rest]
            /\ received' = [received EXCEPT ![s][n] = @ \o d.frames]
    BY DEF onReadyRead
<1> DEFINE d == Decoded(rx \o SubSeq(w, 1, k))
<1>3. d = Decoded(rx \o SubSeq(w, 1, k))
    OBVIOUS
<1>4. /\ wire' = [wire EXCEPT ![s][n] = SubSeq(w, k + 1, Len(w))]
      /\ rxBuf' = [rxBuf EXCEPT ![s][n] = d.rest]
      /\ received' = [received EXCEPT ![s][n] = rec \o d.frames]
    BY <1>2, <1>3
<1>5. /\ wire \in [Ids -> [Nodes -> Seq(Bytes)]]
      /\ rxBuf \in [Ids -> [Nodes -> Seq(Bytes)]]
      /\ sent \in [Ids -> [Nodes -> Seq(Frames)]]
      /\ received \in [Ids -> [Nodes -> Seq(Frames)]]
    BY DEF StreamInv
<1>6. rx \in Seq(Bytes) /\ w \in Seq(Bytes) /\ q \in Seq(Frames) /\ rec \in Seq(Frames)
      /\ InOrder(rx, w, q, rec, s \notin broken)
    BY <1>5 DEF StreamInv
<1> HIDE DEF rx, w, q, rec
<1>7. /\ d.rest \in Seq(Bytes)
      /\ \E x \in Len(rec) .. Len(q) : rec \o d.frames = SubSeq(q, 1, x)
      /\ InOrder(d.rest, SubSeq(w, k + 1, Len(w)), q, rec \o d.frames, s \notin broken)
    BY <1>3, <1>6, StreamReads, Zenon
<1>8. PICK x \in Len(rec) .. Len(q) : rec \o d.frames = SubSeq(q, 1, x)
    BY <1>7
<1>9. SubSeq(w, k + 1, Len(w)) \in Seq(Bytes) /\ SubSeq(q, 1, x) \in Seq(Frames)
    <2>1. k \in 0 .. Len(w) /\ Len(w) \in k .. Len(w) /\ x \in 0 .. Len(q)
        BY <1>6, LenProperties
    <2> QED BY <1>6, <2>1, Cut, Prefix
<1>10. /\ wire' \in [Ids -> [Nodes -> Seq(Bytes)]]
       /\ rxBuf' \in [Ids -> [Nodes -> Seq(Bytes)]]
       /\ received' \in [Ids -> [Nodes -> Seq(Frames)]]
    BY <1>4, <1>5, <1>7, <1>8, <1>9
<1>11. ASSUME NEW i \in Ids, NEW m \in Nodes
       PROVE  InOrder(rxBuf'[i][m], wire'[i][m], sent'[i][m], received'[i][m], i \notin broken')
    <2>1. CASE i = s /\ m = n
        <3>1. /\ rxBuf'[i][m] = d.rest /\ wire'[i][m] = SubSeq(w, k + 1, Len(w))
              /\ sent'[i][m] = q /\ received'[i][m] = rec \o d.frames /\ broken' = broken
            BY <1>1, <1>4, <1>5, <2>1 DEF q
        <3> QED BY <1>7, <2>1, <3>1
    <2>2. CASE ~(i = s /\ m = n)
        <3>1. /\ rxBuf'[i][m] = rxBuf[i][m] /\ wire'[i][m] = wire[i][m]
              /\ sent'[i][m] = sent[i][m] /\ received'[i][m] = received[i][m] /\ broken' = broken
            BY <1>1, <1>4, <1>5, <2>2
        <3> QED BY <3>1 DEF StreamInv
    <2> QED BY <2>1, <2>2
<1>12. StreamInv'
    BY <1>1, <1>5, <1>10, <1>11 DEF StreamInv, Ids, Bytes
<1> QED BY <1>1, <1>4, <1>8, <1>12 DEF q, rec

\* What breaks loses the promise that all arrives, and at most what an end that
\* is deleted had not decoded.
LEMMA KeptStream ==
    ASSUME StreamInv, StreamsKept
    PROVE  StreamInv'
<1>1. UNCHANGED <<sent, received>> /\ broken \subseteq broken'
      /\ wire' \in [Ids -> [Nodes -> Seq(Bytes)]] /\ rxBuf' \in [Ids -> [Nodes -> Seq(Bytes)]]
    BY DEF StreamsKept
<1>2. ASSUME NEW s \in Ids, NEW n \in Nodes
      PROVE  InOrder(rxBuf'[s][n], wire'[s][n], sent'[s][n], received'[s][n], s \notin broken')
    <2>1. InOrder(rxBuf[s][n], wire[s][n], sent[s][n], received[s][n], s \notin broken)
          /\ sent[s][n] \in Seq(Frames)
        BY DEF StreamInv
    <2>2. CASE s \in broken' /\ wire'[s][n] = wire[s][n] /\ rxBuf'[s][n] = rxBuf[s][n]
        <3>1. InOrder(rxBuf[s][n], wire[s][n], sent[s][n], received[s][n], FALSE)
            BY <2>1, StreamBreaks
        <3>2. InOrder(rxBuf[s][n], wire[s][n], sent[s][n], received[s][n], s \notin broken')
            BY <2>2, <3>1, StreamBroken
        <3> QED BY <1>1, <2>2, <3>2
    <2>3. CASE s \in broken' /\ wire'[s][n] = <<>> /\ rxBuf'[s][n] = <<>>
        <3>1. InOrder(<<>>, <<>>, sent[s][n], received[s][n], FALSE)
            BY <2>1, StreamDropped
        <3>2. InOrder(<<>>, <<>>, sent[s][n], received[s][n], s \notin broken')
            BY <2>3, <3>1, StreamBroken
        <3> QED BY <1>1, <2>3, <3>2
    <2>4. CASE s \notin broken' /\ wire'[s][n] = wire[s][n] /\ rxBuf'[s][n] = rxBuf[s][n]
        <3>1. InOrder(rxBuf[s][n], wire[s][n], sent[s][n], received[s][n], TRUE)
            BY <1>1, <2>1, <2>4, StreamLasts
        <3>2. InOrder(rxBuf[s][n], wire[s][n], sent[s][n], received[s][n], s \notin broken')
            BY <3>1, StreamWhole
        <3> QED BY <1>1, <2>4, <3>2
    <2> QED BY <2>2, <2>3, <2>4 DEF StreamsKept
<1> QED BY <1>1, <1>2 DEF StreamInv, Ids, Bytes

LEMMA StreamNext == StreamInv /\ [Next]_vars => StreamInv'
BY StepKinds, SentOnStream, ReadFromStream, KeptStream

LEMMA ArrivedFromInv == StreamInv => ArrivedIsReceived
<1> SUFFICES ASSUME StreamInv, NEW s \in Ids \ broken, NEW n \in Nodes, wire[s][n] = <<>>
             PROVE  received[s][n] = sent[s][n]
    BY DEF ArrivedIsReceived
<1>1. /\ rxBuf[s][n] \in Seq(Bytes) /\ sent[s][n] \in Seq(Frames)
      /\ received[s][n] \in Seq(Frames)
      /\ InOrder(rxBuf[s][n], wire[s][n], sent[s][n], received[s][n], s \notin broken)
    BY DEF StreamInv
<1>2. InOrder(rxBuf[s][n], <<>>, sent[s][n], received[s][n], TRUE)
    BY <1>1, StreamLasts
<1> QED BY <1>1, <1>2, StreamArrives

(***************************************************************************)
(* ArrivedIsReceived for every frame size: over a session that lasts,      *)
(* whatever is no longer on its way has been received, however TCP cut or  *)
(* joined it, for onReadyRead decodes until no whole frame is left.        *)
(***************************************************************************)
THEOREM NothingGetsStuck == Spec => []ArrivedIsReceived
BY StreamInit, StreamNext, ArrivedFromInv, PTL DEF Spec

-----------------------------------------------------------------------------
(***************************************************************************)
(* The variables of FrameChannel, as Channel instantiates it: a direction  *)
(* of a session is a channel.  send is a Send, a read a Receive of the     *)
(* frames it completes, and what breaks sessions a Close.                  *)
(***************************************************************************)
Directions == Ids \X Nodes

AbstractSent     == [c \in Directions |-> sent[c[1]][c[2]]]
AbstractReceived == [c \in Directions |-> received[c[1]][c[2]]]
AbstractClosed   == broken \X Nodes

LEMMA ChannelVars ==
    (UNCHANGED <<AbstractSent, AbstractReceived, AbstractClosed>>) => UNCHANGED Channel!vars
BY DEF Channel!vars, AbstractSent, AbstractReceived, AbstractClosed, Directions

LEMMA ChannelInit == Init => Channel!Init
<1> SUFFICES ASSUME Init PROVE Channel!Init
    OBVIOUS
<1>1. broken = {} /\ sent = Streams /\ received = Streams
    BY DEF Init
<1>2. \A c \in Ids \X Nodes : Streams[c[1]][c[2]] = <<>>
    BY DEF Streams
<1> QED BY <1>1, <1>2 DEF Channel!Init

LEMMA SendMaps ==
    ASSUME StreamInv, NEW n \in Nodes, NEW f \in Frames, send(n, f)
    PROVE  Channel!Next
<1>1. UNCHANGED <<broken, received>>
    BY SentOnStream
<1>2. PICK to \in SUBSET (Ids \X Nodes) :
        sent' = [s \in Ids |-> [m \in Nodes |->
                    IF <<s, m>> \in to THEN Append(sent[s][m], f) ELSE sent[s][m]]]
    BY SentOnStream
<1>3. AbstractSent' = [c \in Directions |->
            IF c \in to THEN Append(AbstractSent[c], f) ELSE AbstractSent[c]]
    <2>1. ASSUME NEW c \in Ids \X Nodes
          PROVE  sent'[c[1]][c[2]] = IF c \in to THEN Append(sent[c[1]][c[2]], f)
                                                 ELSE sent[c[1]][c[2]]
        <3>1. c[1] \in Ids /\ c[2] \in Nodes /\ c = <<c[1], c[2]>>
            OBVIOUS
        <3> QED BY <1>2, <3>1
    <2>2. AbstractSent' = [c \in Ids \X Nodes |-> sent'[c[1]][c[2]]]
        BY DEF AbstractSent, Directions, Ids
    <2> QED BY <2>1, <2>2 DEF AbstractSent, Directions
<1>4. AbstractReceived' = AbstractReceived /\ AbstractClosed' = AbstractClosed
    BY <1>1 DEF AbstractReceived, AbstractClosed, Directions, Ids
<1>5. Channel!Send(to, f)
    BY <1>3, <1>4 DEF Channel!Send, AbstractSent, AbstractReceived, AbstractClosed, Directions
<1> QED BY <1>2, <1>5 DEF Channel!Next

LEMMA ReadMaps ==
    ASSUME StreamInv, NEW n \in Nodes, NEW s \in Ids, onReadyRead(n, s)
    PROVE  Channel!Next \/ UNCHANGED Channel!vars
<1>1. UNCHANGED <<broken, sent>>
    BY ReadFromStream
<1>2. PICK x \in Len(received[s][n]) .. Len(sent[s][n]) :
        received' = [received EXCEPT ![s][n] = SubSeq(sent[s][n], 1, x)]
    BY ReadFromStream
<1>3. /\ received \in [Ids -> [Nodes -> Seq(Frames)]]
      /\ received[s][n] \in Seq(Frames) /\ sent[s][n] \in Seq(Frames)
      /\ received[s][n] = SubSeq(sent[s][n], 1, Len(received[s][n]))
    BY DEF StreamInv, InOrder
<1> DEFINE c == <<s, n>>
<1>4. c \in Directions /\ c[1] = s /\ c[2] = n
    BY DEF Directions
<1>5. AbstractReceived' = [AbstractReceived EXCEPT ![c] = SubSeq(sent[s][n], 1, x)]
    <2>1. ASSUME NEW i \in Ids \X Nodes
          PROVE  received'[i[1]][i[2]] = IF i = c THEN SubSeq(sent[s][n], 1, x)
                                                  ELSE received[i[1]][i[2]]
        <3>1. i[1] \in Ids /\ i[2] \in Nodes /\ i = <<i[1], i[2]>>
            OBVIOUS
        <3> QED BY <1>2, <1>3, <1>4, <3>1
    <2>2. AbstractReceived' = [i \in Ids \X Nodes |-> received'[i[1]][i[2]]]
        BY DEF AbstractReceived, Directions, Ids
    <2> QED BY <1>4, <2>1, <2>2 DEF AbstractReceived, Directions
<1>6. AbstractSent' = AbstractSent /\ AbstractClosed' = AbstractClosed
    BY <1>1 DEF AbstractSent, AbstractClosed, Directions, Ids
<1>7. AbstractSent[c] = sent[s][n] /\ AbstractReceived[c] = received[s][n]
    BY <1>4 DEF AbstractSent, AbstractReceived
<1>8. CASE x = Len(received[s][n])
    <2>1. AbstractReceived' = AbstractReceived
        BY <1>3, <1>5, <1>7, <1>8 DEF AbstractReceived
    <2> QED BY <1>6, <2>1, ChannelVars
<1>9. CASE x # Len(received[s][n])
    <2>1. x > Len(received[s][n]) /\ x \in 1 .. Len(sent[s][n])
        BY <1>3, <1>9, LenProperties
    <2> HIDE DEF c
    <2>2. Channel!Receive(c, x)
        BY <1>5, <1>6, <1>7, <2>1
            DEF Channel!Receive, AbstractSent, AbstractReceived, AbstractClosed, Directions
    <2>3. x \in 1 .. Len(AbstractSent[c]) /\ c \in Ids \X Nodes
        BY <1>4, <1>7, <2>1 DEF Directions
    <2> QED BY <2>2, <2>3 DEF Channel!Next, AbstractSent, Directions
<1> QED BY <1>8, <1>9

LEMMA CloseMaps ==
    ASSUME StreamsKept, broken' \subseteq Ids
    PROVE  Channel!Next
<1> DEFINE C == (broken' \ broken) \X Nodes
<1>1. AbstractSent' = AbstractSent /\ AbstractReceived' = AbstractReceived
    BY DEF StreamsKept, AbstractSent, AbstractReceived, Directions, Ids
<1>2. AbstractClosed' = AbstractClosed \cup C
    BY DEF StreamsKept, AbstractClosed
<1>3. C \in SUBSET (Ids \X Nodes)
    OBVIOUS
<1> HIDE DEF C
<1>4. Channel!Close(C)
    BY <1>1, <1>2 DEF Channel!Close, AbstractSent, AbstractReceived, AbstractClosed, Directions
<1> QED BY <1>3, <1>4 DEF Channel!Next

LEMMA ChannelNext ==
    ASSUME StreamInv, TypeInv', [Next]_vars
    PROVE  [Channel!Next]_(Channel!vars)
<1>1. broken' \subseteq Ids
    <2>1. broken' \subseteq DOMAIN sessions' /\ sessions' \in Seq([from: Nodes, to: Nodes])
          /\ Len(sessions') <= MaxSessions
        BY DEF TypeInv, Types
    <2>2. DOMAIN sessions' = 1 .. Len(sessions') /\ Len(sessions') \in Nat
        BY <2>1, LenProperties
    <2> QED BY <2>1, <2>2, BoundsAssumption DEF Ids
<1> QED BY <1>1, StepKinds, SendMaps, ReadMaps, CloseMaps

(***************************************************************************)
(* The safety part of Implements: every behaviour is one of FrameChannel,  *)
(* whose Init the initial states map to and whose steps, or stutters, the  *)
(* steps of sessions, frames, reads and failures.                          *)
(***************************************************************************)
THEOREM RefinesFrameChannel ==
    Spec => Channel!Init /\ [][Channel!Next]_(Channel!vars)
<1>1. Spec => []TypeInv
    BY TypeInit, TypeNext, PTL DEF Spec
<1>2. Spec => []StreamInv
    BY StreamInit, StreamNext, PTL DEF Spec
<1>3. StreamInv /\ TypeInv' /\ [Next]_vars => [Channel!Next]_(Channel!vars)
    BY ChannelNext
<1> QED BY <1>1, <1>2, <1>3, ChannelInit, PTL DEF Spec

=============================================================================
