-------------------------- MODULE DiscoveryProofs --------------------------
(***************************************************************************)
(* Theorems about Discovery: what the tables may hold, and how long a peer *)
(* that is silent stays in them, at least and at most.                     *)
(***************************************************************************)
EXTENDS Discovery, TLAPS

(***************************************************************************)
(* What is announced was true of some process of the sender; the expiry    *)
(* timer of a running node is never later than the lag allows.             *)
(***************************************************************************)
AnnouncedRuns == \A d \in net : d.run \in 1 .. run[d.from]

SweepsOnTime ==
    \A n \in Nodes : up[n] =>
        /\ expiryTimer[n].every > MaxLag
        /\ expiryTimer[n].left \in -MaxLag .. expiryTimer[n].every

Started == \A n \in Nodes : up[n] => run[n] >= 1

\* A node started to listen has neither a first announcement nor a timer for more.
OnlyAnnouncers ==
    \A n \in Nodes \ Announcers : ~hello[n] /\ ~isActive(announceTimer[n])

Types == TypeOK /\ Started /\ AnnouncedRuns /\ SweepsOnTime /\ OnlyAnnouncers

\* Division by the ticks of a second.
LEMMA WholeSeconds ==
    ASSUME NEW x \in Int
    PROVE  /\ x % Sec \in 0 .. Sec - 1 /\ x \div Sec \in Int
           /\ Sec * (x \div Sec) + (x % Sec) = x
BY TimesAssumption

LEMMA ClockTypes ==
    ASSUME Types, NEW d \in Int, WallClock(d)
    PROVE  /\ phase' = (phase + d) % Sec /\ phase' \in 0 .. Sec - 1
           /\ DOMAIN peerTable' = Nodes
           /\ \A n \in Nodes :
                /\ DOMAIN peerTable'[n] = DOMAIN peerTable[n]
                /\ \A p \in DOMAIN peerTable[n] :
                    /\ peerTable[n][p] \in [run: 1 .. run[p], age: Int]
                    /\ peerTable'[n][p].age = peerTable[n][p].age + (phase + d) \div Sec
                    /\ peerTable'[n][p] \in [run: 1 .. run[p], age: Int]
<1>1. phase + d \in Int
    BY TimesAssumption DEF Types, TypeOK
<1>2. phase' = (phase + d) % Sec /\ phase' \in 0 .. Sec - 1 /\ (phase + d) \div Sec \in Int
    BY <1>1, WholeSeconds DEF WallClock
<1>3. \A n \in Nodes : \A p \in DOMAIN peerTable[n] :
        peerTable[n][p] \in [run: 1 .. run[p], age: Int]
    BY DEF Types, TypeOK, list_peers
<1>4. peerTable' = [n \in Nodes |-> [p \in DOMAIN peerTable[n] |->
                      [peerTable[n][p] EXCEPT !.age = @ + (phase + d) \div Sec]]]
    BY DEF WallClock
<1> QED BY <1>2, <1>3, <1>4

LEMMA TypesInit == Init => Types
<1> SUFFICES ASSUME Init PROVE Types
    OBVIOUS
<1>1. TypeOK
    BY TimesAssumption, BoundsAssumption DEF Init, TypeOK, Empty, Stopped, list_peers
<1> QED BY <1>1 DEF Init, Types, Started, AnnouncedRuns, SweepsOnTime, OnlyAnnouncers, isActive, Stopped

LEMMA RearmedTypes ==
    ASSUME NEW timer \in [every: Nat, left: Int], timer.left <= 0, NEW t \in Rearmed(timer)
    PROVE  /\ t \in [every: Nat, left: Int]
           /\ t.every = timer.every /\ t.left <= timer.every
           /\ t.left >= timer.left + timer.every
BY DEF Rearmed

LEMMA OnlyAnnouncersNext ==
    ASSUME Types, [Next]_vars
    PROVE  OnlyAnnouncers'
<1> USE DEF Types, procVars, timers, history
<1> SUFFICES ASSUME NEW o \in Nodes \ Announcers
             PROVE  ~hello'[o] /\ ~isActive(announceTimer[o])'
    BY DEF OnlyAnnouncers
<1>0. /\ ~hello[o] /\ ~isActive(announceTimer[o])
      /\ hello \in [Nodes -> BOOLEAN] /\ announceTimer \in [Nodes -> [every: Nat, left: Int]]
    BY DEF OnlyAnnouncers, TypeOK
<1>1. ASSUME NEW n \in Nodes, Start(n) PROVE ~hello'[o] /\ ~isActive(announceTimer[o])'
    BY <1>0, <1>1 DEF Start, isActive, Stopped
<1>2. ASSUME NEW n \in Nodes, Stop(n) PROVE ~hello'[o] /\ ~isActive(announceTimer[o])'
    BY <1>0, <1>2 DEF Stop, isActive, Stopped
<1>3. ASSUME NEW n \in Nodes, NEW i \in Intervals, setIntervalMs(n, i)
      PROVE  ~hello'[o] /\ ~isActive(announceTimer[o])'
    BY <1>0, <1>3 DEF setIntervalMs, isActive
<1>4. ASSUME NEW n \in Nodes, sendAnnouncement(n)
      PROVE  ~hello'[o] /\ ~isActive(announceTimer[o])'
    BY <1>0, <1>4 DEF sendAnnouncement, isActive
<1>5. CASE Tick
    BY <1>0, <1>5 DEF Tick, CountDown, isActive
<1>6. CASE UNCHANGED <<hello, announceTimer>>
    BY <1>0, <1>6 DEF isActive
<1>7. ASSUME NEW n \in Nodes, expirePeers(n) PROVE UNCHANGED <<hello, announceTimer>>
    BY <1>7 DEF expirePeers
<1>8. ASSUME NEW d \in net, processPendingDatagram(d) PROVE UNCHANGED <<hello, announceTimer>>
    BY <1>8 DEF processPendingDatagram
<1>9. ASSUME NEW j \in Jumps, SetClock(j) PROVE UNCHANGED <<hello, announceTimer>>
    BY <1>9 DEF SetClock
<1> QED BY <1>1, <1>2, <1>3, <1>4, <1>5, <1>6, <1>7, <1>8, <1>9 DEF Next, vars

LEMMA TypesNext == Types /\ [Next]_vars => Types'
<1> SUFFICES ASSUME Types, [Next]_vars PROVE Types'
    OBVIOUS
<1> USE DEF Types, procVars, timers, history
<1>0. OnlyAnnouncers'
    BY OnlyAnnouncersNext
<1>1. ASSUME NEW n \in Nodes, Start(n) PROVE Types'
    <2>1. /\ run' = [run EXCEPT ![n] = @ + 1] /\ run[n] + 1 \in 1 .. MaxRuns
          /\ run \in [Nodes -> 0 .. MaxRuns]
        BY <1>1, BoundsAssumption DEF Start, TypeOK
    <2>2. run' \in [Nodes -> 0 .. MaxRuns] /\ \A p \in Nodes : 1 .. run[p] \subseteq 1 .. run'[p]
        BY <2>1, BoundsAssumption
    <2>3. PICK i \in Intervals :
            /\ announceTimer' = [announceTimer EXCEPT ![n] =
                    IF n \in Announcers THEN [every |-> i, left |-> i] ELSE Stopped]
            /\ expiryTimer' = [expiryTimer EXCEPT ![n] = [every |-> i, left |-> i]]
        BY <1>1 DEF Start
    <2>4. /\ i \in Nat /\ i > MaxLag /\ MaxLag \in Nat
          /\ announceTimer' \in [Nodes -> [every: Nat, left: Int]]
          /\ expiryTimer' \in [Nodes -> [every: Nat, left: Int]]
        BY <2>3, TimesAssumption DEF TypeOK, Stopped
    <2>5. \A m \in Nodes :
            /\ DOMAIN peerTable'[m] \subseteq IF up'[m] THEN Announcers \ {m} ELSE {}
            /\ \A p \in DOMAIN peerTable'[m] : peerTable'[m][p] \in [run: 1 .. run'[p], age: Int]
        BY <1>1, <2>2 DEF Start, TypeOK, list_peers
    <2>6. TypeOK'
        BY <1>1, <2>2, <2>4, <2>5, BoundsAssumption DEF Start, TypeOK, list_peers
    <2>7. AnnouncedRuns'
        BY <1>1, <2>2 DEF Start, AnnouncedRuns, TypeOK
    <2>8. SweepsOnTime'
        BY <1>1, <2>3, <2>4 DEF Start, SweepsOnTime, TypeOK
    <2>9. Started'
        BY <1>1, <2>1 DEF Start, Started, TypeOK
    <2> QED BY <1>0, <2>6, <2>7, <2>8, <2>9
<1>2. ASSUME NEW n \in Nodes, Stop(n) PROVE Types'
    <2>1. \A m \in Nodes :
            /\ DOMAIN peerTable'[m] \subseteq IF up'[m] THEN Announcers \ {m} ELSE {}
            /\ \A p \in DOMAIN peerTable'[m] : peerTable'[m][p] \in [run: 1 .. run'[p], age: Int]
        <3>1. /\ peerTable' = [peerTable EXCEPT ![n] = Empty] /\ run' = run
              /\ up' = [up EXCEPT ![n] = FALSE] /\ up \in [Nodes -> BOOLEAN]
            BY <1>2 DEF Stop, TypeOK
        <3>2. DOMAIN peerTable'[n] = {}
            BY <3>1 DEF TypeOK, Empty
        <3>3. \A m \in Nodes \ {n} : peerTable'[m] = peerTable[m] /\ up'[m] = up[m]
            BY <3>1 DEF TypeOK
        <3> QED BY <3>1, <3>2, <3>3 DEF TypeOK, list_peers
    <2>2. TypeOK'
        BY <1>2, <2>1, BoundsAssumption DEF Stop, TypeOK, list_peers, Stopped
    <2> QED BY <1>0, <1>2, <2>2 DEF Stop, TypeOK, Started, AnnouncedRuns, SweepsOnTime
<1>3. ASSUME NEW n \in Nodes, NEW i \in Intervals, setIntervalMs(n, i) PROVE Types'
    <2>1. i \in Nat /\ reloads + 1 \in 0 .. MaxReloads
        BY <1>3, TimesAssumption, BoundsAssumption DEF setIntervalMs, TypeOK
    <2>2. announceTimer' \in [Nodes -> [every: Nat, left: Int]]
        BY <1>3, <2>1 DEF setIntervalMs, TypeOK
    <2>3. TypeOK'
        BY <1>3, <2>1, <2>2 DEF setIntervalMs, TypeOK, list_peers
    <2> QED BY <1>0, <1>3, <2>3 DEF setIntervalMs, Started, AnnouncedRuns, SweepsOnTime
<1>4. ASSUME NEW n \in Nodes, sendAnnouncement(n) PROVE Types'
    <2>1. PICK heard \in SUBSET Bound :
            /\ net' = net \cup {Announcement(n, m) : m \in heard}
            /\ missed' = [m \in Nodes |-> [missed[m] EXCEPT ![n] =
                    IF m \in heard \/ ~up[m] \/ m \notin Bound \/ m = n THEN 0 ELSE @ + 1]]
            /\ \A m \in Nodes : missed'[m][n] <= MaxMissed
        BY <1>4 DEF sendAnnouncement, Announce
    <2>2. run[n] \in 1 .. run[n] /\ n \in Announcers
        BY <1>4 DEF sendAnnouncement, TypeOK, Started, OnlyAnnouncers
    <2>3. \A d \in net' \ net :
            /\ d \in [from: Announcers, to: Nodes, run: Nat, left: 0 .. MaxDelay]
            /\ d.run \in 1 .. run[d.from]
        BY <2>1, <2>2, NodesAssumption, BoundsAssumption DEF Announcement
    <2>4. missed' \in [Nodes -> [Nodes -> 0 .. MaxMissed]]
        <3> SUFFICES ASSUME NEW m \in Nodes
                     PROVE  missed'[m] \in [Nodes -> 0 .. MaxMissed]
            BY <2>1
        <3>1. missed[m] \in [Nodes -> 0 .. MaxMissed] /\ missed[m][n] \in Nat
            BY DEF TypeOK
        <3>2. PICK k \in {0, missed[m][n] + 1} : missed'[m] = [missed[m] EXCEPT ![n] = k]
            BY <2>1, <3>1
        <3>3. k \in 0 .. MaxMissed
            BY <2>1, <3>1, <3>2, BoundsAssumption
        <3> QED BY <3>1, <3>2, <3>3
    <2>5. announceTimer' \in [Nodes -> [every: Nat, left: Int]]
        <3>1. CASE UNCHANGED announceTimer
            BY <3>1 DEF TypeOK
        <3>2. ASSUME NEW t \in Rearmed(announceTimer[n]), announceTimer[n].left <= 0,
                     announceTimer' = [announceTimer EXCEPT ![n] = t]
              PROVE  announceTimer' \in [Nodes -> [every: Nat, left: Int]]
            <4>1. t \in [every: Nat, left: Int]
                BY <3>2, RearmedTypes DEF TypeOK
            <4> QED BY <3>2, <4>1 DEF TypeOK
        <3> QED BY <1>4, <3>1, <3>2 DEF sendAnnouncement
    <2>6. hello' \in [Nodes -> BOOLEAN]
        BY <1>4 DEF sendAnnouncement, TypeOK
    <2>7. TypeOK'
        BY <1>4, <2>3, <2>4, <2>5, <2>6 DEF sendAnnouncement, TypeOK, list_peers
    <2> QED BY <1>0, <1>4, <2>3, <2>7 DEF sendAnnouncement, Started, AnnouncedRuns, SweepsOnTime
<1>5. ASSUME NEW d \in net, processPendingDatagram(d) PROVE Types'
    <2>1. /\ d.to \in Nodes /\ d.from \in Announcers /\ d.run \in 1 .. run[d.from]
        BY NodesAssumption DEF TypeOK, AnnouncedRuns
    <2>2. \A m \in Nodes :
            /\ DOMAIN peerTable'[m] \subseteq IF up'[m] THEN Announcers \ {m} ELSE {}
            /\ \A p \in DOMAIN peerTable'[m] : peerTable'[m][p] \in [run: 1 .. run'[p], age: Int]
        <3>1. CASE up[d.to]
            <4>1. /\ peerTable' = [peerTable EXCEPT ![d.to] = Listed(d)]
                  /\ up' = up /\ run' = run
                BY <1>5, <3>1 DEF processPendingDatagram
            <4>2. /\ DOMAIN Listed(d) \subseteq Announcers \ {d.to}
                  /\ \A p \in DOMAIN Listed(d) : Listed(d)[p] \in [run: 1 .. run[p], age: Int]
                BY <2>1, <3>1 DEF Listed, TypeOK, list_peers
            <4> QED BY <2>1, <3>1, <4>1, <4>2 DEF TypeOK, list_peers
        <3>2. CASE ~up[d.to]
            BY <1>5, <3>2 DEF processPendingDatagram, TypeOK, list_peers
        <3> QED BY <3>1, <3>2
    <2>3. DOMAIN peerTable' = Nodes /\ quiet' \in [Nodes -> [Nodes -> Nat]]
        <3>1. CASE up[d.to]
            <4>1. /\ peerTable' = [peerTable EXCEPT ![d.to] = Listed(d)]
                  /\ quiet' = [quiet EXCEPT ![d.to] = [quiet[d.to] EXCEPT ![d.from] = 0]]
                BY <1>5, <3>1 DEF processPendingDatagram
            <4>2. quiet \in [Nodes -> [Nodes -> Nat]] /\ DOMAIN peerTable = Nodes
                BY DEF TypeOK
            <4>3. [quiet[d.to] EXCEPT ![d.from] = 0] \in [Nodes -> Nat]
                BY <2>1, <4>2
            <4> QED BY <4>1, <4>2, <4>3
        <3>2. CASE ~up[d.to]
            BY <1>5, <3>2 DEF processPendingDatagram, TypeOK
        <3> QED BY <3>1, <3>2
    <2>4. TypeOK'
        BY <1>5, <2>2, <2>3 DEF processPendingDatagram, TypeOK, list_peers
    <2> QED BY <1>0, <1>5, <2>4 DEF processPendingDatagram, Started, AnnouncedRuns, SweepsOnTime
<1>6. ASSUME NEW n \in Nodes, expirePeers(n) PROVE Types'
    <2>1. PICK t \in Rearmed(expiryTimer[n]) : expiryTimer' = [expiryTimer EXCEPT ![n] = t]
        BY <1>6 DEF expirePeers
    <2>2. /\ t \in [every: Nat, left: Int] /\ t.every = expiryTimer[n].every
          /\ t.left <= t.every /\ t.left >= expiryTimer[n].left + t.every
        BY <1>6, RearmedTypes DEF expirePeers, TypeOK
    <2>3. expiryTimer' \in [Nodes -> [every: Nat, left: Int]] /\ SweepsOnTime'
        BY <1>6, <2>1, <2>2, TimesAssumption DEF expirePeers, TypeOK, SweepsOnTime
    <2>4. \A m \in Nodes :
            /\ DOMAIN peerTable'[m] \subseteq DOMAIN peerTable[m]
            /\ \A p \in DOMAIN peerTable'[m] : peerTable'[m][p] = peerTable[m][p]
        BY <1>6 DEF expirePeers, TypeOK
    <2>5. DOMAIN peerTable' = Nodes /\ quiet' \in [Nodes -> [Nodes -> Nat]]
        BY <1>6 DEF expirePeers, TypeOK
    <2>6. TypeOK'
        BY <1>6, <2>3, <2>4, <2>5 DEF expirePeers, TypeOK, list_peers
    <2> QED BY <1>0, <1>6, <2>3, <2>6 DEF expirePeers, Started, AnnouncedRuns
<1>7. ASSUME Tick PROVE Types'
    <2>1. /\ announceTimer' \in [Nodes -> [every: Nat, left: Int]]
          /\ expiryTimer' \in [Nodes -> [every: Nat, left: Int]]
        <3>1. ASSUME NEW timer \in [Nodes -> [every: Nat, left: Int]]
              PROVE  CountDown(timer) \in [Nodes -> [every: Nat, left: Int]]
            BY DEF CountDown
        <3>2. /\ announceTimer' = CountDown(announceTimer)
              /\ expiryTimer' = CountDown(expiryTimer)
            BY <1>7 DEF Tick
        <3> QED BY <3>1, <3>2 DEF TypeOK
    <2>2. net' \subseteq [from: Announcers, to: Nodes, run: Nat, left: 0 .. MaxDelay] /\ AnnouncedRuns'
        <3>1. /\ net' = {[d EXCEPT !.left = @ - 1] : d \in net}
              /\ run' = run /\ \A d \in net : d.left > 0
            BY <1>7 DEF Tick
        <3> SUFFICES ASSUME NEW e \in net'
                     PROVE  /\ e \in [from: Announcers, to: Nodes, run: Nat, left: 0 .. MaxDelay]
                            /\ e.run \in 1 .. run[e.from]
            BY <3>1 DEF AnnouncedRuns
        <3>2. PICK d \in net : e = [d EXCEPT !.left = @ - 1]
            BY <3>1
        <3>3. /\ d \in [from: Announcers, to: Nodes, run: Nat, left: 0 .. MaxDelay] /\ d.left > 0
              /\ d.run \in 1 .. run[d.from]
            BY <3>1 DEF TypeOK, AnnouncedRuns
        <3> QED BY <3>2, <3>3, BoundsAssumption
    <2>3. /\ quiet' \in [Nodes -> [Nodes -> Nat]] /\ upFor' \in [Nodes -> 0 .. Horizon]
        BY <1>7, BoundsAssumption DEF Tick, TypeOK
    <2>4. SweepsOnTime'
        BY <1>7, TimesAssumption DEF Tick, CountDown, Overdue, SweepsOnTime, TypeOK
    <2>5. WallClock(1)
        BY <1>7 DEF Tick
    <2>6. /\ phase' \in 0 .. Sec - 1 /\ DOMAIN peerTable' = Nodes
          /\ \A n \in Nodes :
                /\ DOMAIN peerTable'[n] \subseteq IF up[n] THEN Announcers \ {n} ELSE {}
                /\ \A p \in DOMAIN peerTable'[n] : peerTable'[n][p] \in [run: 1 .. run[p], age: Int]
        BY <2>5, ClockTypes DEF TypeOK, list_peers
    <2>7. TypeOK'
        BY <1>7, <2>1, <2>2, <2>3, <2>6 DEF Tick, TypeOK, list_peers
    <2> QED BY <1>0, <1>7, <2>2, <2>4, <2>7 DEF Tick, Started
<1>8. ASSUME NEW j \in Jumps, SetClock(j) PROVE Types'
    <2>1. WallClock(j) /\ j \in Int
        BY <1>8, BoundsAssumption DEF SetClock
    <2>2. jumped' \in [n: 0 .. MaxJumps, ahead: Nat, back: Nat]
        BY <1>8, <2>1, BoundsAssumption DEF SetClock, TypeOK
    <2>3. /\ phase' \in 0 .. Sec - 1 /\ DOMAIN peerTable' = Nodes
          /\ \A n \in Nodes :
                /\ DOMAIN peerTable'[n] \subseteq IF up[n] THEN Announcers \ {n} ELSE {}
                /\ \A p \in DOMAIN peerTable'[n] : peerTable'[n][p] \in [run: 1 .. run[p], age: Int]
        BY <2>1, ClockTypes DEF TypeOK, list_peers
    <2>4. TypeOK'
        BY <1>8, <2>2, <2>3 DEF SetClock, TypeOK, list_peers
    <2> QED BY <1>0, <1>8, <2>4 DEF SetClock, Started, AnnouncedRuns, SweepsOnTime
<1>9. CASE UNCHANGED vars
    BY <1>0, <1>9 DEF vars, TypeOK, Started, AnnouncedRuns, SweepsOnTime, list_peers
<1> QED BY <1>1, <1>2, <1>3, <1>4, <1>5, <1>6, <1>7, <1>8, <1>9 DEF Next

(***************************************************************************)
(* TypeOK for every instance: a node never lists itself, lists nobody      *)
(* while it is down, and lists a peer under a process it has had.          *)
(***************************************************************************)
THEOREM TypeCorrect == Spec => []TypeOK
<1>1. Types => TypeOK
    BY DEF Types
<1> QED BY <1>1, TypesInit, TypesNext, PTL DEF Spec

-----------------------------------------------------------------------------
(***************************************************************************)
(* The age of an entry, read off the wall clock in whole seconds, against  *)
(* the true time since the peer was heard; and what the last sweep left.   *)
(***************************************************************************)
Read(n, p) == Sec * peerTable[n][p].age + phase

AgesRight ==
    \A n \in Nodes : \A p \in DOMAIN peerTable[n] :
        /\ quiet[n][p] - jumped.back <= Read(n, p)
        /\ Read(n, p) <= quiet[n][p] + jumped.ahead + Sec - 1

SinceSweep(n) == expiryTimer[n].every - expiryTimer[n].left

SweptInTime ==
    \A n \in Nodes : \A p \in DOMAIN peerTable[n] :
        quiet[n][p] <= (Expiry + 1) * Sec - 1 + jumped.back + SinceSweep(n)

QuietInv == Types /\ AgesRight /\ SweptInTime

(***************************************************************************)
(* When the wall clock moves by d ticks, what is read of an age does too.  *)
(***************************************************************************)
LEMMA ReadMoves ==
    ASSUME Types, NEW d \in Int, WallClock(d), NEW n \in Nodes, NEW p \in DOMAIN peerTable[n]
    PROVE  Read(n, p)' = Read(n, p) + d /\ Read(n, p) \in Int
<1> DEFINE q == (phase + d) \div Sec
<1>1. phase \in Int /\ phase + d \in Int /\ Sec \in Int
    BY TimesAssumption DEF Types, TypeOK
<1>2. /\ q \in Int /\ Sec * q + ((phase + d) % Sec) = phase + d
      /\ (phase + d) % Sec \in Int
    BY <1>1, WholeSeconds
<1>3. /\ peerTable[n][p].age \in Int /\ peerTable'[n][p].age = peerTable[n][p].age + q
      /\ phase' = (phase + d) % Sec
    <2>1. n \in Nodes
        OBVIOUS
    <2> QED BY <2>1, ClockTypes
<1> HIDE DEF q
<1>4. Sec * (peerTable[n][p].age + q) = Sec * peerTable[n][p].age + Sec * q
    BY <1>1, <1>2, <1>3
<1>5. Sec * peerTable[n][p].age \in Int /\ Sec * q \in Int
    BY <1>1, <1>2, <1>3
<1>6. Read(n, p)' = Sec * (peerTable[n][p].age + q) + ((phase + d) % Sec)
    BY <1>3 DEF Read
<1>7. Read(n, p) = Sec * peerTable[n][p].age + phase
    BY DEF Read
<1>8. Sec * (peerTable[n][p].age + q) + ((phase + d) % Sec)
        = (Sec * peerTable[n][p].age + phase) + d
    <2> DEFINE age == Sec * peerTable[n][p].age
               moved == Sec * q
               rest == (phase + d) % Sec
    <2>1. /\ age \in Int /\ moved \in Int /\ rest \in Int /\ d \in Int /\ phase \in Int
          /\ moved + rest = phase + d
        BY <1>1, <1>2, <1>5
    <2>2. Sec * (peerTable[n][p].age + q) = age + moved
        BY <1>4
    <2> HIDE DEF age, moved, rest
    <2>3. (age + moved) + rest = (age + phase) + d
        BY <2>1
    <2> QED BY <2>2, <2>3 DEF age, rest
<1> QED BY <1>1, <1>5, <1>6, <1>7, <1>8

LEMMA QuietInit == Init => QuietInv
BY TypesInit DEF Init, QuietInv, AgesRight, SweptInTime, Empty

\* What is known of an entry and the clock.
LEMMA EntryTypes ==
    ASSUME Types, NEW n \in Nodes, NEW p \in DOMAIN peerTable[n]
    PROVE  /\ quiet[n][p] \in Nat /\ peerTable[n][p].age \in Int /\ Read(n, p) \in Int
           /\ up[n] /\ p \in Nodes /\ jumped.back \in Nat /\ jumped.ahead \in Nat
           /\ SinceSweep(n) \in Nat /\ (Expiry + 1) * Sec \in Nat
           /\ Sec \in Nat /\ Sec >= 1 /\ Expiry \in Nat /\ phase \in 0 .. Sec - 1
<1>1. up[n] /\ p \in Nodes /\ peerTable[n][p].age \in Int /\ quiet[n][p] \in Nat
    BY NodesAssumption DEF Types, TypeOK, list_peers
<1>2. jumped.back \in Nat /\ jumped.ahead \in Nat /\ phase \in 0 .. Sec - 1
    BY DEF Types, TypeOK
<1>3. SinceSweep(n) \in Nat
    BY <1>1, TimesAssumption DEF Types, TypeOK, SweepsOnTime, SinceSweep
<1>4. Sec \in Nat /\ Sec >= 1 /\ Expiry \in Nat
    BY TimesAssumption
<1>5. Sec * peerTable[n][p].age \in Int /\ (Expiry + 1) * Sec \in Nat
    BY <1>1, <1>4
<1> QED BY <1>1, <1>2, <1>3, <1>4, <1>5 DEF Read

(***************************************************************************)
(* An age above the expiry, or not above it, in terms of what is read.     *)
(***************************************************************************)
LEMMA ReadOfExpired ==
    ASSUME Types, NEW n \in Nodes, NEW p \in DOMAIN peerTable[n]
    PROVE  /\ p \in Expired(n) => Read(n, p) >= (Expiry + 1) * Sec
           /\ p \notin Expired(n) => Read(n, p) <= (Expiry + 1) * Sec - 1
<1>1. /\ peerTable[n][p].age \in Int /\ Sec \in Nat /\ Sec >= 1 /\ Expiry \in Nat
      /\ phase \in 0 .. Sec - 1
    BY EntryTypes
<1>2. ASSUME peerTable[n][p].age >= Expiry + 1
      PROVE  Sec * peerTable[n][p].age >= (Expiry + 1) * Sec
    BY <1>1, <1>2
<1>3. ASSUME peerTable[n][p].age <= Expiry
      PROVE  Sec * peerTable[n][p].age <= Expiry * Sec
    BY <1>1, <1>3
<1>4. (Expiry + 1) * Sec = Expiry * Sec + Sec /\ Expiry * Sec \in Nat
      /\ Sec * peerTable[n][p].age \in Int
    BY <1>1
<1>5. CASE p \in Expired(n)
    BY <1>1, <1>2, <1>4, <1>5 DEF Expired, Read
<1>6. CASE p \notin Expired(n)
    BY <1>1, <1>3, <1>4, <1>6 DEF Expired, Read
<1> QED BY <1>5, <1>6

(***************************************************************************)
(* Entries, quiet times, clock and sweeps unchanged, or entries gone.      *)
(***************************************************************************)
LEMMA FewerEntries ==
    ASSUME QuietInv, UNCHANGED <<phase, jumped>>,
           \A n \in Nodes : \A p \in DOMAIN peerTable'[n] :
                /\ p \in DOMAIN peerTable[n] /\ peerTable'[n][p] = peerTable[n][p]
                /\ quiet'[n][p] = quiet[n][p] /\ expiryTimer'[n] = expiryTimer[n]
    PROVE  AgesRight' /\ SweptInTime'
BY DEF QuietInv, AgesRight, SweptInTime, Read, SinceSweep

LEMMA HeardKeeps ==
    ASSUME QuietInv, Types', NEW d \in net, processPendingDatagram(d)
    PROVE  AgesRight' /\ SweptInTime'
<1>1. Types /\ d.to \in Nodes /\ d.from \in Nodes /\ UNCHANGED <<phase, jumped, expiryTimer>>
    BY NodesAssumption DEF QuietInv, Types, TypeOK, processPendingDatagram, timers, history
<1>2. CASE ~up[d.to]
    BY <1>1, <1>2, FewerEntries DEF processPendingDatagram
<1>3. CASE up[d.to]
    <2>1. /\ peerTable' = [peerTable EXCEPT ![d.to] = Listed(d)]
          /\ quiet' = [quiet EXCEPT ![d.to] = [quiet[d.to] EXCEPT ![d.from] = 0]]
        BY <1>3 DEF processPendingDatagram
    <2>2. quiet \in [Nodes -> [Nodes -> Nat]] /\ DOMAIN peerTable = Nodes
        BY <1>1 DEF Types, TypeOK
    <2> SUFFICES ASSUME NEW n \in Nodes, NEW p \in DOMAIN peerTable'[n]
                 PROVE  /\ quiet'[n][p] - jumped.back <= Read(n, p)'
                        /\ Read(n, p)' <= quiet'[n][p] + jumped.ahead + Sec - 1
                        /\ quiet'[n][p] <= (Expiry + 1) * Sec - 1 + jumped.back + SinceSweep(n)
        BY <1>1 DEF AgesRight, SweptInTime, SinceSweep
    <2>3. CASE n = d.to /\ p = d.from
        <3>1. peerTable'[n][p].age = 0 /\ quiet'[n][p] = 0
            BY <1>1, <2>1, <2>2, <2>3 DEF Listed
        <3>2. /\ Read(n, p)' = phase /\ phase \in 0 .. Sec - 1
              /\ jumped.back \in Nat /\ jumped.ahead \in Nat
            BY <1>1, <3>1, TimesAssumption DEF Read, Types, TypeOK
        <3>3. SinceSweep(n) \in Nat
            BY <1>1, <1>3, <2>3, TimesAssumption DEF Types, TypeOK, SweepsOnTime, SinceSweep
        <3>4. (Expiry + 1) * Sec \in Nat /\ (Expiry + 1) * Sec >= 1 /\ Sec \in Nat
            BY TimesAssumption
        <3> QED BY <3>1, <3>2, <3>3, <3>4
    <2>4. CASE ~(n = d.to /\ p = d.from)
        <3>1. /\ p \in DOMAIN peerTable[n] /\ peerTable'[n][p] = peerTable[n][p]
              /\ quiet'[n][p] = quiet[n][p]
            <4>1. CASE n = d.to
                <5>1. peerTable'[n] = Listed(d) /\ quiet'[n] = [quiet[n] EXCEPT ![d.from] = 0]
                    BY <2>1, <2>2, <4>1
                <5>2. p \in (DOMAIN peerTable[n] \cup {d.from}) \ {n} /\ p # d.from
                    BY <2>4, <4>1, <5>1 DEF Listed
                <5>3. p \in Nodes /\ p \in DOMAIN peerTable[n]
                    BY <1>1, <5>2, EntryTypes
                <5> QED BY <2>2, <4>1, <5>1, <5>2, <5>3 DEF Listed
            <4>2. CASE n # d.to
                BY <2>1, <2>2, <4>2
            <4> QED BY <4>1, <4>2
        <3>2. Read(n, p)' = Read(n, p)
            BY <1>1, <3>1 DEF Read
        <3> QED BY <1>1, <3>1, <3>2 DEF QuietInv, AgesRight, SweptInTime
    <2> QED BY <2>3, <2>4
<1> QED BY <1>2, <1>3

LEMMA SweepKeeps ==
    ASSUME QuietInv, Types', NEW n \in Nodes, expirePeers(n)
    PROVE  AgesRight' /\ SweptInTime'
<1>1. PICK t \in Rearmed(expiryTimer[n]) : expiryTimer' = [expiryTimer EXCEPT ![n] = t]
    BY DEF expirePeers
<1>2. /\ Types /\ UNCHANGED <<phase, jumped>> /\ expiryTimer[n].left <= 0
      /\ DOMAIN peerTable = Nodes /\ expiryTimer \in [Nodes -> [every: Nat, left: Int]]
      /\ quiet \in [Nodes -> [Nodes -> Nat]]
    BY DEF QuietInv, Types, TypeOK, expirePeers, history
<1>3. t.every = expiryTimer[n].every /\ t.left <= t.every /\ t.every \in Nat /\ t.left \in Int
    BY <1>2, RearmedTypes
<1>4. /\ peerTable' = [peerTable EXCEPT ![n] = [p \in DOMAIN peerTable[n] \ Expired(n) |->
                          peerTable[n][p]]]
      /\ quiet' = [quiet EXCEPT ![n] = [p \in Nodes |->
                      IF p \in Expired(n) THEN 0 ELSE quiet[n][p]]]
    BY DEF expirePeers
<1> SUFFICES ASSUME NEW m \in Nodes, NEW p \in DOMAIN peerTable'[m]
             PROVE  /\ quiet'[m][p] - jumped.back <= Read(m, p)'
                    /\ Read(m, p)' <= quiet'[m][p] + jumped.ahead + Sec - 1
                    /\ quiet'[m][p] <= (Expiry + 1) * Sec - 1 + jumped.back + SinceSweep(m)'
    BY <1>2 DEF AgesRight, SweptInTime
<1>5. CASE m = n
    <2>1. p \in DOMAIN peerTable[n] /\ p \notin Expired(n) /\ peerTable'[n][p] = peerTable[n][p]
        BY <1>2, <1>4, <1>5
    <2>2. quiet'[n][p] = quiet[n][p] /\ Read(n, p)' = Read(n, p)
        BY <1>2, <1>4, <2>1, EntryTypes DEF Read
    <2>3. Read(n, p) <= (Expiry + 1) * Sec - 1
        BY <1>2, <2>1, ReadOfExpired
    <2>4. SinceSweep(n)' \in Nat
        BY <1>1, <1>2, <1>3 DEF SinceSweep
    <2>5. /\ quiet[n][p] - jumped.back <= Read(n, p)
          /\ Read(n, p) <= quiet[n][p] + jumped.ahead + Sec - 1
        BY <2>1 DEF QuietInv, AgesRight
    <2>6. /\ quiet[n][p] \in Nat /\ Read(n, p) \in Int /\ jumped.back \in Nat
          /\ (Expiry + 1) * Sec \in Nat
        BY <1>2, <2>1, EntryTypes
    <2>7. quiet[n][p] <= (Expiry + 1) * Sec - 1 + jumped.back + SinceSweep(n)'
        BY <2>3, <2>4, <2>5, <2>6
    <2> QED BY <1>5, <2>2, <2>5, <2>7
<1>6. CASE m # n
    <2>1. /\ p \in DOMAIN peerTable[m] /\ peerTable'[m][p] = peerTable[m][p]
          /\ quiet'[m][p] = quiet[m][p] /\ expiryTimer'[m] = expiryTimer[m]
        BY <1>1, <1>2, <1>4, <1>6
    <2>2. Read(m, p)' = Read(m, p) /\ SinceSweep(m)' = SinceSweep(m)
        BY <1>2, <2>1 DEF Read, SinceSweep
    <2> QED BY <2>1, <2>2 DEF QuietInv, AgesRight, SweptInTime
<1> QED BY <1>5, <1>6

LEMMA TickKeeps ==
    ASSUME QuietInv, Types', Tick
    PROVE  AgesRight' /\ SweptInTime'
<1>1. /\ Types /\ WallClock(1) /\ jumped' = jumped /\ expiryTimer' = CountDown(expiryTimer)
      /\ \A n, p \in Nodes : p \in list_peers(n) => quiet'[n][p] = quiet[n][p] + 1
    BY DEF QuietInv, Tick, timers
<1> SUFFICES ASSUME NEW n \in Nodes, NEW p \in DOMAIN peerTable[n]
             PROVE  /\ quiet'[n][p] - jumped.back <= Read(n, p)'
                    /\ Read(n, p)' <= quiet'[n][p] + jumped.ahead + Sec - 1
                    /\ quiet'[n][p] <= (Expiry + 1) * Sec - 1 + jumped.back + SinceSweep(n)'
    BY <1>1, ClockTypes DEF AgesRight, SweptInTime
<1>2. /\ quiet[n][p] \in Nat /\ Read(n, p) \in Int /\ jumped.back \in Nat
      /\ jumped.ahead \in Nat /\ SinceSweep(n) \in Nat /\ (Expiry + 1) * Sec \in Nat
      /\ p \in Nodes /\ up[n] /\ Sec \in Nat
    BY <1>1, EntryTypes
<1>3. Read(n, p)' = Read(n, p) + 1 /\ quiet'[n][p] = quiet[n][p] + 1
    BY <1>1, <1>2, ReadMoves DEF list_peers
<1>4. SinceSweep(n)' = SinceSweep(n) + 1
    <2>1. expiryTimer[n] \in [every: Nat, left: Int] /\ expiryTimer[n].every > 0
        BY <1>1, <1>2, TimesAssumption DEF Types, TypeOK, SweepsOnTime
    <2> QED BY <1>1, <2>1 DEF CountDown, isActive, SinceSweep
<1>5. /\ quiet[n][p] - jumped.back <= Read(n, p)
      /\ Read(n, p) <= quiet[n][p] + jumped.ahead + Sec - 1
      /\ quiet[n][p] <= (Expiry + 1) * Sec - 1 + jumped.back + SinceSweep(n)
    BY DEF QuietInv, AgesRight, SweptInTime
<1> QED BY <1>2, <1>3, <1>4, <1>5

LEMMA SetClockKeeps ==
    ASSUME QuietInv, Types', NEW j \in Jumps, SetClock(j)
    PROVE  AgesRight' /\ SweptInTime'
<1>1. /\ Types /\ WallClock(j) /\ j \in Int /\ UNCHANGED <<quiet, expiryTimer>>
      /\ jumped'.ahead = jumped.ahead + (IF j > 0 THEN j ELSE 0)
      /\ jumped'.back = jumped.back + (IF j < 0 THEN -j ELSE 0)
    BY BoundsAssumption DEF QuietInv, SetClock, timers
<1> SUFFICES ASSUME NEW n \in Nodes, NEW p \in DOMAIN peerTable[n]
             PROVE  /\ quiet[n][p] - jumped'.back <= Read(n, p)'
                    /\ Read(n, p)' <= quiet[n][p] + jumped'.ahead + Sec - 1
                    /\ quiet[n][p] <= (Expiry + 1) * Sec - 1 + jumped'.back + SinceSweep(n)
    BY <1>1, ClockTypes DEF AgesRight, SweptInTime, SinceSweep
<1>2. /\ quiet[n][p] \in Nat /\ Read(n, p) \in Int /\ jumped.back \in Nat
      /\ jumped.ahead \in Nat /\ SinceSweep(n) \in Nat /\ (Expiry + 1) * Sec \in Nat
      /\ Sec \in Nat
    BY <1>1, EntryTypes
<1>3. Read(n, p)' = Read(n, p) + j
    BY <1>1, ReadMoves
<1>4. /\ quiet[n][p] - jumped.back <= Read(n, p)
      /\ Read(n, p) <= quiet[n][p] + jumped.ahead + Sec - 1
      /\ quiet[n][p] <= (Expiry + 1) * Sec - 1 + jumped.back + SinceSweep(n)
    BY DEF QuietInv, AgesRight, SweptInTime
<1> QED BY <1>1, <1>2, <1>3, <1>4

LEMMA SameEntries ==
    ASSUME QuietInv, peerTable' = peerTable, quiet' = quiet, phase' = phase,
           jumped' = jumped, expiryTimer' = expiryTimer
    PROVE  AgesRight' /\ SweptInTime'
BY DEF QuietInv, AgesRight, SweptInTime, Read, SinceSweep

LEMMA QuietNext == QuietInv /\ [Next]_vars => QuietInv'
<1> SUFFICES ASSUME QuietInv, [Next]_vars PROVE QuietInv'
    OBVIOUS
<1>1. Types /\ Types' /\ DOMAIN peerTable = Nodes
    BY TypesNext DEF QuietInv, Types, TypeOK
<1> USE DEF procVars, timers, history
<1>2. ASSUME NEW n \in Nodes, Start(n) PROVE AgesRight' /\ SweptInTime'
    <2>1. \A m \in Nodes : \A p \in DOMAIN peerTable[m] : m # n
        BY <1>1, <1>2 DEF Start, Types, TypeOK, list_peers
    <2>2. \A m \in Nodes : m # n => expiryTimer'[m] = expiryTimer[m]
        BY <1>1, <1>2 DEF Start, Types, TypeOK
    <2>3. UNCHANGED <<peerTable, quiet, phase, jumped>>
        BY <1>2 DEF Start
    <2> QED BY <2>1, <2>2, <2>3, FewerEntries
<1>3. ASSUME NEW n \in Nodes, Stop(n) PROVE AgesRight' /\ SweptInTime'
    <2>1. UNCHANGED <<phase, jumped>> /\ DOMAIN peerTable'[n] = {}
        BY <1>1, <1>3 DEF Stop, Empty
    <2>2. \A m \in Nodes : m # n =>
            /\ peerTable'[m] = peerTable[m] /\ quiet'[m] = quiet[m]
            /\ expiryTimer'[m] = expiryTimer[m]
        BY <1>1, <1>3 DEF Stop, Types, TypeOK
    <2> QED BY <2>1, <2>2, FewerEntries
<1>4. ASSUME NEW n \in Nodes, sendAnnouncement(n) PROVE AgesRight' /\ SweptInTime'
    BY <1>4, SameEntries DEF sendAnnouncement
<1>5. ASSUME NEW n \in Nodes, NEW i \in Intervals, setIntervalMs(n, i)
      PROVE  AgesRight' /\ SweptInTime'
    BY <1>5, SameEntries DEF setIntervalMs
<1>6. ASSUME NEW n \in Nodes, expirePeers(n) PROVE AgesRight' /\ SweptInTime'
    BY <1>1, <1>6, SweepKeeps
<1>7. ASSUME NEW d \in net, processPendingDatagram(d) PROVE AgesRight' /\ SweptInTime'
    BY <1>1, <1>7, HeardKeeps
<1>8. ASSUME Tick \/ \E j \in Jumps : SetClock(j) PROVE AgesRight' /\ SweptInTime'
    BY <1>1, <1>8, TickKeeps, SetClockKeeps
<1>9. ASSUME UNCHANGED vars PROVE AgesRight' /\ SweptInTime'
    <2>1. /\ peerTable' = peerTable /\ quiet' = quiet /\ phase' = phase
          /\ jumped' = jumped /\ expiryTimer' = expiryTimer
        BY <1>9 DEF vars
    <2> QED BY <2>1, SameEntries
<1>10. AgesRight' /\ SweptInTime'
    BY <1>2, <1>3, <1>4, <1>5, <1>6, <1>7, <1>8, <1>9 DEF Next
<1> QED BY <1>1, <1>10 DEF QuietInv

(***************************************************************************)
(* GoneInTime for every instance: however the clock is set and whoever     *)
(* restarts, a peer that is gone is listed no longer than that.            *)
(***************************************************************************)
THEOREM ForgottenInTime == Spec => []GoneInTime
<1>1. QuietInv => GoneInTime
    <2> SUFFICES ASSUME QuietInv, NEW n \in Nodes, NEW p \in list_peers(n)
                 PROVE  quiet[n][p] <= (Expiry + 1) * Sec - 1 + expiryTimer[n].every
                                       + MaxLag + jumped.back
        BY DEF GoneInTime
    <2>1. quiet[n][p] <= (Expiry + 1) * Sec - 1 + jumped.back + SinceSweep(n)
        BY DEF QuietInv, SweptInTime, list_peers
    <2>2. /\ quiet[n][p] \in Nat /\ jumped.back \in Nat /\ (Expiry + 1) * Sec \in Nat /\ up[n]
        BY EntryTypes DEF QuietInv, list_peers
    <2>3. /\ expiryTimer[n].left \in Int /\ expiryTimer[n].every \in Nat
          /\ expiryTimer[n].left >= -MaxLag /\ MaxLag \in Nat
        BY <2>2, TimesAssumption DEF QuietInv, Types, TypeOK, SweepsOnTime
    <2> QED BY <2>1, <2>2, <2>3 DEF SinceSweep
<1> QED BY <1>1, QuietInit, QuietNext, PTL DEF Spec

(***************************************************************************)
(* NotDroppedEarly for every instance: no running node drops a peer within *)
(* the expiry of its last announcement, but for a clock set ahead.         *)
(***************************************************************************)
THEOREM KeptLongEnough == Spec => NotDroppedEarly
<1>1. QuietInv /\ [Next]_vars => [\A n, p \in Nodes : ~DroppedEarly(n, p)]_vars
    <2> SUFFICES ASSUME QuietInv, Next, NEW n \in Nodes, NEW p \in Nodes, DroppedEarly(n, p)
                 PROVE  FALSE
        BY DEF vars
    <2> USE DEF procVars, timers, history
    <2>1. /\ p \in DOMAIN peerTable[n] /\ p \notin DOMAIN peerTable'[n] /\ up'[n]
          /\ quiet[n][p] <= Expiry * Sec - jumped.ahead
        BY DEF DroppedEarly, list_peers
    <2>2. Types /\ DOMAIN peerTable = Nodes /\ up \in [Nodes -> BOOLEAN]
        BY DEF QuietInv, Types, TypeOK
    <2>3. CASE expirePeers(n)
        <3>1. p \in Expired(n)
            BY <2>1, <2>2, <2>3 DEF expirePeers
        <3>2. /\ Read(n, p) >= (Expiry + 1) * Sec
              /\ Read(n, p) <= quiet[n][p] + jumped.ahead + Sec - 1
            BY <2>1, <2>2, <3>1, ReadOfExpired DEF QuietInv, AgesRight
        <3>3. /\ quiet[n][p] \in Nat /\ Read(n, p) \in Int /\ jumped.ahead \in Nat
              /\ Sec \in Nat /\ Expiry \in Nat
            BY <2>1, <2>2, EntryTypes
        <3>4. (Expiry + 1) * Sec = Expiry * Sec + Sec /\ Expiry * Sec \in Nat
            BY <3>3
        <3> QED BY <2>1, <3>2, <3>3, <3>4
    <2>4. ASSUME NEW m \in Nodes, m # n, expirePeers(m) PROVE FALSE
        BY <2>1, <2>2, <2>4 DEF expirePeers
    <2>5. ASSUME NEW m \in Nodes, Stop(m) PROVE FALSE
        BY <2>1, <2>2, <2>5 DEF Stop
    <2>6. ASSUME NEW d \in net, processPendingDatagram(d) PROVE FALSE
        <3>1. d.to \in Nodes /\ p # n
            BY <2>1, <2>2 DEF Types, TypeOK, list_peers
        <3>2. CASE up[d.to]
            <4>1. peerTable' = [peerTable EXCEPT ![d.to] = Listed(d)]
                BY <2>6, <3>2 DEF processPendingDatagram
            <4>2. n = d.to
                BY <2>1, <2>2, <3>1, <4>1
            <4>3. DOMAIN peerTable'[n] = (DOMAIN peerTable[n] \cup {d.from}) \ {n}
                BY <2>2, <4>1, <4>2 DEF Listed
            <4> QED BY <2>1, <3>1, <4>3
        <3>3. CASE ~up[d.to]
            BY <2>1, <2>6, <3>3 DEF processPendingDatagram
        <3> QED BY <3>2, <3>3
    <2>7. ASSUME NEW d \in Int, WallClock(d) PROVE FALSE
        BY <2>1, <2>2, <2>7, ClockTypes
    <2>8. ASSUME NEW m \in Nodes, Start(m) PROVE FALSE
        BY <2>1, <2>8 DEF Start
    <2>9. ASSUME NEW m \in Nodes, sendAnnouncement(m) PROVE FALSE
        BY <2>1, <2>9 DEF sendAnnouncement
    <2>10. ASSUME NEW m \in Nodes, NEW i \in Intervals, setIntervalMs(m, i) PROVE FALSE
        BY <2>1, <2>10 DEF setIntervalMs
    <2>11. CASE Tick
        BY <2>7, <2>11 DEF Tick
    <2>12. ASSUME NEW j \in Jumps, SetClock(j) PROVE FALSE
        BY <2>7, <2>12, BoundsAssumption DEF SetClock
    <2> QED BY <2>3, <2>4, <2>5, <2>6, <2>8, <2>9, <2>10, <2>11, <2>12 DEF Next
<1> QED BY <1>1, QuietInit, QuietNext, PTL DEF Spec, NotDroppedEarly

-----------------------------------------------------------------------------
(***************************************************************************)
(* KnownInTime.  An entry need not be there yet, may be what a late        *)
(* announcement of a former process left, and must not expire before the   *)
(* next one of the present process comes.  So the invariant bounds, for a  *)
(* listener n and an announcer p, the silence so far and the time until    *)
(* the next announcement arrives, together, by the longest silence.        *)
(***************************************************************************)
Step == LongestInterval + MaxLag

\* The wait that r announcements not made, and the way of one, account for.
Slack(r) == r * Step + MaxDelay

Reserve(n, p) == (MaxMissed - missed[n][p]) + (MaxReloads - reloads)

DueIn(p) == IF hello[p] THEN MaxLag - upFor[p] ELSE announceTimer[p].left + MaxLag

Current(n, p) == p \in DOMAIN peerTable[n] /\ peerTable[n][p].run = run[p]

SilentAtMost(n, p, x) ==
    \/ Current(n, p) /\ quiet[n][p] <= x
    \/ ~Current(n, p) /\ (upFor[n] <= x \/ upFor[p] <= x + MaxDelay)

OnTheWay(n, p, x) ==
    \E d \in net : d.from = p /\ d.to = n /\ d.run = run[p] /\ d.left <= x

ComingWithin(n, p, x) == OnTheWay(n, p, x) \/ DueIn(p) + Slack(Reserve(n, p)) <= x

Coming(n, p) ==
    \E x \in 0 .. LongestSilence :
        SilentAtMost(n, p, LongestSilence - x) /\ ComingWithin(n, p, x)

ComingInv ==
    \A n \in Bound, p \in Announcers :
        n # p /\ up[n] /\ up[p] /\ jumped.ahead = 0 => Coming(n, p)

(***************************************************************************)
(* An announcer's timers are never later than the lag allows; datagrams of *)
(* a former process are gone MaxDelay after the present one started.       *)
(***************************************************************************)
AnnouncesOnTime ==
    \A p \in Nodes :
        /\ ~up[p] => upFor[p] = 0 /\ ~hello[p]
        /\ hello[p] => upFor[p] <= MaxLag
        /\ up[p] /\ p \in Announcers =>
              /\ announceTimer[p].every \in Intervals
              /\ announceTimer[p].left \in -MaxLag .. announceTimer[p].every

FormerFade == \A d \in net : d.run # run[d.from] => d.left + upFor[d.from] <= MaxDelay

LEMMA LongestIs ==
    /\ LongestInterval \in Nat
    /\ \A i \in Intervals : i <= LongestInterval /\ i \in Nat /\ i > MaxLag
    /\ MaxLag \in Nat /\ Step \in Nat
<1>1. LongestInterval \in Intervals /\ \A j \in Intervals : LongestInterval >= j
    BY LongestAssumption DEF LongestInterval
<1> QED BY <1>1, TimesAssumption DEF Step

LEMMA SlackIs ==
    /\ \A r \in Int : Slack(r) \in Int /\ Slack(r) = Slack(r - 1) + Step
    /\ \A r \in Nat : Slack(r) >= MaxDelay
    /\ \A r, q \in Int : r <= q => Slack(r) <= Slack(q)
    /\ LongestSilence = Step + Slack(MaxMissed + MaxReloads)
    /\ LongestSilence \in Nat /\ MaxDelay \in Nat /\ MaxDelay <= LongestSilence
<1>1. Step \in Nat /\ MaxDelay \in Nat /\ MaxMissed \in Nat /\ MaxReloads \in Nat
    BY LongestIs, BoundsAssumption
<1> HIDE DEF Step
<1>2. \A r \in Int : r * Step \in Int /\ r * Step = (r - 1) * Step + Step
    BY <1>1
<1>3. \A r \in Nat : r * Step >= 0
    BY <1>1
<1>4. \A r, q \in Int : r <= q => r * Step <= q * Step
    <2> SUFFICES ASSUME NEW r \in Int, NEW q \in Int, r <= q PROVE r * Step <= q * Step
        OBVIOUS
    <2>1. q - r \in Nat
        OBVIOUS
    <2>2. (q - r) * Step >= 0 /\ q * Step = r * Step + (q - r) * Step
        BY <1>1, <1>3, <2>1
    <2>3. r * Step \in Int /\ (q - r) * Step \in Int
        BY <1>1
    <2> QED BY <2>2, <2>3
<1>5. LongestSilence = (1 + (MaxMissed + MaxReloads)) * Step + MaxDelay
    <2>1. 1 + MaxMissed + MaxReloads = 1 + (MaxMissed + MaxReloads)
        BY <1>1
    <2> QED BY <2>1 DEF LongestSilence, Step
<1>6. (1 + (MaxMissed + MaxReloads)) * Step = Step + (MaxMissed + MaxReloads) * Step
    BY <1>1
<1>7. (MaxMissed + MaxReloads) * Step \in Nat
    BY <1>1
<1>8. LongestSilence = Step + Slack(MaxMissed + MaxReloads)
    BY <1>1, <1>5, <1>6, <1>7 DEF Slack
<1>9. LongestSilence \in Nat /\ MaxDelay <= LongestSilence
    BY <1>1, <1>7, <1>8 DEF Slack
<1>10. \A r \in Int : Slack(r) \in Int /\ Slack(r) = Slack(r - 1) + Step
    BY <1>1, <1>2 DEF Slack
<1>11. \A r \in Nat : Slack(r) >= MaxDelay
    BY <1>1, <1>3 DEF Slack
<1>12. \A r, q \in Int : r <= q => Slack(r) <= Slack(q)
    BY <1>1, <1>2, <1>4 DEF Slack
<1> QED BY <1>1, <1>8, <1>9, <1>10, <1>11, <1>12

(***************************************************************************)
(* What is known of one listener and one announcer.                        *)
(***************************************************************************)
PairTypes(n, p) ==
    /\ n \in Nodes /\ p \in Nodes /\ up[p]
    /\ quiet[n][p] \in Nat /\ upFor[n] \in Nat /\ upFor[p] \in Nat
    /\ missed[n][p] \in 0 .. MaxMissed /\ reloads \in 0 .. MaxReloads
    /\ Reserve(n, p) \in 0 .. MaxMissed + MaxReloads
    /\ DueIn(p) \in 0 .. Step
    /\ \A d \in net : d.left \in Nat

LEMMA PairIs ==
    ASSUME Types, AnnouncesOnTime, NEW n \in Nodes, NEW p \in Announcers, up[p]
    PROVE  PairTypes(n, p)
<1>1. /\ p \in Nodes
      /\ quiet[n][p] \in Nat /\ upFor[n] \in Nat /\ upFor[p] \in Nat
      /\ missed[n][p] \in 0 .. MaxMissed /\ reloads \in 0 .. MaxReloads
      /\ announceTimer[p].left \in Int
    BY NodesAssumption, BoundsAssumption DEF Types, TypeOK
<1>2. \A d \in net : d.left \in Nat
    BY BoundsAssumption DEF Types, TypeOK
<1>3. /\ hello[p] => upFor[p] <= MaxLag
      /\ announceTimer[p].every \in Intervals
      /\ announceTimer[p].left \in -MaxLag .. announceTimer[p].every
    BY <1>1 DEF AnnouncesOnTime
<1>4. DueIn(p) \in 0 .. Step
    BY <1>1, <1>3, LongestIs DEF DueIn, Step
<1>5. Reserve(n, p) \in 0 .. MaxMissed + MaxReloads
    BY <1>1, BoundsAssumption DEF Reserve
<1> QED BY <1>1, <1>2, <1>4, <1>5 DEF PairTypes

PairsTyped == \A n \in Nodes, p \in Announcers : up[p] => PairTypes(n, p)

LEMMA PairIsNext == Types' /\ AnnouncesOnTime' => PairsTyped'
<1>1. Types /\ AnnouncesOnTime => PairsTyped
    BY PairIs DEF PairsTyped
<1> QED BY <1>1, PTL

(***************************************************************************)
(* From a moment of no silence on, the next announcement comes in time.    *)
(***************************************************************************)
LEMMA HeardNow ==
    ASSUME NEW n, NEW p, PairTypes(n, p), SilentAtMost(n, p, 0)
    PROVE  Coming(n, p)
<1>1. DueIn(p) + Slack(Reserve(n, p)) <= LongestSilence
    <2>1. Slack(Reserve(n, p)) <= Slack(MaxMissed + MaxReloads) /\ Slack(Reserve(n, p)) \in Int
          /\ Slack(MaxMissed + MaxReloads) \in Int
        BY SlackIs, BoundsAssumption DEF PairTypes
    <2>2. DueIn(p) \in 0 .. Step /\ Step \in Nat
        BY LongestIs DEF PairTypes
    <2> HIDE DEF Slack, Step
    <2> QED BY <2>1, <2>2, SlackIs
<1>2. LongestSilence \in 0 .. LongestSilence /\ LongestSilence - LongestSilence = 0
    BY SlackIs
<1> QED BY <1>1, <1>2 DEF Coming, ComingWithin

HeardIsComing ==
    \A n, p \in Nodes : PairTypes(n, p) /\ SilentAtMost(n, p, 0) => Coming(n, p)

LEMMA HeardNowNext == HeardIsComing'
<1>1. HeardIsComing
    BY HeardNow DEF HeardIsComing
<1> QED BY <1>1, PTL

(***************************************************************************)
(* A step that changes nothing of a pair but brings the next announcement  *)
(* no further away.                                                        *)
(***************************************************************************)
SilenceFrame(n, p) ==
    /\ Current(n, p)' <=> Current(n, p)
    /\ quiet'[n][p] = quiet[n][p] /\ upFor'[n] = upFor[n] /\ upFor'[p] = upFor[p]

LEMMA StillComing ==
    ASSUME NEW n, NEW p, Coming(n, p), SilenceFrame(n, p),
           \A x \in 0 .. LongestSilence : ComingWithin(n, p, x) => ComingWithin(n, p, x)'
    PROVE  Coming(n, p)'
<1>1. PICK x \in 0 .. LongestSilence :
            SilentAtMost(n, p, LongestSilence - x) /\ ComingWithin(n, p, x)
    BY DEF Coming
<1>2. SilentAtMost(n, p, LongestSilence - x)'
    BY <1>1 DEF SilentAtMost, SilenceFrame
<1>3. ComingWithin(n, p, x)'
    BY <1>1
<1>4. (LongestSilence - x)' = LongestSilence - x /\ LongestSilence' = LongestSilence
    BY DEF LongestSilence, LongestInterval
<1> QED BY <1>1, <1>2, <1>3 DEF Coming

LEMMA SamePair ==
    ASSUME NEW n, NEW p, Coming(n, p), SilenceFrame(n, p), run'[p] = run[p],
           hello'[p] = hello[p], announceTimer'[p] = announceTimer[p],
           missed'[n][p] = missed[n][p], reloads' = reloads,
           \A d \in net : d.from = p /\ d.to = n => d \in net'
    PROVE  Coming(n, p)'
<1>1. \A x \in 0 .. LongestSilence : OnTheWay(n, p, x) => OnTheWay(n, p, x)'
    BY DEF OnTheWay
<1>2. Reserve(n, p)' = Reserve(n, p) /\ DueIn(p)' = DueIn(p)
    BY DEF Reserve, DueIn, SilenceFrame
<1>3. \A x \in 0 .. LongestSilence : ComingWithin(n, p, x) => ComingWithin(n, p, x)'
    BY <1>1, <1>2 DEF ComingWithin, Slack, Step
<1> QED BY <1>3, StillComing

LEMMA OnTimeInit == Init => AnnouncesOnTime /\ FormerFade
BY DEF Init, AnnouncesOnTime, FormerFade

LEMMA OnTimeNext ==
    Types /\ AnnouncesOnTime /\ MaxLag <= Horizon /\ [Next]_vars => AnnouncesOnTime'
<1> SUFFICES ASSUME Types, AnnouncesOnTime, MaxLag <= Horizon, [Next]_vars,
                    NEW p \in Nodes
             PROVE  /\ ~up'[p] => upFor'[p] = 0 /\ ~hello'[p]
                    /\ hello'[p] => upFor'[p] <= MaxLag
                    /\ up'[p] /\ p \in Announcers =>
                          /\ announceTimer'[p].every \in Intervals
                          /\ announceTimer'[p].left \in -MaxLag .. announceTimer'[p].every
    BY DEF AnnouncesOnTime
<1> USE DEF procVars, timers, history
<1>1. /\ up \in [Nodes -> BOOLEAN] /\ hello \in [Nodes -> BOOLEAN]
      /\ announceTimer \in [Nodes -> [every: Nat, left: Int]]
      /\ upFor \in [Nodes -> 0 .. Horizon] /\ MaxLag \in Nat /\ Horizon \in Nat
    BY TimesAssumption, BoundsAssumption DEF Types, TypeOK
<1>2. /\ ~up[p] => upFor[p] = 0 /\ ~hello[p]
      /\ hello[p] => upFor[p] <= MaxLag
      /\ up[p] /\ p \in Announcers =>
            /\ announceTimer[p].every \in Intervals
            /\ announceTimer[p].left \in -MaxLag .. announceTimer[p].every
    BY DEF AnnouncesOnTime
<1>3. \A i \in Intervals : i \in Nat /\ i > MaxLag
    BY TimesAssumption
<1>4. ASSUME NEW n \in Nodes, Start(n)
      PROVE  /\ up' = [up EXCEPT ![n] = TRUE] /\ upFor' = [upFor EXCEPT ![n] = 0]
             /\ hello' = [hello EXCEPT ![n] = n \in Announcers]
             /\ \E i \in Intervals : announceTimer' = [announceTimer EXCEPT ![n] =
                    IF n \in Announcers THEN [every |-> i, left |-> i] ELSE Stopped]
    BY <1>4 DEF Start
<1>5. CASE \E n \in Nodes : Start(n)
    <2>1. PICK n \in Nodes : Start(n)
        BY <1>5
    <2>2. CASE n = p
        BY <1>1, <1>3, <1>4, <2>1, <2>2
    <2>3. CASE n # p
        BY <1>1, <1>2, <1>4, <2>1, <2>3
    <2> QED BY <2>2, <2>3
<1>6. CASE \E n \in Nodes : Stop(n)
    BY <1>1, <1>2, <1>6 DEF Stop
<1>7. CASE \E n \in Nodes : \E i \in Intervals : setIntervalMs(n, i)
    BY <1>1, <1>2, <1>3, <1>7 DEF setIntervalMs
<1>8. CASE \E n \in Nodes : sendAnnouncement(n)
    <2>1. PICK n \in Nodes : sendAnnouncement(n)
        BY <1>8
    <2>2. up'[p] = up[p] /\ upFor'[p] = upFor[p] /\ (hello'[p] => hello[p])
        BY <1>1, <2>1 DEF sendAnnouncement
    <2>3. /\ ~up'[p] => upFor'[p] = 0 /\ ~hello'[p]
          /\ hello'[p] => upFor'[p] <= MaxLag
        BY <1>2, <2>2
    <2>4. \/ announceTimer'[p] = announceTimer[p]
          \/ announceTimer[p].left <= 0 /\ announceTimer'[p] \in Rearmed(announceTimer[p])
        BY <1>1, <2>1 DEF sendAnnouncement
    <2>5. announceTimer[p] \in [every: Nat, left: Int]
        BY <1>1
    <2>6. CASE announceTimer[p].left <= 0 /\ announceTimer'[p] \in Rearmed(announceTimer[p])
        <3>1. /\ announceTimer'[p] \in [every: Nat, left: Int]
              /\ announceTimer'[p].every = announceTimer[p].every
              /\ announceTimer'[p].left <= announceTimer[p].every
              /\ announceTimer'[p].left >= announceTimer[p].left + announceTimer[p].every
            BY <2>5, <2>6, RearmedTypes
        <3>2. up[p] /\ p \in Announcers =>
                /\ announceTimer'[p].every \in Intervals
                /\ announceTimer'[p].left \in -MaxLag .. announceTimer'[p].every
            BY <1>1, <1>2, <1>3, <2>5, <3>1
        <3> QED BY <2>2, <2>3, <3>2
    <2>7. CASE announceTimer'[p] = announceTimer[p]
        BY <1>2, <2>2, <2>7, <2>3
    <2> QED BY <2>4, <2>6, <2>7
<1>9. CASE \E d \in net : processPendingDatagram(d)
    BY <1>2, <1>9 DEF processPendingDatagram
<1>10. CASE \E n \in Nodes : expirePeers(n)
    BY <1>2, <1>10 DEF expirePeers
<1>11. CASE Tick
    <2>1. /\ announceTimer' = CountDown(announceTimer) /\ up' = up /\ hello' = hello
          /\ upFor' = [n \in Nodes |->
                 IF up[n] /\ upFor[n] < Horizon THEN upFor[n] + 1 ELSE upFor[n]]
          /\ up[p] => ~Overdue(p)
        BY <1>11 DEF Tick
    <2>2. CASE ~up[p]
        BY <1>2, <2>1, <2>2
    <2>3. CASE up[p]
        <3>1. hello[p] => upFor[p] < MaxLag
            BY <1>1, <2>1, <2>3 DEF Overdue
        <3>2. upFor'[p] <= upFor[p] + 1
            BY <1>1, <2>1
        <3>3. announceTimer[p].every > 0 =>
                announceTimer'[p] = [announceTimer[p] EXCEPT !.left = @ - 1]
            BY <2>1 DEF CountDown, isActive
        <3>4. up[p] /\ p \in Announcers => announceTimer[p].every > 0
            BY <1>1, <1>2, <1>3
        <3>5. p \in Announcers => announceTimer[p].left > -MaxLag
            BY <1>1, <2>1, <2>3, <3>4 DEF Overdue, isActive
        <3>6. announceTimer[p] \in [every: Nat, left: Int]
            BY <1>1
        <3>7. up[p] /\ p \in Announcers =>
                /\ announceTimer'[p].every = announceTimer[p].every
                /\ announceTimer'[p].left = announceTimer[p].left - 1
            BY <3>3, <3>4, <3>6
        <3>8. hello'[p] => upFor'[p] <= MaxLag
            BY <1>1, <2>1, <3>1
        <3>9. up[p] /\ p \in Announcers =>
                announceTimer[p].left - 1 \in -MaxLag .. announceTimer[p].every
            BY <1>1, <1>2, <3>5, <3>6
        <3> QED BY <1>2, <2>1, <2>3, <3>7, <3>8, <3>9
    <2> QED BY <2>2, <2>3
<1>12. CASE \E j \in Jumps : SetClock(j)
    BY <1>2, <1>12 DEF SetClock
<1>13. CASE UNCHANGED vars
    BY <1>2, <1>13 DEF vars
<1> QED BY <1>5, <1>6, <1>7, <1>8, <1>9, <1>10, <1>11, <1>12, <1>13 DEF Next

LEMMA FadeNext == Types /\ AnnouncesOnTime /\ FormerFade /\ [Next]_vars => FormerFade'
<1> SUFFICES ASSUME Types, AnnouncesOnTime, FormerFade, [Next]_vars PROVE FormerFade'
    OBVIOUS
<1> USE DEF procVars, timers, history
<1>1. /\ run \in [Nodes -> 0 .. MaxRuns] /\ upFor \in [Nodes -> 0 .. Horizon]
      /\ MaxDelay \in Nat /\ Horizon \in Nat
      /\ \A d \in net : d.from \in Nodes /\ d.left \in 0 .. MaxDelay
    BY NodesAssumption, BoundsAssumption DEF Types, TypeOK
<1>2. ASSUME NEW n \in Nodes, Start(n) PROVE FormerFade'
    <2>1. /\ net' = net /\ upFor' = [upFor EXCEPT ![n] = 0]
          /\ run' = [run EXCEPT ![n] = @ + 1]
        BY <1>2 DEF Start
    <2> SUFFICES ASSUME NEW d \in net, d.run # run'[d.from]
                 PROVE  d.left + upFor'[d.from] <= MaxDelay
        BY <2>1 DEF FormerFade
    <2>2. CASE d.from = n
        BY <1>1, <2>1, <2>2
    <2>3. CASE d.from # n
        BY <1>1, <2>1, <2>3 DEF FormerFade
    <2> QED BY <2>2, <2>3
<1>3. ASSUME NEW n \in Nodes, Stop(n) PROVE FormerFade'
    <2>1. net' = net /\ run' = run /\ upFor' = [upFor EXCEPT ![n] = 0]
        BY <1>3 DEF Stop
    <2> QED BY <1>1, <2>1 DEF FormerFade
<1>4. ASSUME NEW n \in Nodes, sendAnnouncement(n) PROVE FormerFade'
    <2>1. /\ \A d \in net' : d \in net \/ d.run = run[d.from]
          /\ run' = run /\ upFor' = upFor
        BY <1>4 DEF sendAnnouncement, Announce, Announcement
    <2> QED BY <2>1 DEF FormerFade
<1>5. CASE Tick
    <2>1. /\ net' = {[d EXCEPT !.left = @ - 1] : d \in net} /\ run' = run
          /\ upFor' = [n \in Nodes |->
                 IF up[n] /\ upFor[n] < Horizon THEN upFor[n] + 1 ELSE upFor[n]]
        BY <1>5 DEF Tick
    <2> SUFFICES ASSUME NEW e \in net', e.run # run[e.from]
                 PROVE  e.left + upFor'[e.from] <= MaxDelay
        BY <2>1 DEF FormerFade
    <2>2. PICK d \in net : e = [d EXCEPT !.left = @ - 1]
        BY <2>1
    <2>3. d \in [from: Announcers, to: Nodes, run: Nat, left: 0 .. MaxDelay]
        BY DEF Types, TypeOK
    <2>4. e.from = d.from /\ e.run = d.run /\ e.left = d.left - 1
        BY <2>2, <2>3
    <2>5. d.left + upFor[d.from] <= MaxDelay
        BY <2>4 DEF FormerFade
    <2>6. upFor'[d.from] \in {upFor[d.from], upFor[d.from] + 1} /\ upFor[d.from] \in Nat
        BY <1>1, <2>1
    <2> QED BY <1>1, <2>3, <2>4, <2>5, <2>6
<1>6. ASSUME NEW d \in net, processPendingDatagram(d) PROVE FormerFade'
    BY <1>6 DEF processPendingDatagram, FormerFade
<1>7. ASSUME UNCHANGED <<net, run, upFor>> PROVE FormerFade'
    BY <1>7 DEF FormerFade
<1>8. ASSUME NEW n \in Nodes, expirePeers(n) \/ \E i \in Intervals : setIntervalMs(n, i)
      PROVE  FormerFade'
    BY <1>7, <1>8 DEF expirePeers, setIntervalMs
<1>9. ASSUME (\E j \in Jumps : SetClock(j)) \/ UNCHANGED vars PROVE FormerFade'
    BY <1>7, <1>9 DEF SetClock, vars
<1> QED BY <1>2, <1>3, <1>4, <1>5, <1>6, <1>8, <1>9 DEF Next

(***************************************************************************)
(* An announcement, heard or missed, leaves the next one no further away:  *)
(* one that is missed is paid for from the reserve.                        *)
(***************************************************************************)
LEMMA AnnouncementKeeps ==
    ASSUME Types, AnnouncesOnTime, AnnouncesOnTime', Types',
           NEW n \in Bound, NEW p \in Announcers, n # p, up[n], up[p], Coming(n, p),
           NEW m \in Nodes, sendAnnouncement(m)
    PROVE  Coming(n, p)'
<1> USE DEF procVars, timers, history
<1>1. n \in Nodes /\ p \in Nodes
    BY NodesAssumption
<1>2. PICK heard \in SUBSET Bound :
        /\ net' = net \cup {Announcement(m, r) : r \in heard}
        /\ missed' = [q \in Nodes |-> [missed[q] EXCEPT ![m] =
                IF q \in heard \/ ~up[q] \/ q \notin Bound \/ q = m THEN 0 ELSE @ + 1]]
    BY DEF sendAnnouncement, Announce
<1>3. /\ peerTable' = peerTable /\ quiet' = quiet /\ upFor' = upFor /\ run' = run
      /\ reloads' = reloads /\ up' = up
    BY DEF sendAnnouncement
<1>4. SilenceFrame(n, p)
    BY <1>3 DEF SilenceFrame, Current
<1>5. missed \in [Nodes -> [Nodes -> 0 .. MaxMissed]]
    BY DEF Types, TypeOK
<1>6. CASE m # p
    <2>1. missed'[n][p] = missed[n][p]
        BY <1>1, <1>2, <1>5, <1>6
    <2>2. hello'[p] = hello[p] /\ announceTimer'[p] = announceTimer[p]
        BY <1>1, <1>6 DEF sendAnnouncement, Types, TypeOK
    <2>3. \A d \in net : d \in net'
        BY <1>2
    <2> QED BY <1>3, <1>4, <2>1, <2>2, <2>3, SamePair
<1>7. CASE m = p
    <2>1. PairTypes(n, p) /\ PairTypes(n, p)'
        BY <1>1, <1>3, PairIs, PairIsNext DEF PairsTyped
    <2>2. DueIn(p) \in 0 .. Step /\ DueIn(p)' \in 0 .. Step
        BY <2>1 DEF PairTypes, Step, LongestInterval
    <2>3. Reserve(n, p) \in Nat /\ Reserve(n, p)' \in Nat
        BY <2>1, BoundsAssumption DEF PairTypes
    <2>4. Slack(Reserve(n, p)) \in Int /\ Slack(Reserve(n, p)) >= MaxDelay /\ MaxDelay \in Nat
        BY <2>3, SlackIs
    <2>5. CASE n \in heard
        <3>1. Announcement(p, n) \in net'
            BY <1>2, <1>7, <2>5
        <3>2. \A x \in 0 .. LongestSilence : MaxDelay <= x => OnTheWay(n, p, x)'
            BY <1>3, <3>1 DEF OnTheWay, Announcement
        <3>3. \A x \in 0 .. LongestSilence : OnTheWay(n, p, x) => OnTheWay(n, p, x)'
            BY <1>2, <1>3 DEF OnTheWay
        <3>4. \A x \in 0 .. LongestSilence :
                    DueIn(p) + Slack(Reserve(n, p)) <= x => MaxDelay <= x
            <4> HIDE DEF Slack, Step
            <4> QED BY <2>2, <2>4, SlackIs, LongestIs
        <3>5. \A x \in 0 .. LongestSilence : ComingWithin(n, p, x) => ComingWithin(n, p, x)'
            BY <3>2, <3>3, <3>4 DEF ComingWithin
        <3> QED BY <1>4, <3>5, StillComing
    <2>6. CASE n \notin heard
        <3>1. missed'[n][p] = missed[n][p] + 1
            BY <1>1, <1>2, <1>5, <1>7, <2>6
        <3>2. Reserve(n, p)' = Reserve(n, p) - 1
            BY <1>3, <2>1, <3>1, BoundsAssumption DEF Reserve, PairTypes
        <3>3. Slack(Reserve(n, p)) = Slack(Reserve(n, p)') + Step /\ Slack(Reserve(n, p)') \in Int
            BY <2>3, <3>2, SlackIs
        <3>4. DueIn(p)' + Slack(Reserve(n, p)') <= DueIn(p) + Slack(Reserve(n, p))
            <4> HIDE DEF Slack, Step
            <4> QED BY <2>2, <3>3, LongestIs
        <3>5. Slack(Reserve(n, p))' = Slack(Reserve(n, p)')
            BY DEF Slack, Step, LongestInterval
        <3>6. \A x \in 0 .. LongestSilence : OnTheWay(n, p, x) => OnTheWay(n, p, x)'
            BY <1>2, <1>3 DEF OnTheWay
        <3>7. \A x \in 0 .. LongestSilence :
                DueIn(p) + Slack(Reserve(n, p)) <= x => DueIn(p)' + Slack(Reserve(n, p)') <= x
            <4> HIDE DEF Slack, Step
            <4> QED BY <2>2, <2>4, <3>3, <3>4, SlackIs, LongestIs
        <3>8. \A x \in 0 .. LongestSilence : ComingWithin(n, p, x) => ComingWithin(n, p, x)'
            BY <3>5, <3>6, <3>7 DEF ComingWithin
        <3> QED BY <1>4, <3>8, StillComing
    <2> QED BY <2>5, <2>6
<1> QED BY <1>6, <1>7

(***************************************************************************)
(* A reload starts the announcer's timer afresh, and costs the reserve one *)
(* interval.                                                               *)
(***************************************************************************)
LEMMA ReloadKeeps ==
    ASSUME Types, AnnouncesOnTime, AnnouncesOnTime', Types',
           NEW n \in Bound, NEW p \in Announcers, n # p, up[n], up[p], Coming(n, p),
           NEW m \in Nodes, NEW i \in Intervals, setIntervalMs(m, i)
    PROVE  Coming(n, p)'
<1> USE DEF procVars, timers, history
<1>1. n \in Nodes /\ p \in Nodes
    BY NodesAssumption
<1>2. /\ peerTable' = peerTable /\ quiet' = quiet /\ upFor' = upFor /\ run' = run
      /\ reloads' = reloads + 1 /\ missed' = missed /\ net' = net /\ up' = up
    BY DEF setIntervalMs
<1>3. SilenceFrame(n, p)
    BY <1>2 DEF SilenceFrame, Current
<1>4. PairTypes(n, p) /\ PairTypes(n, p)'
    BY <1>1, <1>2, PairIs, PairIsNext DEF PairsTyped
<1>5. DueIn(p) \in 0 .. Step /\ DueIn(p)' \in 0 .. Step
    BY <1>4 DEF PairTypes, Step, LongestInterval
<1>6. Reserve(n, p)' = Reserve(n, p) - 1 /\ Reserve(n, p) \in Int
    BY <1>2, <1>4, BoundsAssumption DEF Reserve, PairTypes
<1>7. /\ Slack(Reserve(n, p)) = Slack(Reserve(n, p)') + Step
      /\ Slack(Reserve(n, p)') \in Int /\ Slack(Reserve(n, p)) \in Int
    BY <1>6, SlackIs
<1>8. \A x \in 0 .. LongestSilence :
        DueIn(p) + Slack(Reserve(n, p)) <= x => DueIn(p)' + Slack(Reserve(n, p)') <= x
    <2> HIDE DEF Slack, Step
    <2> QED BY <1>5, <1>7, SlackIs, LongestIs
<1>9. Slack(Reserve(n, p))' = Slack(Reserve(n, p)')
    BY DEF Slack, Step, LongestInterval
<1>10. \A x \in 0 .. LongestSilence : ComingWithin(n, p, x) => ComingWithin(n, p, x)'
    BY <1>2, <1>8, <1>9 DEF ComingWithin, OnTheWay
<1> QED BY <1>3, <1>10, StillComing

(***************************************************************************)
(* Time that passes takes as much from the wait as it adds to the silence. *)
(***************************************************************************)
LEMMA TickComing ==
    ASSUME Types, AnnouncesOnTime, AnnouncesOnTime', Types', MaxLag <= Horizon,
           NEW n \in Bound, NEW p \in Announcers, n # p, up[n], up[p], Coming(n, p), Tick
    PROVE  Coming(n, p)'
<1> USE DEF procVars, timers, history
<1>1. n \in Nodes /\ p \in Nodes
    BY NodesAssumption
<1>2. /\ up' = up /\ hello' = hello /\ run' = run /\ missed' = missed /\ reloads' = reloads
      /\ announceTimer' = CountDown(announceTimer)
      /\ net' = {[d EXCEPT !.left = @ - 1] : d \in net} /\ \A d \in net : d.left > 0
      /\ upFor' = [q \in Nodes |->
             IF up[q] /\ upFor[q] < Horizon THEN upFor[q] + 1 ELSE upFor[q]]
      /\ quiet' = [q \in Nodes |-> [r \in Nodes |->
             IF r \in list_peers(q) THEN quiet[q][r] + 1 ELSE 0]]
      /\ ~Overdue(p) /\ WallClock(1)
    BY <1>1 DEF Tick
<1>3. PairTypes(n, p) /\ PairTypes(n, p)'
    BY <1>1, <1>2, PairIs, PairIsNext DEF PairsTyped
<1>4. Current(n, p)' <=> Current(n, p)
    BY <1>1, <1>2 DEF WallClock, Current, Types, TypeOK
<1>5. Current(n, p) => quiet'[n][p] = quiet[n][p] + 1
    BY <1>1, <1>2 DEF Current, list_peers
<1>6. upFor'[n] <= upFor[n] + 1 /\ upFor'[p] <= upFor[p] + 1
    BY <1>1, <1>2, <1>3 DEF PairTypes
<1>7. DueIn(p)' = DueIn(p) - 1 /\ DueIn(p) > 0
    <2>1. announceTimer[p] \in [every: Nat, left: Int] /\ announceTimer[p].every > 0
        BY <1>1, TimesAssumption DEF AnnouncesOnTime, Types, TypeOK
    <2>2. announceTimer'[p].left = announceTimer[p].left - 1
        BY <1>1, <1>2, <2>1 DEF CountDown, isActive
    <2>3. announceTimer[p].left > -MaxLag /\ (hello[p] => upFor[p] < MaxLag)
        BY <1>1, <1>2, <1>3, <2>1, TimesAssumption DEF Overdue, isActive, PairTypes
    <2>4. hello[p] => upFor'[p] = upFor[p] + 1
        BY <1>1, <1>2, <1>3, <2>3, TimesAssumption, BoundsAssumption DEF PairTypes
    <2>5. CASE hello[p]
        BY <1>2, <1>3, <2>3, <2>4, <2>5, TimesAssumption DEF DueIn, PairTypes
    <2>6. CASE ~hello[p]
        BY <1>2, <2>1, <2>2, <2>3, <2>6, TimesAssumption DEF DueIn
    <2> QED BY <2>5, <2>6
<1>8. Slack(Reserve(n, p))' = Slack(Reserve(n, p))
    BY <1>2 DEF Slack, Step, LongestInterval, Reserve
<1>9. Slack(Reserve(n, p)) \in Int /\ Slack(Reserve(n, p)) >= 0
    BY <1>3, SlackIs, BoundsAssumption DEF PairTypes
<1>10. PICK x \in 0 .. LongestSilence :
            SilentAtMost(n, p, LongestSilence - x) /\ ComingWithin(n, p, x)
    BY DEF Coming
<1>11. x > 0 /\ x - 1 \in 0 .. LongestSilence /\ LongestSilence \in Nat
    <2>1. OnTheWay(n, p, x) => x > 0
        BY <1>2, <1>3 DEF OnTheWay, PairTypes
    <2>2. DueIn(p) \in Int
        BY <1>3, LongestIs DEF PairTypes
    <2>3. DueIn(p) + Slack(Reserve(n, p)) <= x => x > 0
        BY <1>7, <1>9, <2>2
    <2> QED BY <1>10, <2>1, <2>3, SlackIs DEF ComingWithin
<1>12. OnTheWay(n, p, x) => OnTheWay(n, p, x - 1)'
    <2> SUFFICES ASSUME NEW d \in net, d.from = p, d.to = n, d.run = run[p], d.left <= x
                 PROVE  OnTheWay(n, p, x - 1)'
        BY DEF OnTheWay
    <2> DEFINE e == [d EXCEPT !.left = @ - 1]
    <2>1. d \in [from: Announcers, to: Nodes, run: Nat, left: 0 .. MaxDelay]
        BY DEF Types, TypeOK
    <2>2. e.from = p /\ e.to = n /\ e.run = run[p] /\ e.left = d.left - 1
        BY <2>1
    <2>3. e \in net'
        BY <1>2
    <2>4. e.left <= x - 1
        BY <2>1, <2>2, <1>11, BoundsAssumption
    <2> HIDE DEF e
    <2> QED BY <1>2, <2>2, <2>3, <2>4 DEF OnTheWay
<1>13. DueIn(p) + Slack(Reserve(n, p)) <= x =>
            DueIn(p)' + Slack(Reserve(n, p))' <= x - 1
    <2>1. DueIn(p) \in Int
        BY <1>3, LongestIs DEF PairTypes
    <2> HIDE DEF Slack
    <2> QED BY <1>7, <1>8, <1>9, <1>11, <2>1
<1>14. ComingWithin(n, p, x - 1)'
    BY <1>10, <1>12, <1>13 DEF ComingWithin
<1>15. SilentAtMost(n, p, LongestSilence - (x - 1))'
    <2> DEFINE y == LongestSilence - x
               z == LongestSilence - (x - 1)
    <2>1. y \in Nat /\ z = y + 1
        BY <1>11
    <2>2. /\ quiet[n][p] \in Nat /\ quiet'[n][p] \in Nat /\ upFor[n] \in Nat /\ upFor'[n] \in Nat
          /\ upFor[p] \in Nat /\ upFor'[p] \in Nat /\ MaxDelay \in Nat
        BY <1>3, BoundsAssumption DEF PairTypes
    <2> HIDE DEF y, z
    <2>3. SilentAtMost(n, p, y)
        BY <1>10 DEF y
    <2>4. SilentAtMost(n, p, z)'
        <3>1. z' = z
            BY DEF z, LongestSilence, LongestInterval
        <3>2. CASE Current(n, p)
            BY <1>4, <1>5, <2>1, <2>2, <2>3, <3>1, <3>2 DEF SilentAtMost
        <3>3. CASE ~Current(n, p)
            BY <1>4, <1>6, <2>1, <2>2, <2>3, <3>1, <3>3 DEF SilentAtMost
        <3> QED BY <3>2, <3>3
    <2> QED BY <2>4 DEF z
<1> QED BY <1>11, <1>14, <1>15 DEF Coming, LongestSilence, LongestInterval

(***************************************************************************)
(* A sweep does not drop an entry that is current: its age is above the    *)
(* expiry only if the peer was silent for longer than it may be.           *)
(***************************************************************************)
LEMMA SweepSpares ==
    ASSUME QuietInv, LongestSilence <= Expiry * Sec, jumped.ahead = 0,
           NEW n \in Nodes, NEW p \in Nodes, Coming(n, p), Current(n, p)
    PROVE  p \notin Expired(n)
<1>1. Types /\ p \in DOMAIN peerTable[n]
    BY DEF QuietInv, Current
<1>2. PICK x \in 0 .. LongestSilence : SilentAtMost(n, p, LongestSilence - x)
    BY DEF Coming
<1>3. quiet[n][p] \in Nat /\ Read(n, p) \in Int /\ Sec \in Nat /\ Expiry \in Nat
    BY <1>1, EntryTypes
<1>4. quiet[n][p] <= LongestSilence /\ LongestSilence \in Nat
    <2>1. LongestSilence \in Nat
        BY SlackIs
    <2> QED BY <1>2, <1>3, <2>1 DEF SilentAtMost
<1>5. Read(n, p) <= quiet[n][p] + Sec - 1
    BY <1>1, <1>3 DEF QuietInv, AgesRight
<1>6. (Expiry + 1) * Sec = Expiry * Sec + Sec /\ Expiry * Sec \in Nat
    BY <1>3
<1>7. ASSUME p \in Expired(n) PROVE FALSE
    <2>1. Read(n, p) >= (Expiry + 1) * Sec
        BY <1>1, <1>7, ReadOfExpired
    <2> QED BY <1>3, <1>4, <1>5, <1>6, <2>1
<1> QED BY <1>7

LEMMA SweepComing ==
    ASSUME QuietInv, LongestSilence <= Expiry * Sec, jumped.ahead = 0,
           NEW n \in Bound, NEW p \in Announcers, n # p, up[n], up[p], Coming(n, p),
           NEW m \in Nodes, expirePeers(m)
    PROVE  Coming(n, p)'
<1> USE DEF procVars, timers, history
<1>1. n \in Nodes /\ p \in Nodes /\ Types
    BY NodesAssumption DEF QuietInv
<1>2. /\ DOMAIN peerTable = Nodes /\ quiet \in [Nodes -> [Nodes -> Nat]]
      /\ peerTable' = [peerTable EXCEPT ![m] = [q \in DOMAIN peerTable[m] \ Expired(m) |->
                          peerTable[m][q]]]
      /\ quiet' = [quiet EXCEPT ![m] = [q \in Nodes |->
                      IF q \in Expired(m) THEN 0 ELSE quiet[m][q]]]
      /\ UNCHANGED <<up, run, hello, announceTimer, net, missed, upFor, reloads>>
    BY <1>1 DEF expirePeers, Types, TypeOK
<1>3. CASE m # n
    <2>1. SilenceFrame(n, p)
        BY <1>1, <1>2, <1>3 DEF SilenceFrame, Current
    <2> QED BY <1>2, <2>1, SamePair
<1>4. CASE m = n /\ Current(n, p)
    <2>1. p \notin Expired(n)
        BY <1>1, <1>4, SweepSpares
    <2>2. SilenceFrame(n, p)
        BY <1>1, <1>2, <1>4, <2>1 DEF SilenceFrame, Current
    <2> QED BY <1>2, <2>2, SamePair
<1>5. CASE m = n /\ ~Current(n, p)
    <2>1. ~Current(n, p)'
        BY <1>1, <1>2, <1>5 DEF Current
    <2>2. PICK x \in 0 .. LongestSilence :
                SilentAtMost(n, p, LongestSilence - x) /\ ComingWithin(n, p, x)
        BY DEF Coming
    <2>3. SilentAtMost(n, p, LongestSilence - x)'
        BY <1>2, <1>5, <2>1, <2>2 DEF SilentAtMost, LongestSilence, LongestInterval
    <2>4. ComingWithin(n, p, x)'
        BY <1>2, <2>2 DEF ComingWithin, OnTheWay, Reserve, DueIn, Slack, Step, LongestInterval
    <2> QED BY <2>2, <2>3, <2>4 DEF Coming, LongestSilence, LongestInterval
<1> QED BY <1>3, <1>4, <1>5

(***************************************************************************)
(* An announcement that arrives ends the silence, or is of a former        *)
(* process and comes so early that the present one cannot be late.         *)
(***************************************************************************)
LEMMA ArrivalComing ==
    ASSUME Types, Types', AnnouncesOnTime, AnnouncesOnTime', FormerFade,
           NEW n \in Bound, NEW p \in Announcers, n # p, up[n], up[p], Coming(n, p),
           NEW d \in net, processPendingDatagram(d)
    PROVE  Coming(n, p)'
<1> USE DEF procVars, timers, history
<1>1. /\ n \in Nodes /\ p \in Nodes /\ d.to \in Nodes /\ d.from \in Nodes
      /\ DOMAIN peerTable = Nodes /\ quiet \in [Nodes -> [Nodes -> Nat]]
    BY NodesAssumption DEF Types, TypeOK
<1>2. /\ UNCHANGED <<up, run, hello, announceTimer, missed, upFor, reloads>>
      /\ net' = net \ {d}
      /\ up[d.to] => /\ peerTable' = [peerTable EXCEPT ![d.to] = Listed(d)]
                     /\ quiet' = [quiet EXCEPT ![d.to] = [quiet[d.to] EXCEPT ![d.from] = 0]]
      /\ ~up[d.to] => UNCHANGED <<peerTable, quiet>>
    BY DEF processPendingDatagram
<1>3. PairTypes(n, p) /\ PairTypes(n, p)'
    BY <1>1, <1>2, PairIs, PairIsNext DEF PairsTyped
<1>4. CASE d.from = p /\ d.to = n
    <2>1. p \in DOMAIN peerTable'[n] /\ peerTable'[n][p].run = d.run /\ quiet'[n][p] = 0
        BY <1>1, <1>2, <1>4 DEF Listed
    <2>2. CASE d.run = run[p]
        BY <1>1, <1>2, <1>3, <2>1, <2>2, HeardNowNext DEF HeardIsComing, SilentAtMost, Current
    <2>3. CASE d.run # run[p]
        <3>1. d.left + upFor[p] <= MaxDelay /\ d.left \in Nat /\ upFor[p] \in Nat
            BY <1>3, <1>4, <2>3 DEF FormerFade, PairTypes
        <3>2. upFor'[p] <= 0 + MaxDelay
            BY <1>2, <3>1, BoundsAssumption
        <3>3. ~Current(n, p)'
            BY <1>2, <2>1, <2>3 DEF Current
        <3> QED BY <1>1, <1>3, <3>2, <3>3, HeardNowNext DEF HeardIsComing, SilentAtMost
    <2> QED BY <2>2, <2>3
<1>5. CASE ~(d.from = p /\ d.to = n)
    <2>1. SilenceFrame(n, p)
        <3>1. CASE d.to # n \/ ~up[d.to]
            BY <1>1, <1>2, <3>1 DEF SilenceFrame, Current
        <3>2. CASE d.to = n /\ up[d.to]
            <4>1. peerTable'[n] = Listed(d) /\ quiet'[n] = [quiet[n] EXCEPT ![d.from] = 0]
                BY <1>1, <1>2, <3>2
            <4>2. /\ p \in DOMAIN peerTable'[n] <=> p \in DOMAIN peerTable[n]
                  /\ p \in DOMAIN peerTable[n] => peerTable'[n][p] = peerTable[n][p]
                  /\ quiet'[n][p] = quiet[n][p]
                BY <1>1, <1>5, <3>2, <4>1 DEF Listed
            <4> QED BY <1>2, <4>2 DEF SilenceFrame, Current
        <3> QED BY <3>1, <3>2
    <2>2. \A e \in net : e.from = p /\ e.to = n => e \in net'
        BY <1>2, <1>5
    <2> QED BY <1>2, <2>1, <2>2, SamePair
<1> QED BY <1>4, <1>5

(***************************************************************************)
(* A process that starts has kept nobody waiting yet.                      *)
(***************************************************************************)
LEMMA StartComing ==
    ASSUME Types, Types', AnnouncesOnTime, AnnouncesOnTime',
           NEW n \in Bound, NEW p \in Announcers, n # p, up'[n], up'[p],
           up[n] /\ up[p] => Coming(n, p), NEW m \in Nodes, Start(m)
    PROVE  Coming(n, p)'
<1> USE DEF procVars, timers, history
<1>1. /\ n \in Nodes /\ p \in Nodes /\ ~up[m] /\ run[m] \in 0 .. MaxRuns
      /\ up \in [Nodes -> BOOLEAN] /\ run \in [Nodes -> 0 .. MaxRuns]
    BY NodesAssumption DEF Types, TypeOK, Start
<1>2. /\ up' = [up EXCEPT ![m] = TRUE] /\ run' = [run EXCEPT ![m] = @ + 1]
      /\ upFor' = [upFor EXCEPT ![m] = 0]
      /\ UNCHANGED <<peerTable, quiet, net, reloads>>
    BY DEF Start
<1>3. CASE m \notin {n, p}
    <2>1. up[n] /\ up[p] /\ run'[p] = run[p]
        BY <1>1, <1>2, <1>3
    <2>2. SilenceFrame(n, p)
        BY <1>1, <1>2, <1>3, <2>1 DEF SilenceFrame, Current, Types, TypeOK
    <2>3. hello'[p] = hello[p] /\ announceTimer'[p] = announceTimer[p]
          /\ missed'[n][p] = missed[n][p]
        BY <1>1, <1>3 DEF Start, Types, TypeOK
    <2> QED BY <1>2, <2>1, <2>2, <2>3, SamePair
<1>4. CASE m \in {n, p}
    <2>1. PairTypes(n, p)'
        BY <1>1, PairIsNext DEF PairsTyped
    <2>2. ~Current(n, p)'
        <3>1. CASE m = n
            <4>1. DOMAIN peerTable[n] = {}
                BY <1>1, <3>1 DEF Types, TypeOK, list_peers
            <4> QED BY <1>2, <4>1 DEF Current
        <3>2. CASE m = p
            <4>1. p \in DOMAIN peerTable[n] => peerTable[n][p].run \in 1 .. run[p]
                BY <1>1 DEF Types, TypeOK, list_peers
            <4>2. run'[p] = run[p] + 1
                BY <1>1, <1>2, <3>2
            <4> QED BY <1>1, <1>2, <3>2, <4>1, <4>2 DEF Current
        <3> QED BY <1>4, <3>1, <3>2
    <2>3. upFor'[n] <= 0 \/ upFor'[p] <= 0 + MaxDelay
        BY <1>1, <1>2, <1>4, BoundsAssumption DEF Types, TypeOK
    <2> QED BY <1>1, <2>1, <2>2, <2>3, HeardNowNext DEF HeardIsComing, SilentAtMost
<1> QED BY <1>3, <1>4

LEMMA ComingNext ==
    ASSUME QuietInv, Types', AnnouncesOnTime, AnnouncesOnTime', FormerFade, ComingInv,
           LongestSilence <= Expiry * Sec, MaxLag <= Horizon, [Next]_vars
    PROVE  ComingInv'
<1> SUFFICES ASSUME NEW n \in Bound, NEW p \in Announcers, n # p, up'[n], up'[p],
                    jumped'.ahead = 0
             PROVE  Coming(n, p)'
    BY DEF ComingInv
<1> USE DEF procVars, timers, history
<1>1. /\ Types /\ n \in Nodes /\ p \in Nodes /\ jumped.ahead \in Nat
      /\ up[n] /\ up[p] /\ jumped.ahead = 0 => Coming(n, p)
    BY NodesAssumption DEF QuietInv, Types, TypeOK, ComingInv
<1>2. ASSUME NEW m \in Nodes, Start(m) PROVE Coming(n, p)'
    <2>1. jumped' = jumped
        BY <1>2 DEF Start
    <2> QED BY <1>1, <1>2, <2>1, StartComing
<1>3. ASSUME NEW m \in Nodes, Stop(m) PROVE Coming(n, p)'
    <2>1. m # n /\ m # p
        BY <1>1, <1>3 DEF Stop, Types, TypeOK
    <2>2. /\ up[n] /\ up[p] /\ jumped' = jumped /\ run' = run /\ net' = net
          /\ missed' = missed /\ reloads' = reloads
        BY <1>1, <1>3, <2>1 DEF Stop, Types, TypeOK
    <2>3. /\ peerTable'[n] = peerTable[n] /\ quiet'[n] = quiet[n]
          /\ upFor'[n] = upFor[n] /\ upFor'[p] = upFor[p]
          /\ hello'[p] = hello[p] /\ announceTimer'[p] = announceTimer[p]
        BY <1>1, <1>3, <2>1 DEF Stop, Types, TypeOK
    <2>4. SilenceFrame(n, p)
        BY <2>2, <2>3 DEF SilenceFrame, Current
    <2> QED BY <1>1, <2>2, <2>3, <2>4, SamePair
<1>4. ASSUME NEW m \in Nodes, sendAnnouncement(m) PROVE Coming(n, p)'
    <2>1. up[n] /\ up[p] /\ jumped' = jumped
        BY <1>4 DEF sendAnnouncement
    <2> QED BY <1>1, <1>4, <2>1, AnnouncementKeeps
<1>5. ASSUME NEW m \in Nodes, NEW i \in Intervals, setIntervalMs(m, i) PROVE Coming(n, p)'
    <2>1. up[n] /\ up[p] /\ jumped' = jumped
        BY <1>5 DEF setIntervalMs
    <2> QED BY <1>1, <1>5, <2>1, ReloadKeeps
<1>6. ASSUME NEW m \in Nodes, expirePeers(m) PROVE Coming(n, p)'
    <2>1. up[n] /\ up[p] /\ jumped' = jumped
        BY <1>6 DEF expirePeers
    <2> QED BY <1>1, <1>6, <2>1, SweepComing
<1>7. ASSUME NEW d \in net, processPendingDatagram(d) PROVE Coming(n, p)'
    <2>1. up[n] /\ up[p] /\ jumped' = jumped
        BY <1>7 DEF processPendingDatagram
    <2> QED BY <1>1, <1>7, <2>1, ArrivalComing
<1>8. ASSUME Tick PROVE Coming(n, p)'
    <2>1. up[n] /\ up[p] /\ jumped' = jumped
        BY <1>8 DEF Tick
    <2> QED BY <1>1, <1>8, <2>1, TickComing
<1>9. ASSUME NEW j \in Jumps, SetClock(j) PROVE Coming(n, p)'
    <2>1. /\ j \in Int /\ WallClock(j) /\ jumped'.ahead = jumped.ahead + (IF j > 0 THEN j ELSE 0)
          /\ UNCHANGED <<up, run, hello, announceTimer, net, quiet, missed, upFor, reloads>>
        BY <1>9, BoundsAssumption DEF SetClock
    <2>2. jumped.ahead = 0
        BY <1>1, <2>1
    <2>3. SilenceFrame(n, p)
        BY <1>1, <2>1 DEF WallClock, SilenceFrame, Current, Types, TypeOK
    <2> QED BY <1>1, <2>1, <2>2, <2>3, SamePair
<1>10. ASSUME UNCHANGED vars PROVE Coming(n, p)'
    <2>1. UNCHANGED <<up, run, hello, announceTimer, peerTable, net, quiet, missed, upFor,
                      reloads, jumped>>
        BY <1>10 DEF vars
    <2>2. SilenceFrame(n, p)
        BY <2>1 DEF SilenceFrame, Current
    <2> QED BY <1>1, <2>1, <2>2, SamePair
<1> QED BY <1>2, <1>3, <1>4, <1>5, <1>6, <1>7, <1>8, <1>9, <1>10 DEF Next

(***************************************************************************)
(* KnownInTime for every instance whose entries outlive the longest        *)
(* silence: a listener never goes without a peer's entry, or with one of   *)
(* its former process, for longer than that.                               *)
(***************************************************************************)
THEOREM KnownWhenHeard == ASSUME LongestSilence <= Expiry * Sec
                          PROVE  Spec => []KnownInTime
<1> DEFINE Inv == QuietInv /\ AnnouncesOnTime /\ FormerFade /\ ComingInv
<1>1. CASE Horizon <= LongestSilence
    <2>1. Types => KnownInTime
        <3> SUFFICES ASSUME Types, NEW n \in Bound, upFor[n] > LongestSilence PROVE FALSE
            BY DEF KnownInTime
        <3> QED BY <1>1, NodesAssumption, BoundsAssumption, SlackIs DEF Types, TypeOK
    <2> QED BY <2>1, TypesInit, TypesNext, PTL DEF Spec
<1>2. CASE Horizon > LongestSilence
    <2>1. MaxLag <= Horizon
        <3>1. Step \in Nat /\ MaxLag <= Step /\ MaxLag \in Nat
            BY LongestIs DEF Step
        <3>2. /\ Slack(MaxMissed + MaxReloads) >= MaxDelay /\ MaxDelay \in Nat
              /\ Slack(MaxMissed + MaxReloads) \in Int
              /\ LongestSilence = Step + Slack(MaxMissed + MaxReloads)
            BY SlackIs, BoundsAssumption
        <3> HIDE DEF Slack, Step
        <3> QED BY <1>2, <3>1, <3>2, BoundsAssumption
    <2>2. Init => Inv
        <3>1. Init => ComingInv
            BY NodesAssumption DEF Init, ComingInv
        <3> QED BY <3>1, QuietInit, OnTimeInit
    <2>3. Inv /\ [Next]_vars => Inv'
        <3> SUFFICES ASSUME Inv, [Next]_vars PROVE Inv'
            OBVIOUS
        <3>1. Types /\ QuietInv'
            BY QuietNext DEF QuietInv
        <3>2. Types' /\ AnnouncesOnTime' /\ FormerFade'
            BY <2>1, <3>1, OnTimeNext, FadeNext DEF QuietInv
        <3> QED BY <2>1, <3>1, <3>2, ComingNext
    <2>4. Inv => KnownInTime
        <3> SUFFICES ASSUME Inv, NEW n \in Bound, NEW p \in Announcers \ {n},
                            upFor[n] > LongestSilence,
                            upFor[p] > LongestSilence + MaxDelay, jumped.ahead = 0
                     PROVE  Current(n, p)
            BY DEF KnownInTime, Current, list_peers
        <3>1. /\ n \in Nodes /\ p \in Nodes /\ Types
              /\ upFor[n] \in Nat /\ upFor[p] \in Nat
              /\ up \in [Nodes -> BOOLEAN]
            BY NodesAssumption, BoundsAssumption DEF QuietInv, Types, TypeOK
        <3>2. LongestSilence \in Nat /\ MaxDelay \in Nat
            BY SlackIs
        <3>3. up[n] /\ up[p]
            BY <3>1, <3>2 DEF AnnouncesOnTime
        <3>4. PICK x \in 0 .. LongestSilence : SilentAtMost(n, p, LongestSilence - x)
            BY <3>3 DEF ComingInv, Coming
        <3> QED BY <3>1, <3>2, <3>4 DEF SilentAtMost
    <2> QED BY <2>2, <2>3, <2>4, PTL DEF Spec
<1>3. Horizon <= LongestSilence \/ Horizon > LongestSilence
    BY SlackIs, BoundsAssumption
<1> QED BY <1>1, <1>2, <1>3

=============================================================================
