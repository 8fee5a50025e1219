----------------------------- MODULE Discovery -----------------------------
(***************************************************************************)
(* DiscoveryManager (discovery/discovery_manager.cpp) on every node:       *)
(* periodic announcements, the table of peers they fill, and its expiry.   *)
(*                                                                         *)
(* Time passes in ticks, Sec of which make the second that the table       *)
(* counts in.  All nodes are on one host, as the code assumes when it      *)
(* sends to 127.0.0.1, and read one wall clock (QDateTime), which may be   *)
(* set; their timers do not follow it.  Timers and packets count down and  *)
(* table entries count up, so that time may pass for ever in a finite      *)
(* state space.                                                            *)
(***************************************************************************)
EXTENDS Integers, FiniteSets

CONSTANTS
    Nodes,
    Announcers,  \* nodes that start(true), as main does
    Bound,       \* nodes whose socket.bind succeeds
    Intervals,   \* settings of discovery.interval_ms, in ticks
    Sec,         \* ticks in a second
    Expiry,      \* seconds after which a silent peer is dropped (10 in the code)
    MaxMissed,   \* bound: announcements in a row that a running node misses
    MaxDelay,    \* bound: ticks a datagram takes
    MaxLag,      \* bound: ticks the event loop runs a timer late
    MaxRuns,     \* bound: times a node starts
    MaxReloads,  \* bound: times interval_ms is reloaded
    Jumps,       \* amounts, in ticks, by which the wall clock may be set
    MaxJumps,    \* bound: how often it is set
    Horizon      \* bound: upFor counts so far

ASSUME NodesAssumption == Announcers \subseteq Nodes /\ Bound \subseteq Nodes
ASSUME TimesAssumption ==
    /\ Sec \in Nat \ {0}
    /\ Expiry \in Nat
    /\ MaxLag \in Nat
    /\ \A i \in Intervals : i \in Nat /\ i > MaxLag
ASSUME LongestAssumption == \E i \in Intervals : \A j \in Intervals : i >= j
ASSUME BoundsAssumption ==
    /\ MaxMissed \in Nat /\ MaxDelay \in Nat /\ MaxRuns \in Nat
    /\ MaxReloads \in Nat /\ MaxJumps \in Nat
    /\ Jumps \subseteq Int /\ Horizon \in Nat

VARIABLES
    up,             \* node -> its process runs
    run,            \* node -> how often it started: stands for what it announces
    hello,          \* node -> the announcement 10 ms after start is still due
    announceTimer,  \* node -> [every, left]
    expiryTimer,    \* node -> [every, left]
    peerTable,      \* node -> peer -> [run, age], age = now - last_seen
    net,            \* announcements in flight
    phase,          \* ticks into the current second of the wall clock
    quiet,          \* history: node, peer listed -> ticks since last heard
    missed,         \* history: node, peer -> announcements missed in a row
    upFor,          \* history: node -> ticks since its process started
    jumped,         \* history: [n, ahead, back] of the clock being set
    reloads         \* history: reloads of interval_ms

procVars == <<up, run, hello>>
timers   == <<announceTimer, expiryTimer>>
history  == <<missed, upFor, jumped, reloads>>
vars     == <<procVars, timers, peerTable, net, phase, quiet, history>>

Empty   == [p \in {} |-> 0]
Stopped == [every |-> 0, left |-> 0]

Init ==
    /\ up = [n \in Nodes |-> FALSE]
    /\ run = [n \in Nodes |-> 0]
    /\ hello = [n \in Nodes |-> FALSE]
    /\ announceTimer = [n \in Nodes |-> Stopped]
    /\ expiryTimer = [n \in Nodes |-> Stopped]
    /\ peerTable = [n \in Nodes |-> Empty]
    /\ net = {}
    /\ phase \in 0 .. Sec - 1
    /\ quiet = [n \in Nodes |-> [p \in Nodes |-> 0]]
    /\ missed = [n \in Nodes |-> [p \in Nodes |-> 0]]
    /\ upFor = [n \in Nodes |-> 0]
    /\ jumped = [n |-> 0, ahead |-> 0, back |-> 0]
    /\ reloads = 0

-----------------------------------------------------------------------------
(***************************************************************************)
(* The process starts and calls start(announce); it starts again with      *)
(* other topics, formats or ports, which its announcements then carry.     *)
(***************************************************************************)
Start(n) ==
    /\ ~up[n] /\ run[n] < MaxRuns
    /\ up' = [up EXCEPT ![n] = TRUE]
    /\ run' = [run EXCEPT ![n] = @ + 1]
    /\ hello' = [hello EXCEPT ![n] = n \in Announcers]
    /\ \E i \in Intervals :
        /\ announceTimer' = [announceTimer EXCEPT ![n] =
                               IF n \in Announcers THEN [every |-> i, left |-> i] ELSE Stopped]
        /\ expiryTimer' = [expiryTimer EXCEPT ![n] = [every |-> i, left |-> i]]
    /\ missed' = [m \in Nodes |-> [p \in Nodes |->
                    IF n \in {m, p} THEN 0 ELSE missed[m][p]]]
    /\ upFor' = [upFor EXCEPT ![n] = 0]
    /\ UNCHANGED <<peerTable, net, phase, quiet, jumped, reloads>>

(***************************************************************************)
(* stop() and the end of the process, or a crash: either way the others    *)
(* are told nothing.                                                       *)
(***************************************************************************)
Stop(n) ==
    /\ up[n]
    /\ up' = [up EXCEPT ![n] = FALSE]
    /\ hello' = [hello EXCEPT ![n] = FALSE]
    /\ announceTimer' = [announceTimer EXCEPT ![n] = Stopped]
    /\ expiryTimer' = [expiryTimer EXCEPT ![n] = Stopped]
    /\ peerTable' = [peerTable EXCEPT ![n] = Empty]
    /\ quiet' = [quiet EXCEPT ![n] = [p \in Nodes |-> 0]]
    /\ upFor' = [upFor EXCEPT ![n] = 0]
    /\ UNCHANGED <<run, net, phase, missed, jumped, reloads>>

isActive(timer) == timer.every > 0

\* Fault: the announcement timer is started whether it is active or not.
setIntervalMsAlways(n, i) ==
    /\ up[n] /\ reloads < MaxReloads
    /\ announceTimer' = [announceTimer EXCEPT ![n] = [every |-> i, left |-> i]]
    /\ reloads' = reloads + 1
    /\ UNCHANGED <<procVars, expiryTimer, peerTable, net, phase, quiet,
                   missed, upFor, jumped>>

\* The interval is reloadable: the announcement timer of a node that announces
\* starts afresh, the expiry timer goes on as it was started.
setIntervalMs(n, i) ==
    /\ up[n] /\ reloads < MaxReloads
    /\ isActive(announceTimer[n])
    /\ announceTimer' = [announceTimer EXCEPT ![n] = [every |-> i, left |-> i]]
    /\ reloads' = reloads + 1
    /\ UNCHANGED <<procVars, expiryTimer, peerTable, net, phase, quiet,
                   missed, upFor, jumped>>

-----------------------------------------------------------------------------
(***************************************************************************)
(* A periodic timer that has run out is armed again from when it was due,  *)
(* or from now.                                                            *)
(***************************************************************************)
Rearmed(timer) == {[timer EXCEPT !.left = @ + timer.every],
                   [timer EXCEPT !.left = timer.every]}

Announcement(n, m) == [from |-> n, to |-> m, run |-> run[n], left |-> MaxDelay]

(***************************************************************************)
(* An announcement reaches the bound sockets, the sender's own included,   *)
(* except those it is lost for.                                            *)
(***************************************************************************)
Announce(n) ==
    \E heard \in SUBSET Bound :
        /\ net' = net \cup {Announcement(n, m) : m \in heard}
        /\ missed' = [m \in Nodes |-> [missed[m] EXCEPT ![n] =
                        IF m \in heard \/ ~up[m] \/ m \notin Bound \/ m = n THEN 0 ELSE @ + 1]]
        /\ \A m \in Nodes : missed'[m][n] <= MaxMissed

\* sendAnnouncement, called by the single shot of start or by announceTimer.
sendAnnouncement(n) ==
    /\ up[n]
    /\ \/ /\ hello[n]
          /\ hello' = [hello EXCEPT ![n] = FALSE]
          /\ UNCHANGED announceTimer
       \/ /\ isActive(announceTimer[n]) /\ announceTimer[n].left <= 0
          /\ \E t \in Rearmed(announceTimer[n]) :
                announceTimer' = [announceTimer EXCEPT ![n] = t]
          /\ UNCHANGED hello
    /\ Announce(n)
    /\ UNCHANGED <<up, run, expiryTimer, peerTable, phase, quiet, upFor, jumped, reloads>>

\* Fault: only a peer that is listed already is updated.
ListedKnown(d) ==
    [p \in DOMAIN peerTable[d.to] |->
        IF p = d.from THEN [run |-> d.run, age |-> 0] ELSE peerTable[d.to][p]]

\* The table after an announcement: the latest to arrive counts, whatever its
\* timestamp says; a node ignores its own.
Listed(d) ==
    [p \in (DOMAIN peerTable[d.to] \cup {d.from}) \ {d.to} |->
        IF p = d.from THEN [run |-> d.run, age |-> 0] ELSE peerTable[d.to][p]]

\* processPendingDatagrams, for one datagram; nobody reads one for a node
\* that is down.
processPendingDatagram(d) ==
    /\ net' = net \ {d}
    /\ IF up[d.to]
         THEN /\ peerTable' = [peerTable EXCEPT ![d.to] = Listed(d)]
              /\ quiet' = [quiet EXCEPT ![d.to][d.from] = 0]
         ELSE UNCHANGED <<peerTable, quiet>>
    /\ UNCHANGED <<procVars, timers, phase, history>>

\* Faults: a peer is dropped a second early, or a second late.
ExpiredEarly(n) == {p \in DOMAIN peerTable[n] : peerTable[n][p].age >= Expiry}

ExpiredLate(n) == {p \in DOMAIN peerTable[n] : peerTable[n][p].age > Expiry + 1}

Expired(n) == {p \in DOMAIN peerTable[n] : peerTable[n][p].age > Expiry}

expirePeers(n) ==
    /\ up[n] /\ expiryTimer[n].left <= 0
    /\ \E t \in Rearmed(expiryTimer[n]) :
          expiryTimer' = [expiryTimer EXCEPT ![n] = t]
    /\ peerTable' = [peerTable EXCEPT ![n] =
                        [p \in DOMAIN @ \ Expired(n) |-> @[p]]]
    /\ quiet' = [quiet EXCEPT ![n] =
                    [p \in Nodes |-> IF p \in Expired(n) THEN 0 ELSE @[p]]]
    /\ UNCHANGED <<procVars, announceTimer, net, phase, history>>

-----------------------------------------------------------------------------
(***************************************************************************)
(* What DDSCore::sendMessage asks for: the peers a message is routed to    *)
(* are among those listed, at the port of their entry.                     *)
(***************************************************************************)
list_peers(n) == DOMAIN peerTable[n]

(***************************************************************************)
(* The wall clock moves on by d ticks: last_seen is in whole seconds.      *)
(***************************************************************************)
WallClock(d) ==
    /\ phase' = (phase + d) % Sec
    /\ peerTable' = [n \in Nodes |-> [p \in DOMAIN peerTable[n] |->
                        [peerTable[n][p] EXCEPT !.age = @ + (phase + d) \div Sec]]]

CountDown(timer) == [n \in Nodes |->
    IF isActive(timer[n]) THEN [timer[n] EXCEPT !.left = @ - 1] ELSE timer[n]]

Overdue(n) ==
    \/ hello[n] /\ upFor[n] >= MaxLag
    \/ isActive(announceTimer[n]) /\ announceTimer[n].left <= -MaxLag
    \/ expiryTimer[n].left <= -MaxLag

Tick ==
    /\ \A n \in Nodes : up[n] => ~Overdue(n)
    /\ \A d \in net : d.left > 0
    /\ announceTimer' = CountDown(announceTimer)
    /\ expiryTimer' = CountDown(expiryTimer)
    /\ net' = {[d EXCEPT !.left = @ - 1] : d \in net}
    /\ WallClock(1)
    /\ quiet' = [n \in Nodes |-> [p \in Nodes |->
                    IF p \in list_peers(n) THEN quiet[n][p] + 1 ELSE 0]]
    /\ upFor' = [n \in Nodes |-> IF up[n] /\ upFor[n] < Horizon THEN upFor[n] + 1 ELSE upFor[n]]
    /\ UNCHANGED <<procVars, missed, jumped, reloads>>

\* The clock of the host is set ahead (j > 0) or back.
SetClock(j) ==
    /\ jumped.n < MaxJumps
    /\ jumped' = [n     |-> jumped.n + 1,
                  ahead |-> jumped.ahead + (IF j > 0 THEN j ELSE 0),
                  back  |-> jumped.back + (IF j < 0 THEN -j ELSE 0)]
    /\ WallClock(j)
    /\ UNCHANGED <<procVars, timers, net, quiet, missed, upFor, reloads>>

Next ==
    \/ \E n \in Nodes :
        \/ Start(n) \/ Stop(n)
        \/ sendAnnouncement(n) \/ expirePeers(n)
        \/ \E i \in Intervals : setIntervalMs(n, i)
    \/ \E d \in net : processPendingDatagram(d)
    \/ Tick
    \/ \E j \in Jumps : SetClock(j)

Spec == Init /\ [][Next]_vars

-----------------------------------------------------------------------------
(***************************************************************************)
(* Types; a node is never its own peer, lists nobody while it is down, and *)
(* lists no one who only listens: whatever is set or reloads, only the     *)
(* nodes started to announce do so.                                        *)
(***************************************************************************)
TypeOK ==
    /\ up \in [Nodes -> BOOLEAN]
    /\ run \in [Nodes -> 0 .. MaxRuns]
    /\ hello \in [Nodes -> BOOLEAN]
    /\ announceTimer \in [Nodes -> [every: Nat, left: Int]]
    /\ expiryTimer \in [Nodes -> [every: Nat, left: Int]]
    /\ DOMAIN peerTable = Nodes
    /\ \A n \in Nodes :
        /\ list_peers(n) \subseteq IF up[n] THEN Announcers \ {n} ELSE {}
        /\ \A p \in list_peers(n) : peerTable[n][p] \in [run: 1 .. run[p], age: Int]
    /\ net \subseteq [from: Announcers, to: Nodes, run: Nat, left: 0 .. MaxDelay]
    /\ phase \in 0 .. Sec - 1
    /\ quiet \in [Nodes -> [Nodes -> Nat]]
    /\ missed \in [Nodes -> [Nodes -> 0 .. MaxMissed]]
    /\ upFor \in [Nodes -> 0 .. Horizon]
    /\ jumped \in [n: 0 .. MaxJumps, ahead: Nat, back: Nat]
    /\ reloads \in 0 .. MaxReloads

(***************************************************************************)
(* The longest time without an announcement of a running node reaching a   *)
(* running one: missed ones, late timers, reloads that start the timer     *)
(* afresh, and the way of the one that arrives.                            *)
(***************************************************************************)
LongestInterval == CHOOSE i \in Intervals : \A j \in Intervals : i >= j

LongestSilence ==
    (1 + MaxMissed + MaxReloads) * (LongestInterval + MaxLag) + MaxDelay

(***************************************************************************)
(* Routing relies on this: once the listener has run for as long as that   *)
(* silence, and the announcer so much longer as a datagram of its former   *)
(* process may take, and unless the clock was set ahead, the listener has  *)
(* an entry that says what the announcer announces now: no expiry between  *)
(* announcements, nothing that a late announcement brought back.           *)
(***************************************************************************)
KnownInTime ==
    \A n \in Bound : \A p \in Announcers \ {n} :
        /\ upFor[n] > LongestSilence /\ upFor[p] > LongestSilence + MaxDelay
        /\ jumped.ahead = 0
        => p \in list_peers(n) /\ peerTable[n][p].run = run[p]

(***************************************************************************)
(* A peer is listed no longer after its last announcement than the expiry, *)
(* the rest of a second, a sweep that just missed it, the lag of the event *)
(* loop and what the clock was set back: so long may messages be routed to *)
(* a process that is gone.                                                 *)
(***************************************************************************)
GoneInTime ==
    \A n \in Nodes : \A p \in list_peers(n) :
        quiet[n][p] <= (Expiry + 1) * Sec - 1 + expiryTimer[n].every + MaxLag + jumped.back

(***************************************************************************)
(* No peer is dropped within the expiry of its last announcement, except   *)
(* by what the clock was set ahead: whole seconds err on the long side.    *)
(***************************************************************************)
DroppedEarly(n, p) ==
    /\ p \in list_peers(n) /\ p \notin DOMAIN peerTable'[n] /\ up'[n]
    /\ quiet[n][p] <= Expiry * Sec - jumped.ahead

NotDroppedEarly == [][\A n, p \in Nodes : ~DroppedEarly(n, p)]_vars

=============================================================================
