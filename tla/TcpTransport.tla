---------------------------- MODULE TcpTransport ----------------------------
(***************************************************************************)
(* TcpTransport (transport/tcp_transport.cpp) on every node, with its      *)
(* frame codec (transport/frame_codec.h): sessions, the timers that        *)
(* connect again, their attempts, and frames cut into reads.               *)
(*                                                                         *)
(* An address is a node and a port: port 0 is the one its server listens   *)
(* on, port s the ephemeral one that session s was opened from.  Between   *)
(* them is TCP: reliable and ordered while a session lasts.                *)
(***************************************************************************)
EXTENDS Integers, Sequences, FiniteSets, FiniteSetsExt, SequencesExt

CONSTANTS
    Nodes,
    Listeners,    \* nodes whose server listens
    connect,      \* node -> nodes it is configured to connect to
    MaxAttempts,  \* maxReconnectAttempts
    Frames,
    Payload,      \* frame -> length of its payload
    Header,       \* bytes of length and type that precede it (5 in the code)
    MaxSessions,  \* bound: connections that are ever made
    MaxFrames,    \* bound: frames sent, on all sessions
    MaxStarts     \* bound: node -> calls of start, in all its processes

ASSUME NodesAssumption ==
    /\ IsFiniteSet(Nodes)
    /\ Listeners \subseteq Nodes
    /\ connect \in [Nodes -> SUBSET Nodes]
    /\ \A n \in Nodes : n \notin connect[n]
ASSUME CodecAssumption ==
    /\ Header \in Nat \ {0}
    /\ Payload \in [Frames -> Nat]
ASSUME BoundsAssumption ==
    /\ MaxAttempts \in Nat /\ MaxSessions \in Nat
    /\ MaxFrames \in Nat /\ MaxStarts \in [Nodes -> Nat]

VARIABLES
    status,     \* node -> down, running or stopped
    starts,     \* history: node -> calls of start
    calls,      \* history: node -> those of them in this process
    sessions,   \* connections made: [from, to]
    end,        \* session -> node -> none, backlog, attached or gone
    broken,     \* sessions that TCP has lost or an end has left
    timers,     \* node -> address -> reconnection timers that run
    attempts,   \* node -> address -> reconnectAttempts_, 0 if it has none
    wire,       \* session -> node -> bytes on their way to it
    rxBuf,      \* session -> node -> bytes it has read and not decoded
    sent,       \* history: session -> node -> frames sent to it
    received,   \* history: session -> node -> frames it received
    failures,   \* history: node -> address -> failed attempts since a success
    gaveUp      \* history: node -> addresses whose timer gave up

links    == <<sessions, end, broken>>
timing   == <<timers, attempts, failures, gaveUp>>
streams  == <<wire, rxBuf, sent, received>>
starting == <<status, starts, calls>>
vars     == <<starting, links, timing, streams>>

Ids       == 1 .. MaxSessions
Addresses == Nodes \X (0 .. MaxSessions)
Zero      == [a \in Addresses |-> 0]
Streams   == [s \in Ids |-> [n \in Nodes |-> <<>>]]

Init ==
    /\ status = [n \in Nodes |-> "down"]
    /\ starts = [n \in Nodes |-> 0]
    /\ calls = [n \in Nodes |-> 0]
    /\ sessions = <<>>
    /\ end = [s \in Ids |-> [n \in Nodes |-> "none"]]
    /\ broken = {}
    /\ timers = [n \in Nodes |-> Zero]
    /\ attempts = [n \in Nodes |-> Zero]
    /\ failures = [n \in Nodes |-> Zero]
    /\ gaveUp = [n \in Nodes |-> {}]
    /\ wire = Streams /\ rxBuf = Streams /\ sent = Streams /\ received = Streams

-----------------------------------------------------------------------------
\* A byte of a frame is named by its position, from which tryDecode learns the
\* length when it is the first.
encode(f) == [i \in 1 .. Header + Payload[f] |-> <<f, i>>]

FrameLength(buf) == Header + Payload[buf[1][1]]

Decodable(buf) == Len(buf) >= Header /\ Len(buf) >= FrameLength(buf)

\* The frame at the front of a buffer; what is no frame is what was torn.
FirstFrame(buf) ==
    IF SubSeq(buf, 1, FrameLength(buf)) = encode(buf[1][1]) THEN buf[1][1] ELSE "torn"

\* tryDecode takes the frame at the front off, if it is whole.
tryDecode(d) ==
    IF Decodable(d.rest)
      THEN [frames |-> Append(d.frames, FirstFrame(d.rest)),
            rest   |-> SubSeq(d.rest, FrameLength(d.rest) + 1, Len(d.rest))]
      ELSE d

Undecoded(buf) == [frames |-> <<>>, rest |-> buf]

\* Fault: one frame is decoded for each signal.
DecodedOnce(buf) == tryDecode(Undecoded(buf))

\* The loop of onReadyRead: as long as there is a whole frame at the front.  No
\* frame is empty, so a buffer has no more of them than bytes.
Decoded(buf) ==
    LET decode[k \in 0 .. Len(buf)] ==
            IF k = 0 THEN Undecoded(buf) ELSE tryDecode(decode[k - 1])
    IN  decode[Len(buf)]

-----------------------------------------------------------------------------
Attached(n) == {s \in Ids : end[s][n] = "attached"}

\* Where the other end of a session is, as onSocketError names it.
PeerAddress(s, n) ==
    IF sessions[s].from = n THEN <<sessions[s].to, 0>> ELSE <<sessions[s].from, s>>

Accepts(address) ==
    address[2] = 0 /\ address[1] \in Listeners /\ status[address[1]] = "running"

\* The kernel accepts at once; onNewConnection takes the session over later.
Opened(n, targets) ==
    LET more == SetToSeq({[from |-> n, to |-> m] : m \in targets})
        s(m) == Len(sessions) + CHOOSE i \in DOMAIN more : more[i].to = m
    IN  /\ Len(sessions) + Len(more) <= MaxSessions
        /\ sessions' = sessions \o more
        /\ end' = [i \in Ids |-> [x \in Nodes |->
                    IF \E m \in targets : i = s(m) /\ x = n THEN "attached"
                    ELSE IF \E m \in targets : i = s(m) /\ x = m THEN "backlog"
                    ELSE end[i][x]]]

(***************************************************************************)
(* start: each target is connected to, or gets a timer.  It asks neither   *)
(* whether it was called before nor for stop: what earlier calls have left *)
(* goes on, their sessions and timers and the attempts counted so far.     *)
(***************************************************************************)
start(n) ==
    /\ starts[n] < MaxStarts[n]
    /\ status' = [status EXCEPT ![n] = "running"]
    /\ starts' = [starts EXCEPT ![n] = @ + 1]
    /\ calls' = [calls EXCEPT ![n] = @ + 1]
    /\ \E ok \in SUBSET {m \in connect[n] : Accepts(<<m, 0>>)} :
        /\ Opened(n, ok)
        /\ timers' = [timers EXCEPT ![n] = [a \in Addresses |->
                IF a[2] = 0 /\ a[1] \in connect[n] \ ok THEN @[a] + 1 ELSE @[a]]]
        /\ failures' = [failures EXCEPT ![n] = [a \in Addresses |->
                IF a[2] = 0 /\ a[1] \in ok THEN 0 ELSE @[a]]]
    /\ gaveUp' = [gaveUp EXCEPT ![n] = @ \ {<<m, 0>> : m \in connect[n]}]
    /\ UNCHANGED <<broken, attempts, streams>>

Held(n) == {s \in Ids : end[s][n] # "none"}

\* A node's ends of some sessions are deleted, with what their sockets and
\* peers still hold; the other ends find the sessions broken.
detach(n, left) ==
    /\ end' = [s \in Ids |-> [end[s] EXCEPT ![n] = IF s \in left THEN "gone" ELSE @]]
    /\ broken' = broken \cup left
    /\ wire' = [s \in Ids |-> [wire[s] EXCEPT ![n] = IF s \in left THEN <<>> ELSE @]]
    /\ rxBuf' = [s \in Ids |-> [rxBuf[s] EXCEPT ![n] = IF s \in left THEN <<>> ELSE @]]
    /\ UNCHANGED <<sent, received>>

\* The process ends or dies, and with it all it holds.
Died(n) ==
    /\ status' = [status EXCEPT ![n] = "down"]
    /\ calls' = [calls EXCEPT ![n] = 0]
    /\ detach(n, Held(n))
    /\ timers' = [timers EXCEPT ![n] = Zero]
    /\ attempts' = [attempts EXCEPT ![n] = Zero]
    /\ failures' = [failures EXCEPT ![n] = Zero]
    /\ gaveUp' = [gaveUp EXCEPT ![n] = {}]
    /\ UNCHANGED <<starts, sessions>>

Crash(n) == status[n] # "down" /\ Died(n)

(***************************************************************************)
(* stop: nothing was ever put into reconnectTimers_, so the timers go on,  *)
(* and may connect a stopped node again.  close may call disconnected, and *)
(* detach frees the peer that stop then frees again: with a session the    *)
(* process may die of it.                                                  *)
(***************************************************************************)
stop(n) ==
    /\ status[n] # "down"
    /\ \/ Attached(n) # {} /\ Died(n)
       \/ /\ status' = [status EXCEPT ![n] = "stopped"]
          /\ detach(n, Held(n))
          /\ UNCHANGED <<starts, calls, sessions, timing>>

onNewConnection(n) ==
    /\ status[n] = "running"
    /\ \E s \in Ids : end[s][n] = "backlog"
    /\ end' = [s \in Ids |-> [end[s] EXCEPT ![n] = IF @ = "backlog" THEN "attached" ELSE @]]
    /\ UNCHANGED <<starting, sessions, broken, timing, streams>>

-----------------------------------------------------------------------------
FramesSent ==
    MapThenSumSet(LAMBDA c : Len(sent[c[1]][c[2]]), Ids \X Nodes)

\* send writes to every session; what is written to a broken one is lost.
send(n, f) ==
    LET to == {c \in Attached(n) \X (Nodes \ {n}) : end[c[1]][c[2]] # "none"}
    IN  /\ to # {}
        /\ FramesSent + Cardinality(to) <= MaxFrames
        /\ sent' = [s \in Ids |-> [m \in Nodes |->
              IF <<s, m>> \in to THEN Append(sent[s][m], f) ELSE sent[s][m]]]
        /\ wire' = [s \in Ids |-> [m \in Nodes |->
              IF <<s, m>> \in to /\ s \notin broken
                THEN wire[s][m] \o encode(f) ELSE wire[s][m]]]
        /\ UNCHANGED <<starting, links, timing, rxBuf, received>>

\* onReadyRead, for one session: some of the bytes have come.  Sessions do not
\* affect each other, so reading several of them is reading one by one.
onReadyRead(n, s) ==
    /\ s \in Attached(n)
    /\ \E k \in 1 .. Len(wire[s][n]) :
        LET d == Decoded(rxBuf[s][n] \o SubSeq(wire[s][n], 1, k))
        IN  /\ wire' = [wire EXCEPT ![s][n] = SubSeq(@, k + 1, Len(@))]
            /\ rxBuf' = [rxBuf EXCEPT ![s][n] = d.rest]
            /\ received' = [received EXCEPT ![s][n] = @ \o d.frames]
    /\ UNCHANGED <<starting, links, timing, sent>>

-----------------------------------------------------------------------------
\* TCP loses a session, with any bytes that were not read.
Break(s) ==
    /\ s \in DOMAIN sessions /\ s \notin broken
    /\ broken' = broken \cup {s}
    /\ UNCHANGED <<starting, sessions, end, timing, streams>>

\* A session that broke reports an error, which sets off a timer, whoever had
\* opened it; and then that it is disconnected.
onSocketError(n, s) ==
    /\ s \in Attached(n) \cap broken
    /\ detach(n, {s})
    /\ timers' = [timers EXCEPT ![n][PeerAddress(s, n)] = @ + 1]
    /\ UNCHANGED <<starting, sessions, attempts, failures, gaveUp>>

\* Faults: the timer goes on after a success; the counter is kept.
TimerLeft(n, a) == timers

TimerEnded(n, a) == [timers EXCEPT ![n][a] = @ - 1]

AttemptsKept(n, a) == [attempts EXCEPT ![n][a] = @ + 1]

AttemptsForgotten(n, a) == [attempts EXCEPT ![n][a] = 0]

\* Fault: one attempt too many.
ExhaustedLate(n, a) == attempts[n][a] > MaxAttempts

Exhausted(n, a) == attempts[n][a] >= MaxAttempts

GiveUp(n, a) ==
    /\ Exhausted(n, a)
    /\ timers' = TimerEnded(n, a)
    /\ gaveUp' = [gaveUp EXCEPT ![n] = @ \cup {a}]
    /\ UNCHANGED <<links, attempts, failures>>

Reconnect(n, a) ==
    /\ ~Exhausted(n, a)
    /\ Accepts(a)
    /\ Opened(n, {a[1]})
    /\ timers' = TimerEnded(n, a)
    /\ attempts' = AttemptsForgotten(n, a)
    /\ failures' = [failures EXCEPT ![n][a] = 0]
    /\ UNCHANGED <<broken, gaveUp>>

\* Fault: a timer is a single shot.
FailOnce(n, a) == TimerEnded(n, a)

FailAgain(n, a) == timers

Fail(n, a) ==
    /\ ~Exhausted(n, a)
    /\ attempts' = [attempts EXCEPT ![n][a] = @ + 1]
    /\ timers' = FailAgain(n, a)
    /\ failures' = [failures EXCEPT ![n][a] = @ + 1]
    /\ UNCHANGED <<links, gaveUp>>

\* The timeout of a reconnection timer: it waits for the connection.
Timeout(n, a) ==
    /\ timers[n][a] > 0
    /\ GiveUp(n, a) \/ Reconnect(n, a) \/ Fail(n, a)
    /\ UNCHANGED <<starting, streams>>

Next ==
    \/ \E n \in Nodes :
        \/ start(n) \/ stop(n) \/ Crash(n) \/ onNewConnection(n)
        \/ \E f \in Frames : send(n, f)
        \/ \E s \in Ids : onReadyRead(n, s) \/ onSocketError(n, s)
        \/ \E a \in Addresses : Timeout(n, a)
    \/ \E s \in Ids : Break(s)

(***************************************************************************)
(* A node that runs serves its sockets and its timers; nobody has to       *)
(* start, stop or send, and no attempt has to succeed.                     *)
(***************************************************************************)
Fairness == \A n \in Nodes :
    /\ WF_vars(onNewConnection(n))
    /\ \A s \in Ids : WF_vars(onReadyRead(n, s)) /\ WF_vars(onSocketError(n, s))
    /\ \A a \in Addresses : WF_vars(Timeout(n, a))

Spec == Init /\ [][Next]_vars /\ Fairness

-----------------------------------------------------------------------------
\* Types; a node that is down holds nothing.
TypeOK ==
    /\ status \in [Nodes -> {"down", "running", "stopped"}]
    /\ \A n \in Nodes : starts[n] \in 0 .. MaxStarts[n] /\ calls[n] \in 0 .. starts[n]
    /\ sessions \in Seq([from: Nodes, to: Nodes]) /\ Len(sessions) <= MaxSessions
    /\ end \in [Ids -> [Nodes -> {"none", "backlog", "attached", "gone"}]]
    /\ broken \subseteq DOMAIN sessions
    /\ timers \in [Nodes -> [Addresses -> Nat]]
    /\ attempts \in [Nodes -> [Addresses -> 0 .. MaxAttempts]]
    /\ failures \in [Nodes -> [Addresses -> Nat]]
    /\ gaveUp \in [Nodes -> SUBSET Addresses]
    /\ \A n \in Nodes : status[n] = "down" => Attached(n) = {} /\ timers[n] = Zero

Linked(n, m) == {s \in Attached(n) : sessions[s] = [from |-> n, to |-> m]}

(***************************************************************************)
(* Every target of a running node has a session, or a timer that tries to  *)
(* get it one, or was given up; and of sessions and timers together it has *)
(* no more than start was called times, however often sessions break.  So  *)
(* a node that starts once never has two, over which each frame would go   *)
(* twice; one that stops and starts again may.                             *)
(***************************************************************************)
OneLinkPerStart ==
    \A n \in Nodes : \A m \in connect[n] :
        LET links_of == Cardinality(Linked(n, m)) + timers[n][<<m, 0>>]
        IN  /\ links_of <= calls[n]
            /\ status[n] = "running" /\ links_of = 0 => <<m, 0>> \in gaveUp[n]

(***************************************************************************)
(* No address is tried more than MaxAttempts times in a row without        *)
(* success, with several timers too; and where start was called once, it   *)
(* is not given up before: a session that was lost leaves none of the      *)
(* attempts used up.  A later start does, which connects without           *)
(* forgetting them.                                                        *)
(***************************************************************************)
GivenUpInTurn ==
    \A n \in Nodes, a \in Addresses :
        /\ failures[n][a] <= MaxAttempts
        /\ a \in gaveUp[n] /\ calls[n] = 1 => failures[n][a] = MaxAttempts

(***************************************************************************)
(* A node that stays up is connected to each target again and again, or    *)
(* gives it up: no timer stops before.                                     *)
(***************************************************************************)
EventuallyLinked ==
    \A n \in Nodes : \A m \in connect[n] :
        []<>(status[n] # "running" \/ Linked(n, m) # {} \/ <<m, 0>> \in gaveUp[n])

(***************************************************************************)
(* What arrived was received: over a session that lasts, when no byte is   *)
(* on its way every frame sent has been received, also those that came     *)
(* together in one read or in pieces over several.                         *)
(***************************************************************************)
ArrivedIsReceived ==
    \A s \in Ids \ broken, n \in Nodes :
        wire[s][n] = <<>> => received[s][n] = sent[s][n]

(***************************************************************************)
(* Each direction of a session is a channel of whole frames, however TCP   *)
(* cuts or joins them in reads: the frames received are those sent, in     *)
(* order, all of them unless the session breaks.                           *)
(***************************************************************************)
Channel == INSTANCE FrameChannel WITH
    Channels <- Ids \X Nodes,
    sent     <- [c \in Ids \X Nodes |-> sent[c[1]][c[2]]],
    received <- [c \in Ids \X Nodes |-> received[c[1]][c[2]]],
    closed   <- broken \X Nodes

Implements == Channel!Spec

=============================================================================
