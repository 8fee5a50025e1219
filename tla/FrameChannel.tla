---------------------------- MODULE FrameChannel ----------------------------
(***************************************************************************)
(* What the TCP transport promises of frames, without bytes, sockets or    *)
(* timers: each direction of a connection delivers the frames sent on it   *)
(* whole, once and in order, all of them unless it is closed.              *)
(*                                                                         *)
(* TcpTransport implements this specification (TcpTransport!Implements).   *)
(***************************************************************************)
EXTENDS Naturals, Sequences

CONSTANTS
    Channels,   \* directions of connections
    Frames

VARIABLES
    sent,       \* channel -> frames sent
    received,   \* channel -> frames received
    closed      \* channels that may deliver no more

vars == <<sent, received, closed>>

Init ==
    /\ sent = [c \in Channels |-> <<>>]
    /\ received = [c \in Channels |-> <<>>]
    /\ closed = {}

\* A frame is sent on several channels at a time.
Send(C, f) ==
    /\ sent' = [c \in Channels |-> IF c \in C THEN Append(sent[c], f) ELSE sent[c]]
    /\ UNCHANGED <<received, closed>>

\* What was received is what was sent, up to the n-th frame.
Receive(c, n) ==
    /\ n > Len(received[c])
    /\ received' = [received EXCEPT ![c] = SubSeq(sent[c], 1, n)]
    /\ UNCHANGED <<sent, closed>>

Close(C) ==
    /\ closed' = closed \cup C
    /\ UNCHANGED <<sent, received>>

Next ==
    \/ \E C \in SUBSET Channels, f \in Frames : Send(C, f)
    \/ \E c \in Channels : \E n \in 1 .. Len(sent[c]) : Receive(c, n)
    \/ \E C \in SUBSET Channels : Close(C)

Delivery(c) == c \notin closed /\ \E n \in 1 .. Len(sent[c]) : Receive(c, n)

Spec == Init /\ [][Next]_vars /\ \A c \in Channels : WF_vars(Delivery(c))

=============================================================================
