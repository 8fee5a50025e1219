----------------------------- MODULE AckManager -----------------------------
(***************************************************************************)
(* AckManager (transport/ack_manager.cpp): the table of reliable messages  *)
(* that await an ACK, its 30 ms timer, exponential backoff and the ring of *)
(* dead letters.                                                           *)
(*                                                                         *)
(* A deadline is kept as the time that is left until it, deadline_ms minus *)
(* nowMs(), so that time may pass for ever in a finite state space.  The   *)
(* wall clock the code reads (QDateTime) may be set while messages wait.   *)
(***************************************************************************)
EXTENDS Integers, Sequences, FiniteSets, SequencesExt

CONSTANTS
    Keys,       \* "msg_id:receiver_id": the keys that are ever tracked
    Configs,    \* qos.reliable settings in force when a key is tracked
    DeadCap,    \* capacity of the dead-letter ring (128 in the code)
    MaxAcks,    \* bound: ACKs received
    MaxLag,     \* bound: the event loop runs a tick this soon after a deadline
    Jumps,      \* amounts by which the wall clock may be set
    MaxJumps    \* bound: how often the wall clock is set

ASSUME KeysAssumption == IsFiniteSet(Keys)
ASSUME ConfigsAssumption ==
    Configs \subseteq [max_retries: Nat, ack_timeout: Nat, backoff: BOOLEAN]
ASSUME DeadCapAssumption == DeadCap \in Nat \ {0}
ASSUME BoundsAssumption ==
    /\ MaxAcks \in Nat
    /\ MaxLag \in Nat
    /\ Jumps \subseteq Int
    /\ MaxJumps \in Nat

VARIABLES
    pending,        \* the table: key -> what struct Pending holds
    dead_letters,   \* ring of keys given up, oldest first
    ack_count,      \* ACKs received, late and duplicated ones included
    fate,           \* history: untracked, pending, acked or failed
    config,         \* history: the settings a key was tracked with
    sent,           \* history: transmissions of a key, the first included
    age,            \* history: time a key has spent in the table
    jumped          \* history: [n, ahead, back] of the clock being set

vars == <<pending, dead_letters, ack_count, fate, config, sent, age, jumped>>

Fates   == {"untracked", "pending", "acked", "failed"}
Settled == {"acked", "failed"}

PendingRecord ==
    [retries_left: Nat, wait: Int, base: Nat, attempt: Nat, backoff: BOOLEAN]

Init ==
    /\ pending = <<>>
    /\ dead_letters = <<>>
    /\ ack_count = 0
    /\ fate = [k \in Keys |-> "untracked"]
    /\ config \in [Keys -> Configs]
    /\ sent = [k \in Keys |-> 0]
    /\ age = [k \in Keys |-> 0]
    /\ jumped = [n |-> 0, ahead |-> 0, back |-> 0]

-----------------------------------------------------------------------------
(***************************************************************************)
(* DDSCore::sendMessage sends the packet and hands it over for tracking    *)
(* under a message id it never uses again.                                 *)
(***************************************************************************)
NewPending(c) ==
    [retries_left |-> c.max_retries, wait |-> c.ack_timeout,
     base |-> c.ack_timeout, attempt |-> 0, backoff |-> c.backoff]

Track(k) ==
    /\ fate[k] = "untracked"
    /\ pending' = [j \in DOMAIN pending \cup {k} |->
                      IF j = k THEN NewPending(config[k]) ELSE pending[j]]
    /\ fate' = [fate EXCEPT ![k] = "pending"]
    /\ sent' = [sent EXCEPT ![k] = 1]
    /\ UNCHANGED <<dead_letters, ack_count, config, age, jumped>>

(***************************************************************************)
(* An ACK for a key that is not in the table, late or duplicated, removes  *)
(* nothing.                                                                *)
(***************************************************************************)
AckReceived(k) ==
    /\ ack_count < MaxAcks
    /\ ack_count' = ack_count + 1
    /\ pending' = [j \in DOMAIN pending \ {k} |-> pending[j]]
    /\ fate' = [fate EXCEPT ![k] = IF k \in DOMAIN pending THEN "acked" ELSE @]
    /\ UNCHANGED <<dead_letters, config, sent, age, jumped>>

-----------------------------------------------------------------------------
(***************************************************************************)
(* onTick: retransmit what is due and has budget, give up what is due and  *)
(* has none.  The hash table is walked in an arbitrary order, so the keys  *)
(* given up in one tick enter the ring in any order.                       *)
(***************************************************************************)
Shift(n) ==     \* 1 << qMin(n, 10)
    <<1, 2, 4, 8, 16, 32, 64, 128, 256, 512, 1024>>[IF n < 10 THEN n + 1 ELSE 11]

\* Faults: the attempt before, or the one after, sets the wait.
BackoffOfLast(p, attempt) == p.base * (IF p.backoff THEN Shift(attempt - 1) ELSE 1)
BackoffOfNext(p, attempt) == p.base * (IF p.backoff THEN Shift(attempt + 1) ELSE 1)

Backoff(p, attempt) == p.base * (IF p.backoff THEN Shift(attempt) ELSE 1)

\* Fault: the attempt is not charged to the budget.
RearmedForFree(p) ==
    [p EXCEPT !.attempt = @ + 1, !.wait = Backoff(p, p.attempt + 1)]

Rearmed(p) ==
    [p EXCEPT !.attempt = @ + 1, !.retries_left = @ - 1,
              !.wait = Backoff(p, p.attempt + 1)]

\* Fault: a tick that comes late does not see the deadline.
DueExactly == {k \in DOMAIN pending : pending[k].wait = 0}

Due == {k \in DOMAIN pending : pending[k].wait <= 0}

\* Fault: the last retransmission is not made.
SpentEarly == {k \in Due : pending[k].retries_left <= 1}

Spent == {k \in Due : pending[k].retries_left <= 0}

\* Fault: toRemove is forgotten.
AfterTickKeepsSpent ==
    [k \in DOMAIN pending |->
        IF k \in Due \ Spent THEN Rearmed(pending[k]) ELSE pending[k]]

AfterTick ==
    [k \in DOMAIN pending \ Spent |->
        IF k \in Due THEN Rearmed(pending[k]) ELSE pending[k]]

\* Faults: one entry too many is kept; the ring is emptied when it is full.
PushDeadOneOver(ring, ks) ==
    LET all == ring \o ks
    IN  IF Len(all) <= DeadCap + 1
          THEN all
          ELSE SubSeq(all, Len(all) - DeadCap, Len(all))

PushDeadCleared(ring, ks) ==
    IF Len(ring \o ks) <= DeadCap THEN ring \o ks ELSE ks

\* pop_front when full, then push_back, for each of ks.
PushDead(ring, ks) ==
    LET all == ring \o ks
    IN  IF Len(all) <= DeadCap
          THEN all
          ELSE SubSeq(all, Len(all) - DeadCap + 1, Len(all))

OnTick ==
    /\ pending' = AfterTick
    /\ \E ks \in SetToSeqs(Spent) : dead_letters' = PushDead(dead_letters, ks)
    /\ fate' = [k \in Keys |-> IF k \in Spent THEN "failed" ELSE fate[k]]
    /\ sent' = [k \in Keys |-> IF k \in Due \ Spent THEN sent[k] + 1 ELSE sent[k]]
    /\ UNCHANGED <<ack_count, config, age, jumped>>

-----------------------------------------------------------------------------
(***************************************************************************)
(* Time.  One unit passes unless a tick is overdue by MaxLag.              *)
(***************************************************************************)
Later(d) == [k \in DOMAIN pending |-> [pending[k] EXCEPT !.wait = @ - d]]

Elapse ==
    /\ \A k \in DOMAIN pending : pending[k].wait > -MaxLag
    /\ pending' = Later(1)
    /\ age' = [k \in Keys |-> IF k \in DOMAIN pending THEN age[k] + 1 ELSE age[k]]
    /\ UNCHANGED <<dead_letters, ack_count, fate, config, sent, jumped>>

(***************************************************************************)
(* The wall clock is set d units ahead, or back when d is negative.        *)
(***************************************************************************)
SetClock(d) ==
    /\ jumped.n < MaxJumps
    /\ pending' = Later(d)
    /\ jumped' = [n     |-> jumped.n + 1,
                  ahead |-> jumped.ahead + (IF d > 0 THEN d ELSE 0),
                  back  |-> jumped.back + (IF d < 0 THEN -d ELSE 0)]
    /\ UNCHANGED <<dead_letters, ack_count, fate, config, sent, age>>

Next ==
    \/ \E k \in Keys : Track(k) \/ AckReceived(k)
    \/ OnTick
    \/ Elapse
    \/ \E d \in Jumps : SetClock(d)

(***************************************************************************)
(* The QTimer keeps firing and time keeps passing; nothing is assumed of   *)
(* the receivers, the core or the clock being set.                         *)
(***************************************************************************)
Fairness == WF_vars(OnTick) /\ WF_vars(Elapse)

Spec == Init /\ [][Next]_vars /\ Fairness

-----------------------------------------------------------------------------
\* PROPERTIES

(***************************************************************************)
(* Types; the table holds exactly the keys that are neither confirmed nor  *)
(* given up, and the ring never outgrows its capacity.                     *)
(***************************************************************************)
TypeOK ==
    /\ fate \in [Keys -> Fates]
    /\ pending \in [{k \in Keys : fate[k] = "pending"} -> PendingRecord]
    /\ dead_letters \in Seq(Keys) /\ Len(dead_letters) <= DeadCap
    /\ ack_count \in Nat
    /\ config \in [Keys -> Configs]
    /\ sent \in [Keys -> Nat]
    /\ age \in [Keys -> Nat]
    /\ jumped \in [n: Nat, ahead: Nat, back: Nat]

(***************************************************************************)
(* The retry budget is neither exceeded nor cut short: nothing is sent     *)
(* more than max_retries + 1 times, and what is given up was sent exactly  *)
(* so often, however ticks, ACKs and clock changes interleave.             *)
(***************************************************************************)
RetryBudget ==
    \A k \in Keys :
        /\ sent[k] <= config[k].max_retries + 1
        /\ fate[k] = "failed" => sent[k] = config[k].max_retries + 1

(***************************************************************************)
(* The waits before n retransmissions and after the last of them, added    *)
(* up: the first timeout, then the backoff of attempts 1 to n.             *)
(***************************************************************************)
Patience(c, n) ==
    c.ack_timeout * (IF c.backoff
                       THEN 2 * Shift(n) - 1 + (IF n > 10 THEN 1024 * (n - 10) ELSE 0)
                       ELSE n + 1)

(***************************************************************************)
(* A receiver has the whole backoff schedule to answer: no message is      *)
(* given up before it, except by as much as the wall clock was set ahead.  *)
(* A jump ahead may expire every deadline at once, but never more than one *)
(* attempt of a key.                                                       *)
(***************************************************************************)
NeverGivesUpEarly ==
    \A k \in Keys : fate[k] = "failed" =>
        age[k] + jumped.ahead >= Patience(config[k], config[k].max_retries)

(***************************************************************************)
(* No message waits longer than its schedule, plus the lag of the event    *)
(* loop at each attempt, plus what the wall clock was set back.            *)
(***************************************************************************)
GivesUpInTime ==
    \A k \in Keys :
        age[k] <= Patience(config[k], config[k].max_retries)
                    + (config[k].max_retries + 1) * MaxLag + jumped.back

(***************************************************************************)
(* The dead-letter ring drops entries only when it is full, keeps each     *)
(* failure once, and holds nothing that was not given up.                  *)
(***************************************************************************)
DeadLettersComplete ==
    LET failed == {k \in Keys : fate[k] = "failed"}
    IN  /\ ToSet(dead_letters) \subseteq failed
        /\ IsInjective(dead_letters)
        /\ ToSet(dead_letters) # failed => Len(dead_letters) = DeadCap

(***************************************************************************)
(* Once a message is confirmed or given up, it is never retransmitted and  *)
(* never confirmed or given up again, whatever ACK or tick still comes.    *)
(***************************************************************************)
SettledForGood ==
    [][\A k \in Keys : fate[k] \in Settled =>
            fate'[k] = fate[k] /\ sent'[k] = sent[k]]_vars

(***************************************************************************)
(* Every tracked message is settled in the end, even when no ACK comes.    *)
(***************************************************************************)
EventuallySettled ==
    \A k \in Keys : fate[k] = "pending" ~> fate[k] \in Settled

(***************************************************************************)
(* The timed table implements the promise of RetryTable, liveness          *)
(* included: the table itself says what is pending and how many            *)
(* retransmissions are left.                                               *)
(***************************************************************************)
Abstract == INSTANCE RetryTable WITH
    Budgets <- {c.max_retries : c \in Configs},
    fate <- [k \in Keys |-> IF k \in DOMAIN pending THEN "pending" ELSE fate[k]],
    left <- [k \in Keys |-> IF k \in DOMAIN pending
                               THEN pending[k].retries_left ELSE 0]

Implements == Abstract!Spec

=============================================================================
