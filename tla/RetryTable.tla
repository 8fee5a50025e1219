----------------------------- MODULE RetryTable -----------------------------
(***************************************************************************)
(* What the acknowledgement manager promises to the core, without clocks,  *)
(* records or buffers: a message handed to it for a receiver is settled    *)
(* exactly once, either confirmed by that receiver or given up, and it is  *)
(* given up only after its whole retry budget has been retransmitted.      *)
(*                                                                         *)
(* AckManager implements this specification (AckManager!Implements).       *)
(***************************************************************************)
EXTENDS Naturals

CONSTANTS
    Keys,       \* message id and receiver: the key of one awaited ACK
    Budgets     \* the retry limits a key may be given when it is tracked

VARIABLES
    fate,       \* untracked, pending, acked or failed, for each key
    left        \* retransmissions a key may still use

vars == <<fate, left>>

Pending == {k \in Keys : fate[k] = "pending"}

Init ==
    /\ fate = [k \in Keys |-> "untracked"]
    /\ left = [k \in Keys |-> 0]

Start(k) ==
    /\ fate[k] = "untracked"
    /\ fate' = [fate EXCEPT ![k] = "pending"]
    /\ \E b \in Budgets : left' = [left EXCEPT ![k] = b]

Confirm(k) ==
    /\ fate[k] = "pending"
    /\ fate' = [fate EXCEPT ![k] = "acked"]
    /\ left' = [left EXCEPT ![k] = 0]

(***************************************************************************)
(* One timer tick serves any set of keys that are due: those with budget   *)
(* are retransmitted, the others are given up, all in the same tick.       *)
(***************************************************************************)
Expire(due) ==
    /\ fate' = [k \in Keys |-> IF k \in due /\ left[k] = 0
                                 THEN "failed" ELSE fate[k]]
    /\ left' = [k \in Keys |-> IF k \in due /\ left[k] > 0
                                 THEN left[k] - 1 ELSE left[k]]

Next ==
    \/ \E k \in Keys : Start(k) \/ Confirm(k)
    \/ \E due \in SUBSET Pending : Expire(due)

(***************************************************************************)
(* A key that stays pending is due again and again.                        *)
(***************************************************************************)
Fairness ==
    \A k \in Keys : WF_vars(\E due \in SUBSET Pending : k \in due /\ Expire(due))

Spec == Init /\ [][Next]_vars /\ Fairness

=============================================================================
