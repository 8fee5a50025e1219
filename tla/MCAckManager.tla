---------------------------- MODULE MCAckManager ----------------------------
(***************************************************************************)
(* A small instance of AckManager for TLC.                                 *)
(***************************************************************************)
EXTENDS AckManager

CONSTANTS k1, k2

Setting(r, t, b) == [max_retries |-> r, ack_timeout |-> t, backoff |-> b]

\* Three retries with backoff, whose waits differ from the second attempt on;
\* a fixed timeout; and no retry at all.
MCConfigs == {Setting(3, 1, TRUE), Setting(1, 2, FALSE), Setting(0, 1, TRUE)}

MCJumps == {-2, 3}

=============================================================================
