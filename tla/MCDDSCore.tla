----------------------------- MODULE MCDDSCore -----------------------------
(***************************************************************************)
(* Small instances of DDSCore for TLC.                                     *)
(***************************************************************************)
EXTENDS DDSCore

CONSTANTS a, b, c, t1

MCOnce == [n \in Nodes |-> 1]

MCListenersTwice == [n \in Nodes |-> IF n \in Publishers THEN 1 ELSE 2]

=============================================================================
