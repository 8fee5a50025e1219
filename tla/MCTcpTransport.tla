--------------------------- MODULE MCTcpTransport ---------------------------
(***************************************************************************)
(* A small instance of TcpTransport for TLC.                               *)
(***************************************************************************)
EXTENDS TcpTransport, TLC

CONSTANTS a, b, short, long

\* a connects to b.
MCconnect == a :> {b} @@ b :> {}

\* a calls start twice: in one process, with or without stop, or in two.
MCMaxStarts == a :> 2 @@ b :> 1

MCPayload == short :> 0 @@ long :> 1

=============================================================================
