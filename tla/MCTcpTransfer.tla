---------------------------- MODULE MCTcpTransfer ----------------------------
(***************************************************************************)
(* TcpTransfer for TLC, and the claim of its log messages.                 *)
(***************************************************************************)
EXTENDS TcpTransfer

\* "Write timeout expired" is logged, and the socket cancelled, only when the
\* write has not been completed within its timeout.
WriteTimeoutMeansNoWrite ==
    transfer.queue # << >> /\ Head(transfer.queue) = Handler("write_timeout", "ok")
        => transfer.write_error # "ok"

================================================================================
