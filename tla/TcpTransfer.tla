------------------------------ MODULE TcpTransfer ------------------------------
(***************************************************************************)
(* net::tcp::exchange and net::tcp::read (misc/tcp_transfer.hpp): one      *)
(* transfer on an event loop.  Handlers of finished operations wait in the *)
(* queue of the io_context, which runs them one at a time; a handler may   *)
(* start operations and cancel pending ones.  Cancelling cannot recall an  *)
(* operation that has finished: its handler is in the queue already.       *)
(*                                                                         *)
(* External (asio, the socket, the clock): operations finish and timers    *)
(* expire at any time; the read timer expires after the write timer, since *)
(* both run from the construction of the transfer and every read timeout   *)
(* of the program is longer than the 2 s of a write.                       *)
(***************************************************************************)
EXTENDS Integers, Sequences

CONSTANTS
    Expected  \* expected_response_length; 0 for the body of an empty message

ASSUME ExpectedAssumption == Expected \in Nat

VARIABLE transfer  \* the TcpTransfer, its timers and operations, and the queue

vars == transfer

ErrorCodes == {"ok", "aborted", "failed"}

\* A handler in the queue: of the write, a read, or a wait on a timer.
Operations == {"write", "read", "write_timeout", "read_timeout"}
Handlers == [op : Operations, ec : ErrorCodes, bytes : 0 .. Expected]
Handler(op, ec) == [op |-> op, ec |-> ec, bytes |-> 0]

Transfers ==
    [kind : {"exchange", "read"},     \* do_transfer or do_read
     returned : BOOLEAN,              \* _io.run() has returned
     write : BOOLEAN,                 \* an async_write is pending
     read : BOOLEAN,                  \* an async_read_some is pending
     write_waits : Nat,               \* waits pending on _write_timeout_timer
     read_waits : Nat,                \* waits pending on _read_timeout_timer
     write_expired : BOOLEAN,
     read_expired : BOOLEAN,
     queue : Seq(Handlers),
     write_error : ErrorCodes,
     read_error : ErrorCodes,
     bytes_read : 0 .. Expected]      \* bytes of the answer in _buffer

--------------------------------------------------------------------------------
(***************************************************************************)
(* asio, as functions of the transfer.                                     *)
(***************************************************************************)
Repeat(handler, n) == [i \in 1 .. n |-> handler]

\* Pending waits on a timer are completed, with the error code ec.
EndWriteWaits(t, ec) ==
    [t EXCEPT !.queue = @ \o Repeat(Handler("write_timeout", ec), t.write_waits),
              !.write_waits = 0]
EndReadWaits(t, ec) ==
    [t EXCEPT !.queue = @ \o Repeat(Handler("read_timeout", ec), t.read_waits),
              !.read_waits = 0]

WaitRead(t) == [t EXCEPT !.read_waits = @ + 1]

\* _socket.cancel()
SocketCancel(t) ==
    [t EXCEPT !.queue = @ \o (IF t.write THEN <<Handler("write", "aborted")>> ELSE << >>)
                          \o (IF t.read THEN <<Handler("read", "aborted")>> ELSE << >>),
              !.write = FALSE, !.read = FALSE]

CancelOnError(t, ec) == IF ec = "ok" THEN t ELSE SocketCancel(t)

--------------------------------------------------------------------------------
(***************************************************************************)
(* The handlers of TcpTransfer.                                            *)
(***************************************************************************)
\* Faulty: the timer is not waited for anew.
OnReadPartly_unarmed(t, ec) ==
    LET s == [EndReadWaits(t, "aborted") EXCEPT !.read_error = ec]
    IN  IF ec = "ok" THEN s ELSE SocketCancel(s)

\* _on_read_partly: the timer is waited for anew, its expiry stays.
OnReadPartly(t, ec) ==
    LET s == [EndReadWaits(t, "aborted") EXCEPT !.read_error = ec]
    IN  IF ec = "ok" THEN WaitRead(s) ELSE SocketCancel(s)

\* _on_read_complete
OnReadComplete(t, ec) ==
    CancelOnError([EndReadWaits(t, "aborted") EXCEPT !.read_error = ec], ec)

\* asio::async_read asks _on_read_partly before the first read.  A read of no
\* bytes does not wait for the socket: it has finished when it starts.
AsyncRead(t) ==
    IF Expected = 0
    THEN [OnReadPartly(t, "ok") EXCEPT !.queue = Append(@, Handler("read", "ok"))]
    ELSE [OnReadPartly(t, "ok") EXCEPT !.read = TRUE]

\* Faulty: counts the bytes so far twice.
OnRead_overall(t, ec, n) ==
    LET s == [t EXCEPT !.bytes_read = @ + (@ + n)]
    IN  IF s.bytes_read = Expected THEN OnReadComplete(s, ec)
        ELSE IF ec = "ok" THEN [OnReadPartly(s, ec) EXCEPT !.read = TRUE]
        ELSE OnReadComplete(OnReadPartly(s, ec), ec)

\* A read of async_read has finished: all bytes there, or an error, or go on.
OnRead(t, ec, n) ==
    LET s == [t EXCEPT !.bytes_read = @ + n]
    IN  IF s.bytes_read = Expected THEN OnReadComplete(s, ec)
        ELSE IF ec = "ok" THEN [OnReadPartly(s, ec) EXCEPT !.read = TRUE]
        ELSE OnReadComplete(OnReadPartly(s, ec), ec)

\* _on_write_complete: after the write, the answer is read.
OnWriteComplete(t, ec) ==
    LET s == [EndWriteWaits(t, "aborted") EXCEPT !.write_error = ec]
    IN  IF ec = "ok" THEN AsyncRead(WaitRead(s)) ELSE SocketCancel(s)

\* Faulty: reports the timeout itself; acts on cancelled waits.
OnTimeout_reported(t, ec) ==
    IF ec = "ok" THEN [SocketCancel(t) EXCEPT !.read_error = "aborted"] ELSE t
OnTimeout_always(t, ec) == SocketCancel(t)

\* _on_write_timeout and _on_read_timeout: a wait that was cancelled has the
\* error "aborted", a wait that was not has none.
OnTimeout(t, ec) == IF ec = "ok" THEN SocketCancel(t) ELSE t

Handled(t, h) ==
    CASE h.op = "write" -> OnWriteComplete(t, h.ec)
      [] h.op = "read"  -> OnRead(t, h.ec, h.bytes)
      [] OTHER          -> OnTimeout(t, h.ec)

--------------------------------------------------------------------------------
\* The transfer before _prepare_transfer or _prepare_read.
Blank(kind) ==
    [kind |-> kind, returned |-> FALSE, write |-> FALSE, read |-> FALSE,
     write_waits |-> 0, read_waits |-> 0, write_expired |-> FALSE,
     read_expired |-> FALSE, queue |-> << >>, write_error |-> "aborted",
     read_error |-> "aborted", bytes_read |-> 0]

PreparedTransfer == [Blank("exchange") EXCEPT !.write = TRUE, !.write_waits = 1]
PreparedRead == AsyncRead(WaitRead(Blank("read")))

\* The socket is not open: do_transfer and do_read return not_connected at once.
NotConnected(kind) ==
    [Blank(kind) EXCEPT !.returned = TRUE, !.write_error = "failed", !.read_error = "failed"]

Init ==
    \/ transfer \in {PreparedTransfer, PreparedRead}
    \/ transfer \in {NotConnected("exchange"), NotConnected("read")}

\* The event loop runs the next handler.
RunHandler ==
    /\ transfer.queue # << >>
    /\ transfer' = Handled([transfer EXCEPT !.queue = Tail(@)],
                           Head(transfer.queue))

\* The write finishes, or fails.
EndWrite(ec) ==
    /\ transfer.write
    /\ transfer' = [transfer EXCEPT !.write = FALSE,
                                    !.queue = Append(@, Handler("write", ec))]

\* A read brings n bytes more.
ReadSome(n) ==
    /\ transfer.read
    /\ n <= Expected - transfer.bytes_read
    /\ transfer' = [transfer EXCEPT !.read = FALSE,
                      !.queue = Append(@, [Handler("read", "ok") EXCEPT !.bytes = n])]

\* The connection is closed or lost.
ReadFails ==
    /\ transfer.read
    /\ transfer' = [transfer EXCEPT !.read = FALSE,
                                    !.queue = Append(@, Handler("read", "failed"))]

WriteTimerExpires ==
    /\ ~transfer.returned
    /\ ~transfer.write_expired
    /\ transfer' = [transfer EXCEPT !.write_expired = TRUE]

ReadTimerExpires ==
    /\ ~transfer.returned
    /\ transfer.write_expired
    /\ ~transfer.read_expired
    /\ transfer' = [transfer EXCEPT !.read_expired = TRUE]

\* The event loop finds that waits on an expired timer are over.
EndExpiredWaits ==
    \/ /\ transfer.write_expired
       /\ transfer.write_waits > 0
       /\ transfer' = EndWriteWaits(transfer, "ok")
    \/ /\ transfer.read_expired
       /\ transfer.read_waits > 0
       /\ transfer' = EndReadWaits(transfer, "ok")

\* _io.run() returns when there is nothing left to run or to wait for.
Return ==
    /\ ~transfer.returned
    /\ transfer.queue = << >>
    /\ ~transfer.write
    /\ ~transfer.read
    /\ transfer.write_waits + transfer.read_waits = 0
    /\ transfer' = [transfer EXCEPT !.returned = TRUE]

Returned == transfer.returned /\ UNCHANGED vars

Peer ==
    \/ \E ec \in {"ok", "failed"} : EndWrite(ec)
    \/ \E n \in 1 .. Expected : ReadSome(n)
    \/ ReadFails

Clock == WriteTimerExpires \/ ReadTimerExpires

Loop == RunHandler \/ EndExpiredWaits \/ Return

Next == Peer \/ Clock \/ Loop \/ Returned

Spec == Init /\ [][Next]_vars

\* Time passes and the event loop runs; the peer may do nothing at all.
FairSpec == Spec /\ WF_vars(Clock) /\ WF_vars(Loop)

--------------------------------------------------------------------------------
\* The transfer has its type.
TypeOK == transfer \in Transfers

\* Faulty: do_transfer does not look at the error of the read.
result_write_only ==
    IF transfer.kind = "exchange" THEN transfer.write_error ELSE transfer.read_error

\* What do_transfer and do_read return: _buffer, or an error.
result ==
    IF transfer.kind = "exchange" /\ transfer.write_error # "ok"
    THEN transfer.write_error ELSE transfer.read_error

\* A transfer that reports no error has brought every byte of the answer,
\* although _read_error is set to "no error" when the read only starts.
OkMeansComplete ==
    transfer.returned /\ result = "ok" => transfer.bytes_read = Expected

\* A complete answer, if it has any bytes, is not reported as an error: whatever
\* timeout races with the last of them comes too late.
CompleteMeansOk ==
    /\ transfer.returned
    /\ transfer.bytes_read > 0
    /\ transfer.bytes_read = Expected
    => result = "ok"

\* While a write or a read is pending, a wait on its timer is pending too, or
\* has just expired: a silent peer cannot block the event loop.
TimeoutIsArmed ==
    /\ transfer.write =>
         \/ transfer.write_waits > 0
         \/ Handler("write_timeout", "ok") \in {transfer.queue[i] : i \in DOMAIN transfer.queue}
    /\ transfer.read =>
         \/ transfer.read_waits > 0
         \/ Handler("read_timeout", "ok") \in {transfer.queue[i] : i \in DOMAIN transfer.queue}

\* Plain reads are aborted by their own timeout only: _wait_have takes this error
\* for "no message within 20 s".
AbortedReadHasExpired ==
    /\ transfer.returned
    /\ transfer.kind = "read"
    /\ result = "aborted"
    => transfer.read_expired

\* The transfer returns, whatever the peer does.
Returns == <>(transfer.returned)

================================================================================
