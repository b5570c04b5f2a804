--------------------------- MODULE TcpTransfer_proofs ---------------------------
(***************************************************************************)
(* Proofs about TcpTransfer, for an answer of any length: whatever the     *)
(* order in which the peer, the two timers and the event loop act.         *)
(***************************************************************************)
EXTENDS TcpTransfer, TLAPS

--------------------------------------------------------------------------------
(***************************************************************************)
(* The inductive invariant: a transfer has one operation on the socket at  *)
(* a time, pending or as a handler in the queue, and it is writing, or     *)
(* reading, or over.                                                       *)
(***************************************************************************)
IsIo(h) == h.op \in {"write", "read"}

\* Handler h is in queue q; no handler in q is of an operation on the socket;
\* handler h is the only one.
Has(q, h) == \E i \in 1 .. Len(q) : q[i] = h
NoIo(q) == \A i \in 1 .. Len(q) : ~IsIo(q[i])
OneIo(q, h) ==
    \E i \in 1 .. Len(q) :
        q[i] = h /\ \A j \in 1 .. Len(q) : IsIo(q[j]) => j = i

WriteTimeout == Handler("write_timeout", "ok")
ReadTimeout == Handler("read_timeout", "ok")

\* The request is being written.
Writing(t) ==
    /\ t.kind = "exchange" /\ ~t.returned /\ ~t.read /\ t.read_waits = 0
    /\ t.write_error = "aborted" /\ t.read_error = "aborted" /\ t.bytes_read = 0
    /\ \/ t.write /\ NoIo(t.queue)
       \/ ~t.write /\ \E h \in Handlers : h.op = "write" /\ OneIo(t.queue, h)

\* The answer is being read: _read_error says "no error", but bytes are missing.
Reading(t) ==
    /\ ~t.returned /\ ~t.write
    /\ t.read_error = "ok" /\ (t.kind = "exchange" => t.write_error = "ok")
    /\ \/ t.read /\ t.bytes_read < Expected /\ NoIo(t.queue)
       \/ ~t.read /\ \E h \in Handlers :
            /\ h.op = "read" /\ OneIo(t.queue, h)
            /\ h.ec # "ok" => h.bytes = 0 /\ t.bytes_read < Expected
            /\ t.bytes_read + h.bytes <= Expected

\* The error of a read says whether all bytes are there, unless none are expected.
Agrees(ec, bytes) ==
    /\ ec = "ok" => bytes = Expected
    /\ bytes > 0 /\ bytes = Expected => ec = "ok"

\* The transfer has failed before it read, or the read is complete exactly if it has
\* no error; only timers are left.
Over(t) ==
    /\ ~t.write /\ ~t.read /\ NoIo(t.queue)
    /\ IF t.kind = "exchange" /\ t.write_error # "ok"
       THEN t.bytes_read = 0
       ELSE Agrees(t.read_error, t.bytes_read)

\* The timer of a pending operation is waited for, or has expired.
Armed(t) ==
    /\ t.write => t.write_waits > 0 \/ Has(t.queue, WriteTimeout)
    /\ t.read => t.read_waits > 0 \/ Has(t.queue, ReadTimeout)

\* The handlers a plain read can have: its read timer is the only one, and only
\* its expiry cancels the read.
OwnHandler(t, h) ==
    /\ h.op # "write_timeout"
    /\ h.op = "read_timeout" /\ h.ec = "ok" => t.read_expired
    /\ h.op = "read" /\ h.ec = "aborted" => t.read_expired
OwnTimer(t) ==
    t.kind = "read" =>
        /\ t.write_waits = 0
        /\ \A i \in 1 .. Len(t.queue) : OwnHandler(t, t.queue[i])
OwnAbort(t) == t.kind = "read" /\ t.read_error = "aborted" => t.read_expired

Sound(t) ==
    /\ t \in Transfers
    /\ Writing(t) \/ Reading(t) \/ Over(t)
    /\ Armed(t)
    /\ OwnTimer(t)
    /\ OwnAbort(t)
TransferInv == Sound(transfer)

--------------------------------------------------------------------------------
(***************************************************************************)
(* The queue of the event loop.                                            *)
(***************************************************************************)
\* A handler joins the queue (an operation has finished or was cancelled).
LEMMA QueueAppend ==
    ASSUME NEW q \in Seq(Handlers), NEW h \in Handlers
    PROVE  /\ Append(q, h) \in Seq(Handlers)
           /\ NoIo(q) /\ ~IsIo(h) => NoIo(Append(q, h))
           /\ NoIo(q) => OneIo(Append(q, h), h)
           /\ \A g : OneIo(q, g) /\ ~IsIo(h) => OneIo(Append(q, h), g)
           /\ \A g : Has(q, g) => Has(Append(q, h), g)
           /\ Has(Append(q, h), h)
<1> DEFINE a == Append(q, h)
<1>1. /\ a \in Seq(Handlers) /\ Len(a) = Len(q) + 1 /\ Len(q) \in Nat
      /\ a[Len(a)] = h /\ \A i \in 1 .. Len(q) : a[i] = q[i]
  OBVIOUS
<1>2. \A i \in 1 .. Len(a) : i \in 1 .. Len(q) \/ i = Len(a)
  BY <1>1
<1>3. 1 .. Len(q) \subseteq 1 .. Len(a) /\ Len(a) \in 1 .. Len(a)
  BY <1>1
<1> HIDE DEF a
<1>4. NoIo(q) /\ ~IsIo(h) => NoIo(a)
  BY <1>1, <1>2 DEF NoIo
<1>5. NoIo(q) => OneIo(a, h)
  BY <1>1, <1>2, <1>3 DEF NoIo, OneIo
<1>6. \A g : OneIo(q, g) /\ ~IsIo(h) => OneIo(a, g)
  BY <1>1, <1>2, <1>3 DEF OneIo
<1>7. (\A g : Has(q, g) => Has(a, g)) /\ Has(a, h)
  BY <1>1, <1>3 DEF Has
<1> QED
  BY <1>1, <1>4, <1>5, <1>6, <1>7 DEF a

\* The event loop takes the first handler.
LEMMA QueueTail ==
    ASSUME NEW q \in Seq(Handlers), q # << >>
    PROVE  /\ Head(q) \in Handlers /\ Tail(q) \in Seq(Handlers)
           /\ NoIo(q) => ~IsIo(Head(q)) /\ NoIo(Tail(q))
           /\ \A g : OneIo(q, g) /\ IsIo(Head(q)) => g = Head(q) /\ NoIo(Tail(q))
           /\ \A g : OneIo(q, g) /\ ~IsIo(Head(q)) => OneIo(Tail(q), g) \/ ~IsIo(g)
           /\ \A g : Has(q, g) => Has(Tail(q), g) \/ Head(q) = g
           /\ \A i \in 1 .. Len(Tail(q)) : \E j \in 1 .. Len(q) : Tail(q)[i] = q[j]
           /\ \E j \in 1 .. Len(q) : Head(q) = q[j]
<1> DEFINE t == Tail(q)
<1>1. /\ t \in Seq(Handlers) /\ Len(t) = Len(q) - 1 /\ Len(q) \in Nat \ {0}
      /\ Head(q) = q[1] /\ \A i \in 1 .. Len(t) : t[i] = q[i + 1]
  OBVIOUS
<1>2. \A i \in 1 .. Len(t) : i + 1 \in 1 .. Len(q) /\ i + 1 # 1
  BY <1>1
<1>3. \A i \in 1 .. Len(q) : i = 1 \/ (i - 1 \in 1 .. Len(t) /\ q[i] = t[i - 1])
  BY <1>1
<1>4. 1 \in 1 .. Len(q)
  BY <1>1
<1>5. Head(q) \in Handlers
  BY <1>1, <1>4
<1> HIDE DEF t
<1>6. NoIo(q) => ~IsIo(Head(q)) /\ NoIo(t)
  BY <1>1, <1>2, <1>4 DEF NoIo
<1>7. \A g : OneIo(q, g) /\ IsIo(Head(q)) => g = Head(q) /\ NoIo(t)
  BY <1>1, <1>2, <1>4 DEF NoIo, OneIo
<1>8. \A g : OneIo(q, g) /\ ~IsIo(Head(q)) => OneIo(t, g) \/ ~IsIo(g)
  <2> SUFFICES ASSUME NEW g, NEW i \in 1 .. Len(q), q[i] = g, IsIo(g), ~IsIo(Head(q)),
                      \A j \in 1 .. Len(q) : IsIo(q[j]) => j = i
               PROVE  OneIo(t, g)
    BY DEF OneIo
  <2>1. i - 1 \in 1 .. Len(t) /\ t[i - 1] = g
    BY <1>1, <1>3
  <2>2. \A j \in 1 .. Len(t) : IsIo(t[j]) => j = i - 1
    BY <1>1, <1>2
  <2> QED
    BY <2>1, <2>2 DEF OneIo
<1>9. \A g : Has(q, g) => Has(t, g) \/ Head(q) = g
  BY <1>1, <1>3 DEF Has
<1>10. \A i \in 1 .. Len(t) : \E j \in 1 .. Len(q) : t[i] = q[j]
  BY <1>1, <1>2
<1> QED
  BY <1>1, <1>4, <1>5, <1>6, <1>7, <1>8, <1>9, <1>10 DEF t

\* The waits on a timer end: their handlers join the queue.
LEMMA QueueWaits ==
    ASSUME NEW q \in Seq(Handlers), NEW h \in Handlers, ~IsIo(h), NEW n \in Nat
    PROVE  LET a == q \o Repeat(h, n)
           IN  /\ a \in Seq(Handlers)
               /\ NoIo(q) => NoIo(a)
               /\ \A g : OneIo(q, g) => OneIo(a, g)
               /\ \A g : Has(q, g) => Has(a, g)
               /\ n > 0 => Has(a, h)
               /\ \A i \in 1 .. Len(a) :
                    (\E j \in 1 .. Len(q) : a[i] = q[j]) \/ (n > 0 /\ a[i] = h)
<1> DEFINE w == Repeat(h, n)
           a == q \o w
<1>1. w \in Seq(Handlers) /\ Len(w) = n /\ \A i \in 1 .. n : w[i] = h
  BY DEF Repeat
<1> HIDE DEF w
<1>2. /\ a \in Seq(Handlers) /\ Len(a) = Len(q) + n /\ Len(q) \in Nat
      /\ \A i \in 1 .. Len(q) : a[i] = q[i]
      /\ \A i \in 1 .. Len(a) : i \notin 1 .. Len(q) => i - Len(q) \in 1 .. n /\ a[i] = w[i - Len(q)]
  BY <1>1
<1> HIDE DEF a
<1>3. \A i \in 1 .. Len(a) : (i \in 1 .. Len(q) /\ a[i] = q[i]) \/ (n > 0 /\ a[i] = h)
  <2> SUFFICES ASSUME NEW i \in 1 .. Len(a), i \notin 1 .. Len(q) PROVE n > 0 /\ a[i] = h
    BY <1>2
  <2>1. i - Len(q) \in 1 .. n /\ a[i] = w[i - Len(q)]
    BY <1>2
  <2> QED
    BY <1>1, <2>1
<1>4. 1 .. Len(q) \subseteq 1 .. Len(a) /\ (n > 0 => Len(a) \in 1 .. Len(a) /\ Len(a) \notin 1 .. Len(q))
  BY <1>2
<1>5. NoIo(q) => NoIo(a)
  BY <1>3 DEF NoIo
<1>6. \A g : OneIo(q, g) => OneIo(a, g)
  <2> SUFFICES ASSUME NEW g, NEW i \in 1 .. Len(q), q[i] = g,
                      \A j \in 1 .. Len(q) : IsIo(q[j]) => j = i
               PROVE  OneIo(a, g)
    BY DEF OneIo
  <2>1. i \in 1 .. Len(a) /\ a[i] = g
    BY <1>2, <1>4
  <2>2. \A j \in 1 .. Len(a) : IsIo(a[j]) => j = i
    BY <1>2, <1>3
  <2> QED
    BY <2>1, <2>2 DEF OneIo
<1>7. \A g : Has(q, g) => Has(a, g)
  BY <1>2, <1>4 DEF Has
<1>8. n > 0 => Has(a, h)
  BY <1>3, <1>4 DEF Has
<1> QED
  BY <1>2, <1>3, <1>5, <1>6, <1>7, <1>8 DEF a, w

--------------------------------------------------------------------------------
(***************************************************************************)
(* What asio does to a transfer.                                           *)
(***************************************************************************)
\* Handlers are handlers.
LEMMA HandlerType ==
    ASSUME NEW op \in Operations, NEW ec \in ErrorCodes
    PROVE  /\ Handler(op, ec) \in Handlers
           /\ Handler(op, ec).op = op /\ Handler(op, ec).ec = ec /\ Handler(op, ec).bytes = 0
  BY ExpectedAssumption DEF Handler, Handlers

\* The waits on the write timer end, by its expiry or by a cancel: their handlers
\* join the queue, and nothing else changes.
LEMMA WriteWaitsEnd ==
    ASSUME NEW t \in Transfers, NEW ec \in ErrorCodes
    PROVE  LET r == EndWriteWaits(t, ec)
           IN  /\ r = [t EXCEPT !.queue = r.queue, !.write_waits = 0]
               /\ r \in Transfers
               /\ NoIo(t.queue) => NoIo(r.queue)
               /\ \A g : OneIo(t.queue, g) => OneIo(r.queue, g)
               /\ \A g : Has(t.queue, g) => Has(r.queue, g)
               /\ t.write_waits > 0 => Has(r.queue, Handler("write_timeout", ec))
               /\ OwnTimer(t) => OwnTimer(r)
<1> DEFINE h == Handler("write_timeout", ec)
           a == t.queue \o Repeat(h, t.write_waits)
           r == EndWriteWaits(t, ec)
<1>1. h \in Handlers /\ ~IsIo(h)
  BY HandlerType DEF Operations, IsIo
<1>2. t.queue \in Seq(Handlers) /\ t.write_waits \in Nat
  BY DEF Transfers
<1> HIDE DEF h
<1>3. /\ a \in Seq(Handlers)
      /\ NoIo(t.queue) => NoIo(a)
      /\ \A g : OneIo(t.queue, g) => OneIo(a, g)
      /\ \A g : Has(t.queue, g) => Has(a, g)
      /\ t.write_waits > 0 => Has(a, h)
      /\ \A i \in 1 .. Len(a) :
           (\E j \in 1 .. Len(t.queue) : a[i] = t.queue[j]) \/ (t.write_waits > 0 /\ a[i] = h)
  BY <1>1, <1>2, QueueWaits
<1>4. r = [t EXCEPT !.queue = a, !.write_waits = 0]
  BY DEF EndWriteWaits, h
<1> HIDE DEF a, r
<1>5. r \in Transfers /\ r.queue = a
  BY <1>3, <1>4 DEF Transfers
<1>6. OwnTimer(t) => OwnTimer(r)
  <2> SUFFICES ASSUME OwnTimer(t), t.kind = "read" PROVE OwnTimer(r)
    BY <1>4 DEF Transfers, OwnTimer
  <2>1. t.write_waits = 0 /\ r.write_waits = 0 /\ r.read_expired = t.read_expired
    BY <1>4 DEF OwnTimer, Transfers
  <2> QED
    BY <1>3, <1>5, <2>1 DEF OwnTimer, OwnHandler
<1> QED
  BY <1>3, <1>4, <1>5, <1>6 DEF r, h

\* The same for the read timer.
LEMMA ReadWaitsEnd ==
    ASSUME NEW t \in Transfers, NEW ec \in ErrorCodes
    PROVE  LET r == EndReadWaits(t, ec)
           IN  /\ r = [t EXCEPT !.queue = r.queue, !.read_waits = 0]
               /\ r \in Transfers
               /\ NoIo(t.queue) => NoIo(r.queue)
               /\ \A g : OneIo(t.queue, g) => OneIo(r.queue, g)
               /\ \A g : Has(t.queue, g) => Has(r.queue, g)
               /\ t.read_waits > 0 => Has(r.queue, Handler("read_timeout", ec))
               /\ OwnTimer(t) /\ (ec = "ok" => t.read_expired) => OwnTimer(r)
<1> DEFINE h == Handler("read_timeout", ec)
           a == t.queue \o Repeat(h, t.read_waits)
           r == EndReadWaits(t, ec)
<1>1. h \in Handlers /\ ~IsIo(h) /\ h.op = "read_timeout" /\ h.ec = ec
  BY HandlerType DEF Operations, IsIo
<1>2. t.queue \in Seq(Handlers) /\ t.read_waits \in Nat
  BY DEF Transfers
<1> HIDE DEF h
<1>3. /\ a \in Seq(Handlers)
      /\ NoIo(t.queue) => NoIo(a)
      /\ \A g : OneIo(t.queue, g) => OneIo(a, g)
      /\ \A g : Has(t.queue, g) => Has(a, g)
      /\ t.read_waits > 0 => Has(a, h)
      /\ \A i \in 1 .. Len(a) :
           (\E j \in 1 .. Len(t.queue) : a[i] = t.queue[j]) \/ (t.read_waits > 0 /\ a[i] = h)
  BY <1>1, <1>2, QueueWaits
<1>4. r = [t EXCEPT !.queue = a, !.read_waits = 0]
  BY DEF EndReadWaits, h
<1> HIDE DEF a, r
<1>5. r \in Transfers /\ r.queue = a
  BY <1>3, <1>4 DEF Transfers
<1>6. OwnTimer(t) /\ (ec = "ok" => t.read_expired) => OwnTimer(r)
  <2> SUFFICES ASSUME OwnTimer(t), ec = "ok" => t.read_expired, t.kind = "read"
               PROVE  OwnTimer(r)
    BY <1>4 DEF Transfers, OwnTimer
  <2>1. t.write_waits = 0 /\ r.write_waits = 0 /\ r.read_expired = t.read_expired
    BY <1>4 DEF OwnTimer, Transfers
  <2> QED
    BY <1>1, <1>3, <1>5, <2>1 DEF OwnTimer, OwnHandler
<1> QED
  BY <1>3, <1>4, <1>5, <1>6 DEF r, h

\* Cancelling the socket moves the pending operation, if there is one, to the
\* queue.
LEMMA CancelIs ==
    ASSUME NEW t \in Transfers
    PROVE  /\ ~t.write /\ ~t.read => SocketCancel(t) = t
           /\ t.write /\ ~t.read =>
                SocketCancel(t) = [t EXCEPT !.queue = Append(@, Handler("write", "aborted")),
                                            !.write = FALSE]
           /\ ~t.write /\ t.read =>
                SocketCancel(t) = [t EXCEPT !.queue = Append(@, Handler("read", "aborted")),
                                            !.read = FALSE]
<1>1. t.queue \in Seq(Handlers) /\ t.write \in BOOLEAN /\ t.read \in BOOLEAN
  BY DEF Transfers
<1>2. /\ Handler("write", "aborted") \in Handlers
      /\ Handler("read", "aborted") \in Handlers
  BY HandlerType DEF Operations, ErrorCodes
<1>3. \A q \in Seq(Handlers), h \in Handlers :
        /\ q \o << >> \o << >> = q
        /\ q \o <<h>> \o << >> = Append(q, h)
        /\ q \o << >> \o <<h>> = Append(q, h)
  OBVIOUS
<1>4. CASE ~t.write /\ ~t.read
  <2>1. SocketCancel(t) = [t EXCEPT !.queue = t.queue, !.write = FALSE, !.read = FALSE]
    BY <1>1, <1>3, <1>4 DEF SocketCancel
  <2>2. t.write = FALSE /\ t.read = FALSE
    BY <1>1, <1>4
  <2>3. t = [t EXCEPT !.queue = t.queue, !.write = t.write, !.read = t.read]
    BY DEF Transfers
  <2> QED
    BY <2>1, <2>2, <2>3
<1>5. CASE t.write /\ ~t.read
  BY <1>1, <1>2, <1>3, <1>5 DEF SocketCancel, Transfers
<1>6. CASE ~t.write /\ t.read
  BY <1>1, <1>2, <1>3, <1>6 DEF SocketCancel, Transfers
<1> QED
  BY <1>4, <1>5, <1>6

\* A timeout that has expired cancels the socket: the pending operation ends.
LEMMA CancelSound ==
    ASSUME NEW t \in Transfers, Writing(t) \/ Reading(t) \/ Over(t),
           OwnTimer(t), OwnAbort(t), t.kind = "read" => t.read_expired
    PROVE  Sound(SocketCancel(t))
<1> DEFINE r == SocketCancel(t)
<1>0. t.queue \in Seq(Handlers) /\ t.write \in BOOLEAN /\ t.read \in BOOLEAN
  BY DEF Transfers
<1>1. CASE ~t.write /\ ~t.read
  <2>1. r = t
    BY <1>1, CancelIs
  <2> QED
    BY <1>1, <2>1 DEF Sound, Armed
<1>2. CASE t.write
  <2> DEFINE h == Handler("write", "aborted")
  <2>1. Writing(t) /\ ~t.read /\ NoIo(t.queue) /\ t.kind = "exchange"
    BY <1>2 DEF Writing, Reading, Over
  <2>2. h \in Handlers /\ h.op = "write"
    BY HandlerType DEF Operations, ErrorCodes
  <2>3. Append(t.queue, h) \in Seq(Handlers) /\ OneIo(Append(t.queue, h), h)
    BY <1>0, <2>1, <2>2, QueueAppend
  <2>4. r = [t EXCEPT !.queue = Append(t.queue, h), !.write = FALSE]
    BY <1>2, <2>1, CancelIs
  <2> HIDE DEF h, r
  <2>5. r \in Transfers /\ ~r.write /\ ~r.read /\ r.kind = "exchange"
    BY <2>1, <2>3, <2>4 DEF Transfers
  <2>6. Writing(r)
    BY <2>1, <2>2, <2>3, <2>4 DEF Writing, Transfers
  <2> QED
    BY <2>5, <2>6 DEF Sound, Armed, OwnTimer, OwnAbort, r
<1>3. CASE t.read
  <2> DEFINE h == Handler("read", "aborted")
  <2>1. Reading(t) /\ ~t.write /\ NoIo(t.queue) /\ t.bytes_read < Expected
    BY <1>3 DEF Writing, Reading, Over
  <2>2. h \in Handlers /\ h.op = "read" /\ h.ec = "aborted" /\ h.bytes = 0
    BY HandlerType DEF Operations, ErrorCodes
  <2> HIDE DEF h
  <2>3. /\ Append(t.queue, h) \in Seq(Handlers) /\ OneIo(Append(t.queue, h), h)
        /\ \A i \in 1 .. Len(Append(t.queue, h)) :
             Append(t.queue, h)[i] = h \/ \E j \in 1 .. Len(t.queue) :
                                             Append(t.queue, h)[i] = t.queue[j]
    BY <1>0, <2>1, <2>2, QueueAppend
  <2>4. r = [t EXCEPT !.queue = Append(t.queue, h), !.read = FALSE]
    BY <1>3, <2>1, CancelIs DEF h
  <2> HIDE DEF r
  <2>5. r \in Transfers /\ ~r.write /\ ~r.read /\ r.queue = Append(t.queue, h)
    BY <2>1, <2>3, <2>4 DEF Transfers
  <2>6. Reading(r)
    <3>1. t.bytes_read + h.bytes <= Expected
      BY <2>2, ExpectedAssumption DEF Transfers
    <3> QED
      BY <2>1, <2>2, <2>3, <2>4, <2>5, <3>1 DEF Reading, Transfers
  <2>7. OwnTimer(r)
    <3> SUFFICES ASSUME t.kind = "read" PROVE OwnTimer(r)
      BY <2>4 DEF Transfers, OwnTimer
    <3>1. r.read_expired /\ t.read_expired /\ r.write_waits = 0
      BY <2>4 DEF Transfers, OwnTimer
    <3> QED
      BY <2>2, <2>3, <2>5, <3>1 DEF OwnTimer, OwnHandler
  <2>8. OwnAbort(r)
    BY <2>4 DEF OwnAbort, Transfers
  <2> QED
    BY <2>5, <2>6, <2>7, <2>8 DEF Sound, Armed, r
<1> QED
  BY <1>0, <1>1, <1>2, <1>3

\* A read of async_read starts, and its timer is waited for; a read of no bytes
\* has ended then.
LEMMA ReadStarts ==
    ASSUME NEW t \in Transfers, ~t.returned, ~t.write, ~t.read, NoIo(t.queue), OwnTimer(t),
           t.bytes_read < Expected \/ Expected = 0,
           t.kind = "exchange" => t.write_error = "ok"
    PROVE  Sound(AsyncRead(t))
<1> DEFINE e == EndReadWaits(t, "aborted")
           p == OnReadPartly(t, "ok")
           h == Handler("read", "ok")
<1>1. /\ e = [t EXCEPT !.queue = e.queue, !.read_waits = 0]
      /\ e \in Transfers /\ NoIo(e.queue) /\ OwnTimer(e)
  BY ReadWaitsEnd DEF ErrorCodes
<1>2. p = [e EXCEPT !.read_error = "ok", !.read_waits = 1]
  <2>1. p = WaitRead([e EXCEPT !.read_error = "ok"])
    BY DEF OnReadPartly
  <2>2. e.read_waits = 0
    BY <1>1 DEF Transfers
  <2> HIDE DEF e, p
  <2>3. WaitRead([e EXCEPT !.read_error = "ok"])
          = [[e EXCEPT !.read_error = "ok"] EXCEPT !.read_waits = e.read_waits + 1]
    BY <1>1 DEF WaitRead, Transfers
  <2>4. e.read_waits + 1 = 1
    BY <2>2
  <2> QED
    BY <1>1, <2>1, <2>3, <2>4 DEF Transfers
<1> HIDE DEF e, p
<1>3. /\ p \in Transfers /\ ~p.returned /\ ~p.write /\ ~p.read /\ NoIo(p.queue)
      /\ p.bytes_read = t.bytes_read
      /\ p.read_error = "ok" /\ (p.kind = "exchange" => p.write_error = "ok")
      /\ p.read_waits = 1 /\ p.kind = e.kind /\ p.queue = e.queue
      /\ p.write_waits = e.write_waits /\ p.read_expired = e.read_expired
  BY <1>1, <1>2 DEF Transfers, ErrorCodes
<1>4. OwnTimer(p)
  BY <1>1, <1>3 DEF OwnTimer, OwnHandler
<1>5. CASE Expected # 0
  <2> DEFINE r == [p EXCEPT !.read = TRUE]
  <2>1. AsyncRead(t) = r
    BY <1>5 DEF AsyncRead, p
  <2>2. /\ r \in Transfers /\ ~r.returned /\ ~r.write /\ r.read /\ NoIo(r.queue)
        /\ r.bytes_read < Expected
        /\ r.read_error = "ok" /\ (r.kind = "exchange" => r.write_error = "ok")
        /\ r.read_waits = 1 /\ r.kind = p.kind /\ r.queue = p.queue
        /\ r.write_waits = p.write_waits /\ r.read_expired = p.read_expired
    BY <1>3, <1>5 DEF Transfers
  <2> HIDE DEF r
  <2>3. OwnTimer(r)
    BY <1>4, <2>2 DEF OwnTimer, OwnHandler
  <2> QED
    BY <2>1, <2>2, <2>3 DEF Sound, Reading, Armed, OwnAbort
<1>6. CASE Expected = 0
  <2> DEFINE r == [p EXCEPT !.queue = Append(p.queue, h)]
  <2>1. AsyncRead(t) = r
    BY <1>6 DEF AsyncRead, p, h
  <2>2. h \in Handlers /\ h.op = "read" /\ h.ec = "ok" /\ h.bytes = 0
    BY HandlerType DEF Operations, ErrorCodes
  <2>3. p.queue \in Seq(Handlers)
    BY <1>3 DEF Transfers
  <2> HIDE DEF h
  <2>4. /\ Append(p.queue, h) \in Seq(Handlers) /\ OneIo(Append(p.queue, h), h)
        /\ \A i \in 1 .. Len(Append(p.queue, h)) :
             Append(p.queue, h)[i] = h \/ \E j \in 1 .. Len(p.queue) :
                                             Append(p.queue, h)[i] = p.queue[j]
    BY <1>3, <2>2, <2>3, QueueAppend
  <2>5. /\ r \in Transfers /\ ~r.returned /\ ~r.write /\ ~r.read
        /\ r.bytes_read = p.bytes_read /\ r.queue = Append(p.queue, h)
        /\ r.read_error = "ok" /\ (r.kind = "exchange" => r.write_error = "ok")
        /\ r.kind = p.kind /\ r.write_waits = p.write_waits
        /\ r.read_expired = p.read_expired
    BY <1>3, <2>4 DEF Transfers
  <2> HIDE DEF r
  <2>6. r.bytes_read + h.bytes <= Expected
    BY <1>6, <2>2, <2>5 DEF Transfers
  <2>7. OwnTimer(r)
    BY <1>4, <2>2, <2>4, <2>5 DEF OwnTimer, OwnHandler
  <2> QED
    BY <2>1, <2>2, <2>4, <2>5, <2>6, <2>7 DEF Sound, Reading, Armed, OwnAbort
<1> QED
  BY <1>5, <1>6

\* The read is complete, or has failed: nothing is left but waits on timers.
LEMMA ReadEnds ==
    ASSUME NEW t \in Transfers, ~t.write, ~t.read, NoIo(t.queue), OwnTimer(t),
           NEW ec \in ErrorCodes, Agrees(ec, t.bytes_read),
           t.kind = "exchange" => t.write_error = "ok",
           t.kind = "read" /\ ec = "aborted" => t.read_expired
    PROVE  Sound(OnReadComplete(t, ec))
<1> DEFINE e == EndReadWaits(t, "aborted")
           s == [e EXCEPT !.read_error = ec]
<1>1. /\ e = [t EXCEPT !.queue = e.queue, !.read_waits = 0]
      /\ e \in Transfers /\ NoIo(e.queue) /\ OwnTimer(e)
  BY ReadWaitsEnd DEF ErrorCodes
<1> HIDE DEF e
<1>2. s \in Transfers /\ ~s.write /\ ~s.read /\ s.read_error = ec
      /\ s.kind = t.kind /\ s.write_error = t.write_error /\ s.bytes_read = t.bytes_read
      /\ s.queue = e.queue /\ s.kind = e.kind /\ s.write_waits = e.write_waits
      /\ s.read_expired = e.read_expired /\ s.read_expired = t.read_expired
  BY <1>1 DEF Transfers
<1> HIDE DEF s
<1>3. OnReadComplete(t, ec) = s
  BY <1>2, CancelIs DEF OnReadComplete, CancelOnError, e, s
<1> QED
  BY <1>1, <1>2, <1>3 DEF Sound, Over, Armed, OwnTimer, OwnHandler, OwnAbort

--------------------------------------------------------------------------------
(***************************************************************************)
(* The handlers, run by the event loop.                                    *)
(***************************************************************************)
\* The write has ended: the answer is read next, or the transfer is over.
LEMMA WriteCompleteSound ==
    ASSUME NEW t \in Transfers, t.kind = "exchange", ~t.returned, ~t.write, ~t.read,
           t.bytes_read = 0, NoIo(t.queue), NEW ec \in ErrorCodes
    PROVE  Sound(OnWriteComplete(t, ec))
<1> DEFINE w == EndWriteWaits(t, "aborted")
           e == [w EXCEPT !.write_error = ec]
<1>1. /\ w = [t EXCEPT !.queue = w.queue, !.write_waits = 0]
      /\ w \in Transfers /\ NoIo(w.queue)
  BY WriteWaitsEnd DEF ErrorCodes
<1> HIDE DEF w
<1>2. /\ e \in Transfers /\ e.kind = "exchange" /\ ~e.returned /\ ~e.write /\ ~e.read
      /\ e.bytes_read = 0 /\ NoIo(e.queue) /\ e.write_error = ec
  BY <1>1 DEF Transfers
<1> HIDE DEF e
<1>3. CASE ec = "ok"
  <2> DEFINE r == WaitRead(e)
  <2>1. /\ r \in Transfers /\ r.kind = "exchange" /\ ~r.returned /\ ~r.write /\ ~r.read
        /\ r.bytes_read = 0 /\ NoIo(r.queue) /\ r.write_error = "ok"
    <3>1. /\ e \in Transfers /\ e.read_waits + 1 \in Nat
          /\ WaitRead(e) = [e EXCEPT !.read_waits = e.read_waits + 1]
      BY <1>2 DEF WaitRead, Transfers
    <3>2. /\ r \in Transfers /\ r.kind = e.kind /\ r.returned = e.returned
          /\ r.write = e.write /\ r.read = e.read /\ r.bytes_read = e.bytes_read
          /\ r.queue = e.queue /\ r.write_error = e.write_error
      BY <3>1 DEF Transfers
    <3> QED
      BY <1>2, <1>3, <3>2
  <2>2. OnWriteComplete(t, ec) = AsyncRead(r)
    BY <1>3 DEF OnWriteComplete, e, w
  <2> HIDE DEF r
  <2>3. OwnTimer(r) /\ (r.bytes_read < Expected \/ Expected = 0)
    BY <2>1, ExpectedAssumption DEF OwnTimer
  <2> QED
    BY <2>1, <2>2, <2>3, ReadStarts
<1>4. CASE ec # "ok"
  <2>1. SocketCancel(e) = e
    BY <1>2, CancelIs
  <2>2. OnWriteComplete(t, ec) = SocketCancel(e)
    BY <1>4 DEF OnWriteComplete, e, w
  <2> QED
    BY <1>2, <1>4, <2>1, <2>2 DEF Sound, Over, Armed, OwnTimer, OwnAbort
<1> QED
  BY <1>3, <1>4

\* A read has ended: the next one starts, or the transfer is over.
LEMMA ReadSound ==
    ASSUME NEW t \in Transfers, ~t.returned, ~t.write, ~t.read, NoIo(t.queue), OwnTimer(t),
           t.kind = "exchange" => t.write_error = "ok",
           NEW ec \in ErrorCodes, NEW n \in 0 .. Expected,
           ec # "ok" => n = 0 /\ t.bytes_read < Expected, t.bytes_read + n <= Expected,
           t.kind = "read" /\ ec = "aborted" => t.read_expired
    PROVE  Sound(OnRead(t, ec, n))
<1> DEFINE s == [t EXCEPT !.bytes_read = t.bytes_read + n]
<1>1. /\ s \in Transfers /\ s.bytes_read = t.bytes_read + n
      /\ ~s.returned /\ ~s.write /\ ~s.read /\ NoIo(s.queue)
      /\ s.kind = t.kind /\ s.write_error = t.write_error /\ s.read_expired = t.read_expired
      /\ s.queue = t.queue /\ s.write_waits = t.write_waits
  BY DEF Transfers
<1>2. OwnTimer(s)
  BY <1>1 DEF OwnTimer, OwnHandler
<1>3. OnRead(t, ec, n) =
        IF s.bytes_read = Expected THEN OnReadComplete(s, ec)
        ELSE IF ec = "ok" THEN AsyncRead(s)
        ELSE OnReadComplete(OnReadPartly(s, ec), ec)
  <2>1. s.bytes_read # Expected => Expected # 0
    BY <1>1, ExpectedAssumption DEF Transfers
  <2> HIDE DEF s
  <2>2. s.bytes_read # Expected => AsyncRead(s) = [OnReadPartly(s, "ok") EXCEPT !.read = TRUE]
    BY <2>1 DEF AsyncRead
  <2> QED
    BY <2>2 DEF OnRead, s
<1> HIDE DEF s
<1>4. CASE s.bytes_read = Expected
  <2>1. ec = "ok"
    BY <1>1, <1>4, ExpectedAssumption DEF Transfers
  <2>2. Agrees(ec, s.bytes_read)
    BY <1>4, <2>1 DEF Agrees
  <2> QED
    BY <1>1, <1>2, <1>3, <1>4, <2>1, <2>2, ReadEnds
<1>5. CASE s.bytes_read # Expected /\ ec = "ok"
  <2>1. s.bytes_read < Expected
    BY <1>1, <1>5, ExpectedAssumption DEF Transfers
  <2> QED
    BY <1>1, <1>2, <1>3, <1>5, <2>1, ReadStarts
<1>6. CASE s.bytes_read # Expected /\ ec # "ok"
  <2> DEFINE e == EndReadWaits(s, "aborted")
             u == [e EXCEPT !.read_error = ec]
  <2>1. /\ e = [s EXCEPT !.queue = e.queue, !.read_waits = 0]
        /\ e \in Transfers /\ NoIo(e.queue) /\ OwnTimer(e)
    BY <1>1, <1>2, ReadWaitsEnd DEF ErrorCodes
  <2> HIDE DEF e
  <2>2. /\ u \in Transfers /\ ~u.write /\ ~u.read /\ NoIo(u.queue)
        /\ u.kind = s.kind /\ u.write_error = s.write_error /\ u.bytes_read = s.bytes_read
        /\ u.read_expired = s.read_expired
        /\ u.queue = e.queue /\ u.kind = e.kind /\ u.write_waits = e.write_waits
        /\ u.read_expired = e.read_expired
    BY <1>1, <2>1 DEF Transfers
  <2> HIDE DEF u
  <2>3. OnReadPartly(s, ec) = u
    BY <1>6, <2>2, CancelIs DEF OnReadPartly, e, u
  <2>4. OwnTimer(u)
    BY <2>1, <2>2 DEF OwnTimer, OwnHandler
  <2>5. Agrees(ec, u.bytes_read)
    BY <1>6, <2>2 DEF Agrees
  <2> QED
    BY <1>1, <1>3, <1>6, <2>2, <2>3, <2>4, <2>5, ReadEnds
<1> QED
  BY <1>4, <1>5, <1>6

\* The event loop runs the next handler, whichever it is.
LEMMA HandlerSound ==
    ASSUME NEW t, Sound(t), t.queue # << >>
    PROVE  Sound(Handled([t EXCEPT !.queue = Tail(@)], Head(t.queue)))
<1> DEFINE q == t.queue
           h == Head(q)
           s == [t EXCEPT !.queue = Tail(q)]
<1>0. t \in Transfers /\ q \in Seq(Handlers) /\ q # << >>
  BY DEF Sound, Transfers
<1>1. /\ h \in Handlers /\ Tail(q) \in Seq(Handlers)
      /\ NoIo(q) => ~IsIo(h) /\ NoIo(Tail(q))
      /\ \A g : OneIo(q, g) /\ IsIo(h) => g = h /\ NoIo(Tail(q))
      /\ \A g : OneIo(q, g) /\ ~IsIo(h) => OneIo(Tail(q), g) \/ ~IsIo(g)
      /\ \A g : Has(q, g) => Has(Tail(q), g) \/ h = g
      /\ \A i \in 1 .. Len(Tail(q)) : \E j \in 1 .. Len(q) : Tail(q)[i] = q[j]
      /\ \E j \in 1 .. Len(q) : h = q[j]
  BY <1>0, QueueTail
<1>2. /\ s \in Transfers /\ s.queue = Tail(q)
      /\ s.kind = t.kind /\ s.returned = t.returned /\ s.write = t.write /\ s.read = t.read
      /\ s.write_waits = t.write_waits /\ s.read_waits = t.read_waits
      /\ s.read_expired = t.read_expired /\ s.bytes_read = t.bytes_read
      /\ s.write_error = t.write_error /\ s.read_error = t.read_error
  BY <1>0, <1>1 DEF Transfers
<1>3. h.op \in Operations /\ h.ec \in ErrorCodes /\ h.bytes \in 0 .. Expected
  BY <1>1 DEF Handlers
<1>4. t.kind = "read" => OwnHandler(t, h)
  BY <1>1 DEF Sound, OwnTimer
<1> HIDE DEF s, h
<1>5. OwnTimer(s) /\ OwnAbort(s)
  BY <1>1, <1>2 DEF Sound, OwnTimer, OwnHandler, OwnAbort
<1>6. CASE h.op = "write"
  <2>1. IsIo(h)
    BY <1>6 DEF IsIo
  <2>2. Writing(t) /\ ~t.write /\ NoIo(Tail(q))
    BY <1>1, <1>6, <2>1 DEF Sound, Writing, Reading, Over
  <2> QED
    BY <1>2, <1>3, <1>6, <2>2, WriteCompleteSound DEF Handled, Writing, s, h
<1>7. CASE h.op = "read"
  <2>1. IsIo(h)
    BY <1>7 DEF IsIo
  <2>2. /\ Reading(t) /\ ~t.read /\ NoIo(Tail(q))
        /\ h.ec # "ok" => h.bytes = 0 /\ t.bytes_read < Expected
        /\ t.bytes_read + h.bytes <= Expected
    BY <1>1, <1>7, <2>1 DEF Sound, Writing, Reading, Over
  <2>3. t.kind = "read" /\ h.ec = "aborted" => t.read_expired
    BY <1>4, <1>7 DEF OwnHandler
  <2>4. Sound(OnRead(s, h.ec, h.bytes))
    BY <1>2, <1>3, <1>5, <2>2, <2>3, ReadSound DEF Reading
  <2> QED
    BY <1>7, <2>4 DEF Handled, s, h
<1>8. CASE ~IsIo(h)
  <2>1. Writing(s) \/ Reading(s) \/ Over(s)
    BY <1>1, <1>2, <1>8 DEF Sound, Writing, Reading, Over, IsIo
  <2>2. CASE h.ec = "ok"
    <3>1. t.kind = "read" => t.read_expired
      BY <1>3, <1>4, <1>8, <2>2 DEF OwnHandler, IsIo, Operations
    <3>2. Sound(SocketCancel(s))
      BY <1>2, <1>5, <2>1, <3>1, CancelSound
    <3> QED
      BY <1>8, <2>2, <3>2 DEF Handled, OnTimeout, IsIo, s, h
  <2>3. CASE h.ec # "ok"
    <3>1. h # WriteTimeout /\ h # ReadTimeout
      BY <2>3, HandlerType DEF WriteTimeout, ReadTimeout, Operations, ErrorCodes
    <3>2. Armed(s)
      BY <1>1, <1>2, <3>1 DEF Sound, Armed
    <3> QED
      BY <1>2, <1>5, <1>8, <2>1, <2>3, <3>2 DEF Handled, OnTimeout, IsIo, Sound, s, h
  <2> QED
    BY <2>2, <2>3
<1> QED
  BY <1>6, <1>7, <1>8 DEF IsIo

--------------------------------------------------------------------------------
(***************************************************************************)
(* The invariant, and what follows from it.                                *)
(***************************************************************************)
\* A transfer starts sound: do_transfer with a write, do_read with a read;
\* or it is over, when the socket is not open.
LEMMA InitSound == Init => TransferInv
<1> SUFFICES ASSUME Init PROVE Sound(transfer)
  BY DEF TransferInv
<1>1. ASSUME NEW kind \in {"exchange", "read"}
      PROVE  Blank(kind) \in Transfers
  BY ExpectedAssumption DEF Blank, Transfers, ErrorCodes
<1>2. CASE transfer = PreparedTransfer
  <2>1. /\ transfer \in Transfers /\ transfer.kind = "exchange" /\ ~transfer.returned
        /\ transfer.write /\ ~transfer.read /\ transfer.read_waits = 0
        /\ transfer.write_waits = 1 /\ transfer.bytes_read = 0 /\ transfer.queue = << >>
        /\ transfer.write_error = "aborted" /\ transfer.read_error = "aborted"
    <3> DEFINE b == Blank("exchange")
    <3>1. /\ b \in Transfers /\ b.kind = "exchange" /\ ~b.returned /\ ~b.read
          /\ b.read_waits = 0 /\ b.bytes_read = 0 /\ b.queue = << >>
          /\ b.write_error = "aborted" /\ b.read_error = "aborted"
      BY <1>1 DEF Blank
    <3>2. transfer = [b EXCEPT !.write = TRUE, !.write_waits = 1]
      BY <1>2 DEF PreparedTransfer
    <3> HIDE DEF b
    <3> QED
      BY <3>1, <3>2 DEF Transfers
  <2> QED
    BY <2>1 DEF Sound, Writing, NoIo, Armed, OwnTimer, OwnAbort
<1>3. CASE transfer = PreparedRead
  <2> DEFINE r == WaitRead(Blank("read"))
  <2>1. /\ r \in Transfers /\ ~r.returned /\ ~r.write /\ ~r.read /\ r.queue = << >>
        /\ r.bytes_read = 0 /\ r.kind = "read" /\ r.write_waits = 0
    <3> DEFINE b == Blank("read")
    <3>1. /\ b \in Transfers /\ b.kind = "read" /\ ~b.returned /\ ~b.write /\ ~b.read
          /\ b.read_waits = 0 /\ b.write_waits = 0 /\ b.bytes_read = 0 /\ b.queue = << >>
      BY <1>1 DEF Blank
    <3>2. r = [b EXCEPT !.read_waits = 1]
      BY <3>1 DEF WaitRead
    <3> HIDE DEF b, r
    <3> QED
      BY <3>1, <3>2 DEF Transfers
  <2>2. transfer = AsyncRead(r)
    BY <1>3 DEF PreparedRead
  <2> HIDE DEF r
  <2>3. NoIo(r.queue) /\ OwnTimer(r) /\ (r.bytes_read < Expected \/ Expected = 0)
    BY <2>1, ExpectedAssumption DEF NoIo, OwnTimer
  <2> QED
    BY <2>1, <2>2, <2>3, ReadStarts
<1>4. ASSUME NEW kind \in {"exchange", "read"}, transfer = NotConnected(kind)
      PROVE  Sound(transfer)
  <2> DEFINE b == Blank(kind)
  <2>1. /\ b \in Transfers /\ b.kind = kind /\ ~b.write /\ ~b.read /\ b.bytes_read = 0
        /\ b.queue = << >> /\ b.write_waits = 0
    BY <1>1 DEF Blank
  <2>2. transfer = [b EXCEPT !.returned = TRUE, !.write_error = "failed", !.read_error = "failed"]
    BY <1>4 DEF NotConnected
  <2> HIDE DEF b
  <2>3. /\ transfer \in Transfers /\ transfer.kind = kind /\ ~transfer.write /\ ~transfer.read
        /\ transfer.bytes_read = 0 /\ transfer.queue = << >> /\ transfer.write_waits = 0
        /\ transfer.write_error = "failed" /\ transfer.read_error = "failed"
    BY <2>1, <2>2 DEF Transfers, ErrorCodes
  <2>4. Over(transfer)
    BY <2>3 DEF Over, Agrees, NoIo
  <2> QED
    BY <2>3, <2>4 DEF Sound, Armed, OwnTimer, OwnAbort
<1> QED
  BY <1>2, <1>3, <1>4 DEF Init

\* A pending operation on the socket ends: its handler joins the queue.
LEMMA IoEndSound ==
    ASSUME Sound(transfer), EndWrite("ok") \/ EndWrite("failed") \/ ReadFails
                              \/ \E n \in 1 .. Expected : ReadSome(n)
    PROVE  Sound(transfer')
<1> DEFINE t == transfer
           q == t.queue
<1>0. t \in Transfers /\ q \in Seq(Handlers)
  BY DEF Sound, Transfers
<1>1. ASSUME NEW ec \in {"ok", "failed"}, EndWrite(ec) PROVE Sound(transfer')
  <2> DEFINE h == Handler("write", ec)
  <2>1. h \in Handlers /\ h.op = "write"
    BY HandlerType DEF Operations, ErrorCodes
  <2>2. t.write /\ transfer' = [t EXCEPT !.write = FALSE, !.queue = Append(q, h)]
    BY <1>1 DEF EndWrite
  <2> HIDE DEF h
  <2>3. Writing(t) /\ NoIo(q)
    BY <2>2 DEF Sound, Writing, Reading, Over
  <2>4. Append(q, h) \in Seq(Handlers) /\ OneIo(Append(q, h), h)
    BY <1>0, <2>1, <2>3, QueueAppend
  <2>5. transfer' \in Transfers /\ ~transfer'.write
    BY <1>0, <2>2, <2>4 DEF Transfers
  <2>6. Writing(transfer')
    BY <1>0, <2>1, <2>2, <2>3, <2>4 DEF Writing, Transfers
  <2> QED
    BY <2>5, <2>6 DEF Sound, Writing, Armed, OwnTimer, OwnAbort
<1>2. ASSUME NEW h \in Handlers, h.op = "read", t.read, h.ec # "aborted",
             h.ec # "ok" => h.bytes = 0, t.bytes_read + h.bytes <= Expected,
             transfer' = [t EXCEPT !.read = FALSE, !.queue = Append(q, h)]
      PROVE  Sound(transfer')
  <2>1. Reading(t) /\ NoIo(q)
    BY <1>2 DEF Sound, Writing, Reading, Over
  <2>2. /\ Append(q, h) \in Seq(Handlers) /\ OneIo(Append(q, h), h)
        /\ \A i \in 1 .. Len(Append(q, h)) :
             Append(q, h)[i] = h \/ \E j \in 1 .. Len(q) : Append(q, h)[i] = q[j]
    BY <1>0, <1>2, <2>1, QueueAppend
  <2>3. /\ transfer' \in Transfers /\ ~transfer'.read /\ transfer'.queue = Append(q, h)
        /\ transfer'.kind = t.kind /\ transfer'.returned = t.returned
        /\ transfer'.write = t.write /\ transfer'.write_waits = t.write_waits
        /\ transfer'.read_expired = t.read_expired /\ transfer'.bytes_read = t.bytes_read
        /\ transfer'.write_error = t.write_error /\ transfer'.read_error = t.read_error
    BY <1>0, <1>2, <2>2 DEF Transfers
  <2>4. Reading(transfer')
    BY <1>2, <2>1, <2>2, <2>3 DEF Reading
  <2>5. OwnTimer(transfer')
    BY <1>2, <2>2, <2>3 DEF Sound, OwnTimer, OwnHandler
  <2> QED
    BY <2>1, <2>3, <2>4, <2>5 DEF Sound, Reading, Armed, OwnAbort
<1>3. CASE ReadFails
  <2>1. Handler("read", "failed") \in Handlers
    BY HandlerType DEF Operations, ErrorCodes
  <2>2. t.bytes_read + 0 <= Expected
    BY <1>0, ExpectedAssumption DEF Transfers
  <2> QED
    BY <1>2, <1>3, <2>1, <2>2, HandlerType DEF ReadFails, Operations, ErrorCodes
<1>4. ASSUME NEW n \in 1 .. Expected, ReadSome(n) PROVE Sound(transfer')
  <2> DEFINE h == [Handler("read", "ok") EXCEPT !.bytes = n]
  <2>1. /\ h \in Handlers /\ h.op = "read" /\ h.ec = "ok" /\ h.bytes = n
    <3>1. h = [op |-> "read", ec |-> "ok", bytes |-> n]
      BY DEF Handler
    <3> HIDE DEF h
    <3> QED
      BY <3>1, ExpectedAssumption DEF Handlers, Operations, ErrorCodes
  <2>2. t.bytes_read + n <= Expected
    <3>1. t.bytes_read \in Nat /\ Expected \in Nat /\ n \in Nat
      BY <1>0, ExpectedAssumption DEF Transfers
    <3>2. n <= Expected - t.bytes_read
      BY <1>4 DEF ReadSome
    <3> HIDE DEF t
    <3> QED
      BY <3>1, <3>2
  <2>3. t.read /\ transfer' = [t EXCEPT !.read = FALSE, !.queue = Append(q, h)]
    BY <1>4 DEF ReadSome
  <2> HIDE DEF h
  <2> QED
    BY <1>2, <2>1, <2>2, <2>3
<1> QED
  BY <1>1, <1>3, <1>4

\* Waits on an expired timer end.
LEMMA ExpirySound ==
    ASSUME Sound(transfer), EndExpiredWaits
    PROVE  Sound(transfer')
<1> DEFINE t == transfer
<1>0. t \in Transfers
  BY DEF Sound
<1>1. CASE t.write_expired /\ t.write_waits > 0 /\ transfer' = EndWriteWaits(t, "ok")
  <2> DEFINE r == EndWriteWaits(t, "ok")
  <2>1. /\ r = [t EXCEPT !.queue = r.queue, !.write_waits = 0]
        /\ r \in Transfers
        /\ NoIo(t.queue) => NoIo(r.queue)
        /\ \A g : OneIo(t.queue, g) => OneIo(r.queue, g)
        /\ \A g : Has(t.queue, g) => Has(r.queue, g)
        /\ Has(r.queue, WriteTimeout)
        /\ OwnTimer(r)
    BY <1>0, <1>1, WriteWaitsEnd DEF Sound, ErrorCodes, WriteTimeout
  <2> HIDE DEF r
  <2>2. /\ r.kind = t.kind /\ r.returned = t.returned /\ r.write = t.write /\ r.read = t.read
        /\ r.read_waits = t.read_waits
        /\ r.read_expired = t.read_expired /\ r.bytes_read = t.bytes_read
        /\ r.write_error = t.write_error /\ r.read_error = t.read_error
    BY <1>0, <2>1 DEF Transfers
  <2>3. Writing(r) \/ Reading(r) \/ Over(r)
    BY <2>1, <2>2 DEF Sound, Writing, Reading, Over
  <2> QED
    BY <1>1, <2>1, <2>2, <2>3 DEF Sound, Armed, OwnAbort, r
<1>2. CASE t.read_expired /\ t.read_waits > 0 /\ transfer' = EndReadWaits(t, "ok")
  <2> DEFINE r == EndReadWaits(t, "ok")
  <2>1. /\ r = [t EXCEPT !.queue = r.queue, !.read_waits = 0]
        /\ r \in Transfers
        /\ NoIo(t.queue) => NoIo(r.queue)
        /\ \A g : OneIo(t.queue, g) => OneIo(r.queue, g)
        /\ \A g : Has(t.queue, g) => Has(r.queue, g)
        /\ Has(r.queue, ReadTimeout)
        /\ OwnTimer(r)
    BY <1>0, <1>2, ReadWaitsEnd DEF Sound, ErrorCodes, ReadTimeout
  <2> HIDE DEF r
  <2>2. /\ r.kind = t.kind /\ r.returned = t.returned /\ r.write = t.write /\ r.read = t.read
        /\ r.write_waits = t.write_waits /\ r.read_waits = 0
        /\ r.read_expired = t.read_expired /\ r.bytes_read = t.bytes_read
        /\ r.write_error = t.write_error /\ r.read_error = t.read_error
    BY <1>0, <2>1 DEF Transfers
  <2>3. Writing(r) \/ Reading(r) \/ Over(r)
    BY <2>1, <2>2 DEF Sound, Writing, Reading, Over
  <2> QED
    BY <1>2, <2>1, <2>2, <2>3 DEF Sound, Armed, OwnAbort, r
<1> QED
  BY <1>1, <1>2 DEF EndExpiredWaits

\* Every step keeps the invariant, in whatever order timers, the peer and the
\* event loop act.
LEMMA NextSound ==
    ASSUME TransferInv, [Next]_vars
    PROVE  TransferInv'
<1> SUFFICES Sound(transfer')
  BY DEF TransferInv
<1>0. Sound(transfer) /\ transfer \in Transfers
  BY DEF TransferInv, Sound
<1>1. CASE RunHandler
  BY <1>0, <1>1, HandlerSound DEF RunHandler
<1>2. CASE Peer
  BY <1>0, <1>2, IoEndSound DEF Peer
<1>3. CASE EndExpiredWaits
  BY <1>0, <1>3, ExpirySound
<1>4. ASSUME transfer' \in Transfers, transfer'.kind = transfer.kind,
             transfer'.write = transfer.write, transfer'.read = transfer.read,
             transfer'.write_waits = transfer.write_waits,
             transfer'.read_waits = transfer.read_waits,
             transfer'.queue = transfer.queue,
             transfer'.bytes_read = transfer.bytes_read,
             transfer'.write_error = transfer.write_error,
             transfer'.read_error = transfer.read_error,
             transfer.read_expired => transfer'.read_expired,
             transfer'.returned = transfer.returned \/ Over(transfer)
      PROVE  Sound(transfer')
  <2>1. Writing(transfer') \/ Reading(transfer') \/ Over(transfer')
    BY <1>0, <1>4 DEF Sound, Writing, Reading, Over
  <2>2. OwnTimer(transfer') /\ OwnAbort(transfer') /\ Armed(transfer')
    BY <1>0, <1>4 DEF Sound, OwnTimer, OwnHandler, OwnAbort, Armed
  <2> QED
    BY <1>4, <2>1, <2>2 DEF Sound
<1>5. CASE Clock
  <2>1. \/ transfer' = [transfer EXCEPT !.write_expired = TRUE]
        \/ transfer' = [transfer EXCEPT !.read_expired = TRUE]
    BY <1>5 DEF Clock, WriteTimerExpires, ReadTimerExpires
  <2> QED
    BY <1>0, <1>4, <2>1, ZenonT(60) DEF Transfers
<1>6. CASE Return
  <2>1. Over(transfer)
    BY <1>0, <1>6 DEF Return, Sound, Writing, Reading, OneIo
  <2>2. transfer' = [transfer EXCEPT !.returned = TRUE]
    BY <1>6 DEF Return
  <2> QED
    BY <1>0, <1>4, <2>1, <2>2 DEF Transfers
<1>7. CASE UNCHANGED vars
  BY <1>0, <1>7 DEF vars
<1> QED
  BY <1>1, <1>2, <1>3, <1>5, <1>6, <1>7 DEF Next, Loop, Returned

\* A transfer is sound in every reachable state.
THEOREM TransferInvariant == Spec => []TransferInv
<1>1. Init => TransferInv
  BY InitSound
<1>2. TransferInv /\ [Next]_vars => TransferInv'
  BY NextSound
<1> QED
  BY <1>1, <1>2, PTL DEF Spec

\* The transfer has its type (TypeOK); above all _buffer never holds more bytes
\* than expected.
THEOREM TypeCorrect == Spec => []TypeOK
<1>1. TransferInv => TypeOK
  BY DEF TransferInv, Sound, TypeOK
<1> QED
  BY <1>1, TransferInvariant, PTL

\* do_transfer and do_read report no error only when every byte of the answer is
\* there, although _read_error says "no error" while bytes are missing.
THEOREM OkIsComplete == Spec => []OkMeansComplete
<1>1. TransferInv => OkMeansComplete
  BY ExpectedAssumption
     DEF TransferInv, Sound, Writing, Reading, Over, Agrees, OkMeansComplete, result
<1> QED
  BY <1>1, TransferInvariant, PTL

\* A complete answer is never reported as an error, whatever timeout races with
\* its last bytes.
THEOREM CompleteIsOk == Spec => []CompleteMeansOk
<1>1. TransferInv => CompleteMeansOk
  BY ExpectedAssumption
     DEF TransferInv, Sound, Writing, Reading, Over, Agrees, CompleteMeansOk, result
<1> QED
  BY <1>1, TransferInvariant, PTL

\* A silent peer cannot block the event loop: while a write or a read is pending,
\* a wait on its timer is pending, or has just expired.
THEOREM TimeoutsAreArmed == Spec => []TimeoutIsArmed
<1>1. TransferInv => TimeoutIsArmed
  <2> SUFFICES ASSUME Sound(transfer) PROVE TimeoutIsArmed
    BY DEF TransferInv
  <2>1. DOMAIN transfer.queue = 1 .. Len(transfer.queue)
    BY DEF Sound, Transfers
  <2> QED
    BY <2>1 DEF Sound, Armed, Has, TimeoutIsArmed, WriteTimeout, ReadTimeout
<1> QED
  BY <1>1, TransferInvariant, PTL

\* do_read returns "operation aborted" only when its own timeout has expired, which
\* is what _wait_have takes it for.
THEOREM AbortsAreTimeouts == Spec => []AbortedReadHasExpired
<1>1. TransferInv => AbortedReadHasExpired
  BY DEF TransferInv, Sound, OwnAbort, AbortedReadHasExpired, result
<1> QED
  BY <1>1, TransferInvariant, PTL

================================================================================
