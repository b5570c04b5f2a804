----------------------------- MODULE PeerConnection -----------------------------
(***************************************************************************)
(* A worker and the connection to its peer (client/piece.cpp, proto/): the *)
(* bytes the peer sends, and how each exchange of _connect_to_peer,        *)
(* _wait_have and the block loop takes them off the socket, a header of    *)
(* fixed size first and then the body the header announces.  A read that   *)
(* ends early keeps none of the bytes it has taken; the next one goes on   *)
(* from there.  Implements OneWorker.                                      *)
(*                                                                         *)
(* The peer is external.  It sends whole messages, of which a read may get *)
(* a part; each is put into the stream when a read waits for it, which     *)
(* gives every behaviour that sending earlier gives, since nothing looks   *)
(* at the stream between reads.                                            *)
(***************************************************************************)
EXTENDS OneWorker

CONSTANTS
    HeaderSize,     \* MsgHeader::SIZE_IN_BYTES: 4 bytes of length and 1 of id
    HandshakeSize,  \* PeerHandshakeMsg::SIZE
    PieceOverhead,  \* bytes of index and begin before the block in a PIECE
    HaveSize,       \* bytes of the index in a HAVE
    MaxBitfield,    \* bound: bytes of a BITFIELD
    MaxMessages     \* bound: messages the peer sends

ASSUME SizesAssumption ==
    /\ {HeaderSize, HandshakeSize} \subseteq Nat \ {0, 1}
    /\ {PieceOverhead, HaveSize} \subseteq Nat \ {0}
    /\ {MaxBitfield, MaxMessages} \subseteq Nat

ASSUME OnePeerAssumption == PeersCount = 1

VARIABLES
    call,         \* the exchange or read the thread is in, or "none"
    header,       \* the header of the message whose body is being read
    stream,       \* the bytes sent and not read
    outstanding,  \* while in step: requests sent whose answer was not read, in order
    link,         \* whether bytes still come, and whether headers are headers
    messages      \* how many messages the peer has sent

connection == <<call, header, stream, outstanding, link, messages>>
vars == <<worker, connection>>

ThePeer == 1
thread == worker[ThePeer]

--------------------------------------------------------------------------------
(***************************************************************************)
(* Messages.  `size` is the number of bytes of the whole message.          *)
(***************************************************************************)
NoRequest == [index |-> 0, begin |-> 0, length |-> 0]

Message(id, size) ==
    [id |-> id, size |-> size, index |-> NoPiece, request |-> NoRequest,
     block |-> [piece |-> NoPiece, begin |-> 0, size |-> 0]]

NoMessage == Message("none", HeaderSize)

\* A message without a body, and the four zero bytes of a keep-alive.
Bodyless == {Message(id, HeaderSize) : id \in {"choke", "unchoke"}}
KeepAlive == Message("keep_alive", HeaderSize - 1)

Handshakes == {Message(id, HandshakeSize) : id \in {"handshake", "other_torrent"}}
Bitfields == {Message("bitfield", HeaderSize + n) : n \in 0 .. MaxBitfield}
Haves == {[Message("have", HeaderSize + HaveSize) EXCEPT !.index = i]
            : i \in IF ThePeer \in HavePeers THEN Pieces ELSE {}}

\* The answers to the open requests.
PieceMessages ==
    UNION {{[Message("piece", HeaderSize + PieceOverhead + block.size) EXCEPT
               !.request = request, !.block = block]
              : block \in Answers(ThePeer, request)}
            : request \in {outstanding[k] : k \in DOMAIN outstanding}}

\* What the peer may send: the handshake is first, a bitfield can only be next.
Sendable ==
    CASE call = "handshake" -> Handshakes
      [] call = "bitfield"  -> Bitfields \cup Bodyless \cup Haves \cup {KeepAlive}
      [] OTHER              -> Bodyless \cup Haves \cup {KeepAlive} \cup PieceMessages

BytesOf(message) == [k \in 1 .. message.size |-> [message |-> message, at |-> k]]

\* The calls, and how many bytes each waits for.
HeaderCalls == {"bitfield", "interested", "wait_have", "request"}
BodyCalls == {"bitfield_body", "have_body", "piece_body"}
Calls == {"none", "handshake"} \cup HeaderCalls \cup BodyCalls

Wanted ==
    CASE call = "handshake"  -> HandshakeSize
      [] call \in BodyCalls  -> header.size - HeaderSize
      [] OTHER               -> HeaderSize

\* The next byte starts a message; a call that reads a body is to get that of
\* the header read before.
AtMessage == stream # << >> => stream[1].at = 1
AtBody == Wanted = 0 \/ (stream # << >> /\ stream[1].at = HeaderSize + 1)
InFrame == link = "in_step" /\ IF call \in BodyCalls THEN AtBody ELSE AtMessage

--------------------------------------------------------------------------------
Init ==
    /\ WorkerInit
    /\ call = "none"
    /\ header = NoMessage
    /\ stream = << >>
    /\ outstanding = << >>
    /\ link = "in_step"
    /\ messages = 0

\* The thread becomes r.
Becomes(r) == worker' = [worker EXCEPT ![ThePeer] = r]

\* Bound: requests left open on a connection that is in step.
FewUnanswered == InFrame' => Len(outstanding') <= MaxUnanswered

\* The function of the thread ends with record r.
EndsAs(r) ==
    /\ Becomes(r)
    /\ call' = "none"
    /\ header' = NoMessage
Throws == EndsAs(Threw(thread))

--------------------------------------------------------------------------------
(***************************************************************************)
(* The peer and the socket.                                                *)
(***************************************************************************)
\* The peer sends what a read waits for.
PeerSends ==
    /\ call # "none"
    /\ link = "in_step"
    /\ AtMessage
    /\ Len(stream) < Wanted
    /\ messages < MaxMessages
    /\ \E message \in Sendable : stream' = stream \o BytesOf(message)
    /\ messages' = messages + 1
    /\ UNCHANGED <<worker, call, header, outstanding, link>>

\* The bytes that are waited for are there, and are taken.
Take ==
    /\ link = "in_step"
    /\ Len(stream) >= Wanted
    /\ stream' = SubSeq(stream, Wanted + 1, Len(stream))
    /\ UNCHANGED <<link, messages>>

\* unpack_msg_header of bytes that are the header of message m.
TakeHeader(m) ==
    /\ stream # << >>
    /\ stream[1] = [message |-> m, at |-> 1]
    /\ Take

--------------------------------------------------------------------------------
(***************************************************************************)
(* _connect_to_peer.                                                       *)
(***************************************************************************)
\* socket.connect, then the exchange of handshakes.
Connect ==
    /\ thread.thread \in {"connect", "dial"}
    /\ call = "none"
    /\ \/ call' = "handshake" /\ UNCHANGED <<worker, header>>
       \/ Throws
    /\ UNCHANGED <<stream, outstanding, link, messages>>

\* _do_handshake: the hash of the answer is compared.
TakeHandshake ==
    /\ call = "handshake"
    /\ Take
    /\ IF stream[1].message.id = "handshake"
       THEN call' = "bitfield" /\ UNCHANGED <<worker, header>>
       ELSE Throws
    /\ UNCHANGED outstanding

\* _do_bitfield_or_unchoke.  Faulty: the body is left in the socket.
TakeBitfield_header ==
    /\ call = "bitfield"
    /\ \E m \in Bitfields : TakeHeader(m)
    /\ call' = "interested"
    /\ UNCHANGED <<worker, header, outstanding>>

TakeBitfield ==
    /\ call = "bitfield"
    /\ \E m \in Bitfields : TakeHeader(m) /\ header' = m
    /\ call' = "bitfield_body"
    /\ UNCHANGED <<worker, outstanding>>

TakeBitfieldBody ==
    /\ call = "bitfield_body"
    /\ Take
    /\ call' = "interested"
    /\ header' = NoMessage
    /\ UNCHANGED <<worker, outstanding>>

UnchokeForBitfield ==
    /\ call = "bitfield"
    /\ TakeHeader(Message("unchoke", HeaderSize))
    /\ call' = "interested"
    /\ UNCHANGED <<worker, header, outstanding>>

\* _connect_to_peer returns, to the thread of check_connection_async, which
\* ends, or to _download_piece.
ConnectedAs(h) ==
    /\ Becomes(IF thread.thread = "connect"
               THEN [Connected(thread, h) EXCEPT !.thread = "ended"]
               ELSE Dialed(thread, h))
    /\ call' = "none"
    /\ header' = NoMessage

\* _do_interested, and _wait_have for HAVE: a HAVE has a body.
UnchokeForInterested ==
    /\ call = "interested"
    /\ TakeHeader(Message("unchoke", HeaderSize))
    /\ ConnectedAs(NoPiece)
    /\ UNCHANGED outstanding

TakeHave ==
    /\ call \in {"interested", "wait_have"}
    /\ \E m \in Haves : TakeHeader(m) /\ header' = m
    /\ call' = "have_body"
    /\ UNCHANGED <<worker, outstanding>>

\* Faulty: _do_interested notes the piece but not that the peer announces.
TakeHaveBody_mode_not_set ==
    /\ call = "have_body"
    /\ Take
    /\ IF thread.thread = "wait_have"
       THEN Becomes(WithPiece(thread, header.index))
       ELSE LET r == IF thread.thread = "connect"
                     THEN [Connected(thread, header.index) EXCEPT !.thread = "ended"]
                     ELSE Dialed(thread, header.index)
            IN  Becomes([r EXCEPT !.have_mode = thread.have_mode])
    /\ call' = "none"
    /\ header' = NoMessage
    /\ UNCHANGED outstanding

TakeHaveBody ==
    /\ call = "have_body"
    /\ Take
    /\ IF thread.thread = "wait_have"
       THEN /\ Becomes(WithPiece(thread, header.index))
            /\ call' = "none"
            /\ header' = NoMessage
       ELSE ConnectedAs(header.index)
    /\ UNCHANGED outstanding

--------------------------------------------------------------------------------
(***************************************************************************)
(* _download_piece and _wait_have.                                         *)
(***************************************************************************)
Enter ==
    /\ EnterDownload(ThePeer)
    /\ call' = IF worker'[ThePeer].thread = "wait_have" THEN "wait_have" ELSE "none"
    /\ UNCHANGED <<header, stream, outstanding, link, messages>>

\* _wait_have returns false for UNCHOKE, and _download_piece just returns.
UnchokeForHave ==
    /\ call = "wait_have"
    /\ TakeHeader(Message("unchoke", HeaderSize))
    /\ EndsAs(Returned(thread))
    /\ UNCHANGED outstanding

\* One round of the block loop: the request goes out ...
SendRequest ==
    /\ thread.thread = "block"
    /\ call = "none"
    /\ MoreToReceive(thread)
    /\ outstanding' = IF link = "in_step" THEN Append(outstanding, Request(thread))
                                           ELSE << >>
    /\ call' = "request"
    /\ UNCHANGED <<worker, header, stream, link, messages>>

\* ... the header of a PIECE comes ...
TakePieceHeader ==
    /\ call = "request"
    /\ \E m \in PieceMessages : TakeHeader(m) /\ header' = m
    /\ call' = "piece_body"
    /\ UNCHANGED <<worker, outstanding>>

\* ... and its body, which answers one of the open requests.
TakePieceBody ==
    /\ call = "piece_body"
    /\ Take
    /\ Becomes(WithBlock(thread, header.block))
    /\ \E k \in DOMAIN outstanding :
         /\ outstanding[k] = header.request
         /\ outstanding' = Without(outstanding, k)
    /\ call' = "none"
    /\ header' = NoMessage

Finish ==
    /\ call = "none"
    /\ FinishPiece(ThePeer)
    /\ UNCHANGED connection

--------------------------------------------------------------------------------
(***************************************************************************)
(* Calls that fail.                                                        *)
(***************************************************************************)
Expected ==
    CASE call = "bitfield"   -> {"bitfield", "unchoke"}
      [] call = "interested" -> {"have", "unchoke"}
      [] call = "wait_have"  -> {"have", "unchoke"}
      [] call = "request"    -> {"piece"}
      [] OTHER               -> {}

\* What a call that fails after k bytes leaves to the next one.  The rest of a
\* message is read as headers and bodies from here on: the bytes are arbitrary.
Leaves(k) ==
    LET rest == SubSeq(stream, k + 1, Len(stream))
        cut == rest # << >> /\ rest[1].at # 1
    IN  /\ stream' = IF cut THEN << >> ELSE rest
        /\ link' = IF cut THEN "out_of_step" ELSE link
        /\ outstanding' = IF cut THEN << >> ELSE outstanding

\* A header of another message, or the length zero of a keep-alive with the
\* first byte of what follows it; the body stays in the socket.
UnexpectedMessage ==
    /\ call \in HeaderCalls
    /\ Len(stream) >= HeaderSize
    /\ stream[1].message.id \notin Expected
    /\ Leaves(HeaderSize)
    /\ Throws
    /\ UNCHANGED messages
    /\ FewUnanswered

\* A transfer times out before all bytes have come; those that came are lost.
\* _wait_have takes a timeout of its header for "no piece".
TransferAborted ==
    /\ call # "none"
    /\ link # "closed"
    /\ \E k \in 0 .. Wanted - 1 : k <= Len(stream) /\ Leaves(k)
    /\ IF call = "wait_have" THEN EndsAs(Returned(thread)) ELSE Throws
    /\ UNCHANGED messages
    /\ FewUnanswered

\* The peer has closed the connection, or it is broken.
TransferFails ==
    /\ call # "none"
    /\ link' = "closed"
    /\ stream' = << >>
    /\ outstanding' = << >>
    /\ Throws
    /\ UNCHANGED messages

\* Arbitrary bytes pass for a HAVE, or for a PIECE with any block (bound: while
\* fewer bytes than the piece has were received), or for neither.
Garbled ==
    /\ link = "out_of_step"
    /\ \/ call \in HeaderCalls /\ Throws
       \/ call = "wait_have" /\ EndsAs(Returned(thread))
       \/ /\ call = "wait_have"
          /\ \E h \in Pieces : Becomes(WithPiece(thread, h))
          /\ call' = "none"
          /\ UNCHANGED header
       \/ /\ call = "request"
          /\ thread.received_bytes < piece_len(thread.piece_idx)
          /\ \E block \in AnyBytes(thread) : Becomes(WithBlock(thread, block))
          /\ call' = "none"
          /\ UNCHANGED header
    /\ UNCHANGED <<stream, outstanding, link, messages>>

--------------------------------------------------------------------------------
Connecting ==
    \/ Connect \/ TakeHandshake
    \/ TakeBitfield \/ TakeBitfieldBody \/ UnchokeForBitfield
    \/ UnchokeForInterested \/ TakeHave \/ TakeHaveBody

Downloading ==
    \/ Enter \/ UnchokeForHave
    \/ SendRequest \/ TakePieceHeader \/ TakePieceBody \/ Finish

Next ==
    \/ Call(ThePeer) /\ UNCHANGED connection
    \/ PeerSends
    \/ Connecting
    \/ Downloading
    \/ UnexpectedMessage \/ TransferAborted \/ TransferFails \/ Garbled

Spec == Init /\ [][Next]_vars

--------------------------------------------------------------------------------
(***************************************************************************)
(* Properties.                                                             *)
(***************************************************************************)
\* Every variable has its type; a call is made by a thread that runs.
TypeOK ==
    /\ thread \in Workers
    /\ call \in Calls
    /\ call # "none" => thread.thread \in {"connect", "dial", "wait_have", "block"}
    /\ \A k \in DOMAIN stream : stream[k].at \in 1 .. stream[k].message.size
    /\ outstanding \in Seq(Requests)
    /\ link \in {"in_step", "out_of_step", "closed"}
    /\ messages \in 0 .. MaxMessages

\* A thread that goes on reading is in step with the peer: only a call that
\* ends the thread leaves a message half read (each exchange of piece.cpp reads
\* what the header it accepted announces).
FrameKept == [][InFrame => InFrame' \/ worker'[ThePeer].thread = "ended"]_vars

\* Only a peer that announces pieces is ever read from the middle of a message:
\* any other call that leaves one half read throws, and a worker that threw is
\* given up.
OthersInStep == ~thread.have_mode => InFrame \/ thread.exception

\* A transfer on a connection that is in step, with no request open, is the
\* whole piece last_piece_idx names, or no data at all ("Return piece data if it
\* is stored internally", client/piece.hpp).
CleanTransferIsRight ==
    thread.is_piece_transfer_complete /\ InFrame /\ outstanding = << >> =>
        thread.buffer \in {Empty, Whole(thread.last_piece_idx)}

--------------------------------------------------------------------------------
(***************************************************************************)
(* The worker as OneWorker sees it: out of step for good once a message is *)
(* cut, and with the requests of the rounds before.                        *)
(***************************************************************************)
InStepForWorker == thread.is_peer_connection_established => InFrame

AbstractWorker ==
    [worker EXCEPT ![ThePeer] =
       [@ EXCEPT !.in_frame = InStepForWorker,
                 !.unanswered =
                    IF ~InStepForWorker THEN << >>
                    ELSE IF call \in {"request", "piece_body"}
                         THEN SubSeq(outstanding, 1, Len(outstanding) - 1)
                         ELSE outstanding]]

OW == INSTANCE OneWorker WITH worker <- AbstractWorker

\* The exchanges of piece.cpp over bytes add up to the steps of PieceWorker.
ImplementsWorker == OW!WorkerSpec

================================================================================
