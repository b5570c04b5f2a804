------------------------------ MODULE PieceWorker ------------------------------
(***************************************************************************)
(* One worker per peer (client/piece.hpp, client/piece.cpp): the object    *)
(* the coordinator drives, and the thread that object runs.  A thread      *)
(* either connects to the peer or downloads one piece, block by block.     *)
(* One action is one network exchange or one stretch of code between two   *)
(* exchanges; the coordinator's side of the object (start a thread, join   *)
(* it, rethrow) is in the modules that extend this one.                    *)
(*                                                                         *)
(* The peer is external: it answers a request it has not answered yet with *)
(* between one byte and all the bytes asked for, and may at any point stay *)
(* silent, close the connection or send another message.                   *)
(***************************************************************************)
EXTENDS Integers, Sequences

CONSTANTS
    PeersCount,    \* length of the list of addresses the tracker returned
    PiecesCount,   \* number of hashes in "pieces", meta.pieces().size()
    Length,        \* "length" of the torrent, in bytes
    PieceLength,   \* "piece length", in bytes
    MaxBlockLen,   \* MAX_BLOCK_LEN, 16 KiB in the code
    SizeModulus,   \* 2^64: size_t arithmetic wraps at it
    MaxUnanswered, \* bound: requests a peer may leave unanswered
    HavePeers,     \* peers that answer INTERESTED with HAVE, piece by piece
    CorruptPeers   \* peers whose blocks may differ from the torrent's data

Peers == 1 .. PeersCount
Pieces == 0 .. PiecesCount - 1

\* What a well-formed torrent file satisfies, and what the bounds need.
ASSUME CountsAssumption ==
    /\ PeersCount \in Nat \ {0}
    /\ PiecesCount \in Nat \ {0}
    /\ Length \in Nat \ {0}
    /\ PieceLength \in Nat \ {0}
    /\ MaxBlockLen \in Nat \ {0}
    /\ MaxUnanswered \in Nat
    /\ SizeModulus \in Nat
    /\ SizeModulus > Length + MaxBlockLen
    /\ SizeModulus > PieceLength

ASSUME PeersAssumption ==
    /\ HavePeers \subseteq Peers
    /\ CorruptPeers \subseteq Peers

ASSUME TorrentAssumption ==
    /\ (PiecesCount - 1) * PieceLength < Length
    /\ Length <= PiecesCount * PieceLength

VARIABLE worker  \* worker[w]: the PieceWorker of peer w, and its thread

--------------------------------------------------------------------------------
(***************************************************************************)
(* Data.  The bytes of a buffer or a file are abstracted to "the first     *)
(* `size` bytes of piece `piece`"; any other bytes have piece = Foreign.   *)
(***************************************************************************)
NoPiece == -1
Foreign == -2

Empty == [piece |-> NoPiece, size |-> 0]

\* What the torrent's author put into piece i.
PieceSize(i) ==
    IF i = PiecesCount - 1 THEN Length - (PiecesCount - 1) * PieceLength
                           ELSE PieceLength
Whole(i) == [piece |-> i, size |-> PieceSize(i)]

\* The size the code expects of piece i.
piece_len(i) ==
    IF i = PiecesCount - 1 THEN Length % PieceLength ELSE PieceLength

\* Faulty: signed subtraction.
size_sub_signed(a, b) == a - b

\* size_t subtraction and addition.
size_sub(a, b) == IF a >= b THEN a - b ELSE a - b + SizeModulus
size_add(a, b) == IF a + b < SizeModulus THEN a + b ELSE a + b - SizeModulus

\* The length of the next block to ask for.
block_len(i, received) ==
    LET remain_bytes == size_sub(piece_len(i), received)
    IN  IF remain_bytes > MaxBlockLen THEN MaxBlockLen ELSE remain_bytes

\* Appending a block to a stream: the stream stays a prefix of one piece only
\* if the block continues it.
ostream_write(b, block) ==
    [piece |-> CASE b.size = 0 /\ block.begin = 0      -> block.piece
                 [] b.size > 0 /\ block.piece = b.piece
                               /\ block.begin = b.size -> b.piece
                 [] OTHER                              -> Foreign,
     size  |-> b.size + block.size]

\* The blocks a peer may send for request r: a peer serves only ranges that lie
\* in the piece; a corrupt peer may send bytes that are not the torrent's.
Answers(w, r) ==
    IF r.begin + r.length > PieceSize(r.index) THEN {}
    ELSE [piece : {r.index} \cup (IF w \in CorruptPeers THEN {Foreign} ELSE {}),
          begin : {r.begin},
          size  : 1 .. r.length]

Sizes == 0 .. SizeModulus - 1
Requests == [index : Pieces, begin : Sizes, length : Sizes]
Contents == [piece : Pieces \cup {NoPiece, Foreign}, size : Nat]

\* A thread object is joinable from its start until it is joined, whether the
\* function it runs has ended or not.
Running == {"connect", "enter", "dial", "wait_have", "block"}
Joinable == Running \cup {"ended"}

Workers ==
    [thread : Joinable \cup {"none"},
     index : Pieces,                  \* argument of download_piece_async
     piece_idx : Pieces,              \* local of _download_piece
     received_bytes : Sizes,          \* local of _download_piece
     buffer : Contents,               \* what _ostream writes to
     unanswered : Seq(Requests),      \* sent to the peer, not answered yet
     in_frame : BOOLEAN,              \* the next byte to read starts a message
     have_mode : BOOLEAN,
     have_piece_idx : Pieces \cup {NoPiece},
     last_piece_idx : Pieces,
     is_piece_transfer_complete : BOOLEAN,
     is_peer_connection_established : BOOLEAN,
     exception : BOOLEAN]             \* _exception is not null

NewWorker ==
    [thread |-> "none", index |-> 0, piece_idx |-> 0, received_bytes |-> 0,
     buffer |-> Empty, unanswered |-> << >>, in_frame |-> TRUE,
     have_mode |-> FALSE, have_piece_idx |-> NoPiece, last_piece_idx |-> 0,
     is_piece_transfer_complete |-> FALSE,
     is_peer_connection_established |-> FALSE, exception |-> FALSE]

--------------------------------------------------------------------------------
(***************************************************************************)
(* The coordinator's side of a worker, as functions of its record.         *)
(***************************************************************************)
started(r) == r.thread \in Joinable

\* The thread that check_connection_async and download_piece_async start.
ConnectStarted(r) == [r EXCEPT !.thread = "connect"]
DownloadStarted(r, index) ==
    [r EXCEPT !.thread = "enter", !.index = index,
              !.is_piece_transfer_complete = FALSE]

\* thread.join() returns when the function of the thread has ended.
HasEnded(r) == r.thread = "ended"
Joined(r) == [r EXCEPT !.thread = "none"]

--------------------------------------------------------------------------------
(***************************************************************************)
(* The thread's side.                                                      *)
(***************************************************************************)
\* Faulty: the exception is swallowed.
Threw_swallowed(r) == [r EXCEPT !.thread = "ended"]

\* The function of the thread throws: the thread stores the exception.
Threw(r) == [r EXCEPT !.thread = "ended", !.exception = TRUE]

\* _download_piece returns.
Returned(r) ==
    [r EXCEPT !.thread = "ended", !.is_piece_transfer_complete = TRUE]

\* Bytes of a message are left in the socket, or a message was cut short.
FrameLost(r) == [r EXCEPT !.in_frame = FALSE, !.unanswered = << >>]
MaybeFrameLost(r) == {r, FrameLost(r)}

\* How the answer to INTERESTED ends _connect_to_peer: HAVE for piece h, or
\* UNCHOKE (h = NoPiece).
InterestedAnswers(w) == {NoPiece} \cup (IF w \in HavePeers THEN Pieces ELSE {})
Connected(r, h) ==
    [r EXCEPT !.is_peer_connection_established = TRUE,
              !.have_mode = @ \/ h # NoPiece,
              !.have_piece_idx = IF h # NoPiece THEN h ELSE @]

\* Connected from inside _download_piece: an announced piece does not change the
\* piece this call downloads.  Faulty: it does.
Dialed_announced(r, h) ==
    [Connected(r, h) EXCEPT !.thread = "block",
                            !.piece_idx = IF h # NoPiece THEN h ELSE @]
Dialed(r, h) == [Connected(r, h) EXCEPT !.thread = "block"]

\* check_connection_async: _connect_to_peer, then the thread ends.
CheckConnection(w) ==
    LET r == worker[w]
    IN  /\ r.thread = "connect"
        /\ \/ \E h \in InterestedAnswers(w) :
                worker' = [worker EXCEPT ![w] =
                             [Connected(r, h) EXCEPT !.thread = "ended"]]
           \/ worker' = [worker EXCEPT ![w] = Threw(r)]

\* _download_piece goes on with piece i: connect first if that is not done.
WithPiece(r, i) ==
    [r EXCEPT !.thread =
                IF r.is_peer_connection_established THEN "block" ELSE "dial",
              !.piece_idx = i, !.have_piece_idx = NoPiece,
              !.received_bytes = 0]

\* Faulty: the bytes of the piece before stay in the buffer.
Cleared_not(r) == r
Cleared(r) == [r EXCEPT !.buffer = Empty]

\* _download_piece up to its first exchange with the peer: an announced piece
\* goes before the requested one; in have mode an announcement is waited for.
EnterDownload(w) ==
    LET r == Cleared(worker[w])
    IN  /\ worker[w].thread = "enter"
        /\ worker' = [worker EXCEPT ![w] =
             IF r.have_piece_idx # NoPiece THEN WithPiece(r, r.have_piece_idx)
             ELSE IF r.have_mode THEN [r EXCEPT !.thread = "wait_have"]
             ELSE WithPiece(r, r.index)]

\* _wait_have: HAVE for piece h; or no message within 20 s, or UNCHOKE, and then
\* _download_piece just returns; or a failed read or another message.  Out of
\* frame the bytes read may look like any of these.
WaitHave(w) ==
    LET r == worker[w]
    IN  /\ r.thread = "wait_have"
        /\ \/ \E h \in Pieces :
                worker' = [worker EXCEPT ![w] = WithPiece(r, h)]
           \/ \E s \in MaybeFrameLost(r) :
                worker' = [worker EXCEPT ![w] = Returned(s)]
           \/ \E s \in MaybeFrameLost(r) :
                worker' = [worker EXCEPT ![w] = Threw(s)]

\* _connect_to_peer called from _download_piece.
Dial(w) ==
    LET r == worker[w]
    IN  /\ r.thread = "dial"
        /\ \/ \E h \in InterestedAnswers(w) :
                worker' = [worker EXCEPT ![w] = Dialed(r, h)]
           \/ worker' = [worker EXCEPT ![w] = Threw(r)]

\* The request of one round of the block loop.
Request(r) ==
    [index |-> r.piece_idx, begin |-> r.received_bytes,
     length |-> block_len(r.piece_idx, r.received_bytes)]

\* Faulty: counts the bytes asked for, not the bytes that came.
WithBlock_asked(r, block) ==
    [r EXCEPT !.buffer = ostream_write(@, block),
              !.received_bytes = size_add(@, Request(r).length)]

\* Faulty: counts the body of the message, with the 4 bytes of index and of begin.
WithBlock_body(r, block) ==
    [r EXCEPT !.buffer = ostream_write(@, block),
              !.received_bytes = size_add(@, block.size + 8)]

\* The block of a PIECE message goes to the stream and is counted; its index
\* and begin are not looked at.
WithBlock(r, block) ==
    [r EXCEPT !.buffer = ostream_write(@, block),
              !.received_bytes = size_add(@, block.size)]

MoreToReceive(r) == r.received_bytes # piece_len(r.piece_idx)

\* Bytes that are no answer but pass for one: by chance they are what the buffer
\* of some piece lacks.
AnyBytes(r) ==
    [piece : Pieces \cup {Foreign}, begin : {r.buffer.size}, size : 1 .. MaxBlockLen]

\* A sequence without its k-th element.
Without(s, k) == [n \in 1 .. Len(s) - 1 |-> IF n < k THEN s[n] ELSE s[n + 1]]

\* A round that succeeds.  The peer answers one of the open requests; out of
\* frame any bytes may pass for a block (bound: while fewer bytes than the
\* piece has were received).
ReceiveBlock(w) ==
    LET r == worker[w]
        requests == Append(r.unanswered, Request(r))
    IN  /\ r.thread = "block"
        /\ MoreToReceive(r)
        /\ \/ /\ r.in_frame
              /\ \E k \in DOMAIN requests : \E block \in Answers(w, requests[k]) :
                   worker' = [worker EXCEPT ![w] =
                     [WithBlock(r, block) EXCEPT
                        !.unanswered = Without(requests, k)]]
           \/ /\ ~r.in_frame
              /\ r.received_bytes < piece_len(r.piece_idx)
              /\ \E block \in AnyBytes(r) :
                   worker' = [worker EXCEPT ![w] = WithBlock(r, block)]

\* A round that throws: no answer in time and the request stays open (bound:
\* MaxUnanswered of them), or a failure after which bytes are missing.
FailBlock(w) ==
    LET r == worker[w]
    IN  /\ r.thread = "block"
        /\ MoreToReceive(r)
        /\ \/ /\ r.in_frame
              /\ Len(r.unanswered) < MaxUnanswered
              /\ worker' = [worker EXCEPT ![w] =
                   Threw([r EXCEPT !.unanswered = Append(@, Request(r))])]
           \/ worker' = [worker EXCEPT ![w] = Threw(FrameLost(r))]

\* The piece that was downloaded last.
Recorded(r) == [r EXCEPT !.last_piece_idx = r.piece_idx,
                         !.have_piece_idx = NoPiece]

\* The loop is over: _download_piece records the piece and returns.
FinishPiece(w) ==
    LET r == worker[w]
    IN  /\ r.thread = "block"
        /\ ~MoreToReceive(r)
        /\ worker' = [worker EXCEPT ![w] = Returned(Recorded(r))]

\* A step of the thread of worker w after the connection is checked.
DownloadStep(w) ==
    \/ EnterDownload(w)
    \/ WaitHave(w)
    \/ ReceiveBlock(w)
    \/ FailBlock(w)
    \/ FinishPiece(w)

--------------------------------------------------------------------------------
(***************************************************************************)
(* What a worker hands over (its stream and last_piece_idx), once its      *)
(* transfer counts as complete.                                            *)
(***************************************************************************)
\* All the bytes the code expects of piece i, as peer w sent them.
IsPiece(c, i, w) ==
    /\ c.size = piece_len(i)
    /\ c.size > 0 /\ w \notin CorruptPeers => c.piece = i

\* In step with the peer, and no answer is due.
Undisturbed(r) == r.in_frame /\ r.unanswered = << >>

\* The piece it names; in have mode perhaps nothing, or bytes of other requests.
HandsOver(w, r) ==
    \/ IsPiece(r.buffer, r.last_piece_idx, w)
    \/ r.have_mode /\ (r.buffer = Empty \/ ~Undisturbed(r))

================================================================================
