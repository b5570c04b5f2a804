--------------------------- MODULE PieceWorker_proofs ---------------------------
(***************************************************************************)
(* Lemmas about a PieceWorker that its users need: the operators of        *)
(* PieceWorker have the types they seem to have, what one step of a thread *)
(* does to its worker, and how the buffer grows as a prefix of one piece,  *)
(* for all lengths and any peer.                                           *)
(***************************************************************************)
EXTENDS PieceWorker, TLAPS

--------------------------------------------------------------------------------
(***************************************************************************)
(* Types.                                                                  *)
(***************************************************************************)
USE DEF NoPiece, Foreign

\* The rest of the length by the piece length is a size (last_piece_len).
LEMMA RestOfLength ==
    /\ Length % PieceLength \in 0 .. PieceLength - 1
    /\ Length % PieceLength \in Sizes
BY CountsAssumption DEF Sizes

\* The length the code expects of a piece is a size (piece_len).
LEMMA PieceLenType == ASSUME NEW i \in Pieces PROVE piece_len(i) \in Sizes
BY RestOfLength, CountsAssumption DEF piece_len, Sizes

\* The length of a block is a size (block_len), also when the subtraction wraps.
LEMMA BlockLenType ==
    ASSUME NEW i \in Pieces, NEW n \in Sizes PROVE block_len(i, n) \in Sizes
BY PieceLenType, CountsAssumption DEF block_len, size_sub, Sizes

\* The request of a round is a request (pack_request_msg).
LEMMA RequestType ==
    ASSUME NEW r \in Workers PROVE Request(r) \in Requests
BY BlockLenType DEF Workers, Request, Requests

\* Taking a request out of a sequence of requests leaves one (an answer that
\* exchange reads).
LEMMA WithoutType ==
    ASSUME NEW S, NEW s \in Seq(S), NEW k \in DOMAIN s
    PROVE  Without(s, k) \in Seq(S)
<1>1. \A n \in 1 .. Len(s) - 1 : Without(s, k)[n] \in S
  BY DEF Without
<1>2. Len(s) - 1 \in Nat
  OBVIOUS
<1> QED
  BY <1>1, <1>2 DEF Without

\* A request that stays open is one more of the unanswered (exchange times out).
LEMMA OpenRequestType ==
    ASSUME NEW r \in Workers
    PROVE  [r EXCEPT !.unanswered = Append(@, Request(r))] \in Workers
<1>1. Append(r.unanswered, Request(r)) \in Seq(Requests)
  BY RequestType DEF Workers
<1> QED
  BY <1>1 DEF Workers

Blocks == [piece : Pieces \cup {Foreign}, begin : Nat, size : Sizes]

\* A peer answers with blocks.
LEMMA AnswersType ==
    ASSUME NEW w, NEW request \in Requests PROVE Answers(w, request) \subseteq Blocks
<1>1. request.index \in Pieces /\ request.begin \in Sizes /\ request.length \in Sizes
  BY DEF Requests
<1>2. request.begin \in Nat /\ 1 .. request.length \subseteq Sizes
  BY <1>1, CountsAssumption DEF Sizes
<1> QED
  BY <1>1, <1>2 DEF Answers, Blocks

\* Appending a block to a buffer gives a buffer (_ostream.write).
LEMMA WriteType ==
    ASSUME NEW b \in Contents, NEW block \in Blocks
    PROVE  ostream_write(b, block) \in Contents
BY CountsAssumption DEF ostream_write, Contents, Blocks, Sizes

\* The steps of a thread keep the worker a worker (client/piece.cpp).
LEMMA EndType ==
    ASSUME NEW r \in Workers
    PROVE  /\ Threw(r) \in Workers
           /\ Returned(r) \in Workers
           /\ FrameLost(r) \in Workers
           /\ Cleared(r) \in Workers
           /\ Recorded(r) \in Workers
           /\ Joined(r) \in Workers
           /\ ConnectStarted(r) \in Workers
<1>1. << >> \in Seq(Requests)
  OBVIOUS
<1>2. FrameLost(r) \in Workers
  BY <1>1 DEF Workers, FrameLost
<1>3. Cleared(r) \in Workers
  BY DEF Workers, Cleared, Empty, Contents
<1> QED
  BY <1>2, <1>3 DEF Workers, Joinable, Running, Threw, Returned, Recorded, Joined,
                    ConnectStarted

\* A worker with a connection is a worker (_connect_to_peer).
LEMMA ConnectedType ==
    ASSUME NEW r \in Workers, NEW w, NEW h \in InterestedAnswers(w)
    PROVE  /\ [Connected(r, h) EXCEPT !.thread = "ended"] \in Workers
           /\ Dialed(r, h) \in Workers
<1>1. h \in Pieces \cup {NoPiece}
  BY DEF InterestedAnswers
<1> QED
  BY <1>1, ZenonT(60) DEF Workers, Joinable, Running, Connected, Dialed

\* So is one that goes on with a piece (_download_piece).
LEMMA WithPieceType ==
    ASSUME NEW r \in Workers, NEW i \in Pieces
    PROVE  /\ WithPiece(r, i) \in Workers
           /\ DownloadStarted(r, i) \in Workers
<1>1. 0 \in Sizes
  BY CountsAssumption DEF Sizes
<1>2. WithPiece(r, i) \in Workers
  BY <1>1 DEF Workers, Joinable, Running, WithPiece
<1>3. DownloadStarted(r, i) \in Workers
  BY DEF Workers, Joinable, Running, DownloadStarted
<1> QED
  BY <1>2, <1>3

\* So is one that got a block.
LEMMA WithBlockType ==
    ASSUME NEW r \in Workers, NEW block \in Blocks
    PROVE  WithBlock(r, block) \in Workers
<1>1. ostream_write(r.buffer, block) \in Contents
  BY WriteType DEF Workers
<1>2. size_add(r.received_bytes, block.size) \in Sizes
  BY CountsAssumption DEF Workers, Blocks, size_add, Sizes
<1> QED
  BY <1>1, <1>2 DEF Workers, WithBlock

\* A worker just made has the type of one.
LEMMA NewWorkerType == NewWorker \in Workers
BY CountsAssumption DEF NewWorker, Workers, Joinable, Running, Pieces, Sizes,
                        Contents, Empty

\* A step of a thread keeps all workers workers.
LEMMA ThreadType ==
    ASSUME worker \in [Peers -> Workers], NEW w \in Peers,
           CheckConnection(w) \/ Dial(w) \/ DownloadStep(w)
    PROVE  worker' \in [Peers -> Workers]
<1> DEFINE r == worker[w]
<1>0. r \in Workers
  OBVIOUS
<1> SUFFICES \E s \in Workers : worker' = [worker EXCEPT ![w] = s]
  OBVIOUS
<1>1. CASE CheckConnection(w)
  BY <1>0, <1>1, ConnectedType, EndType DEF CheckConnection
<1>2. CASE EnterDownload(w)
  <2>1. Cleared(r) \in Workers
    BY <1>0, EndType
  <2>2. [Cleared(r) EXCEPT !.thread = "wait_have"] \in Workers
    BY <2>1 DEF Workers, Joinable, Running
  <2>3. /\ Cleared(r).index \in Pieces
        /\ Cleared(r).have_piece_idx # NoPiece => Cleared(r).have_piece_idx \in Pieces
    BY <2>1 DEF Workers
  <2> QED
    BY <1>2, <2>1, <2>2, <2>3, WithPieceType DEF EnterDownload
<1>3. CASE WaitHave(w)
  <2>1. \A s \in MaybeFrameLost(r) : Returned(s) \in Workers /\ Threw(s) \in Workers
    BY <1>0, EndType DEF MaybeFrameLost
  <2> QED
    BY <1>0, <1>3, <2>1, WithPieceType DEF WaitHave
<1>4. CASE ReceiveBlock(w)
  <2> DEFINE requests == Append(r.unanswered, Request(r))
  <2>1. requests \in Seq(Requests)
    BY <1>0, RequestType DEF Workers
  <2>2. ASSUME NEW k \in DOMAIN requests, NEW block \in Answers(w, requests[k])
        PROVE  [WithBlock(r, block) EXCEPT !.unanswered = Without(requests, k)]
                 \in Workers
    <3>1. requests[k] \in Requests
      BY <2>1
    <3>2. WithBlock(r, block) \in Workers
      BY <1>0, <3>1, AnswersType, WithBlockType
    <3>3. Without(requests, k) \in Seq(Requests)
      BY <2>1, WithoutType
    <3> QED
      BY <3>2, <3>3 DEF Workers
  <2>3. ASSUME NEW block \in AnyBytes(r)
        PROVE  WithBlock(r, block) \in Workers
    <3>1. block \in Blocks
      BY <1>0, CountsAssumption DEF AnyBytes, Blocks, Sizes, Workers, Contents
    <3> QED
      BY <1>0, <3>1, WithBlockType
  <2> QED
    BY <1>4, <2>2, <2>3 DEF ReceiveBlock
<1>5. CASE FailBlock(w)
  <2>1. [r EXCEPT !.unanswered = Append(@, Request(r))] \in Workers
    BY <1>0, OpenRequestType
  <2> QED
    BY <1>0, <1>5, <2>1, EndType DEF FailBlock
<1>6. CASE FinishPiece(w)
  BY <1>0, <1>6, EndType DEF FinishPiece
<1>7. CASE Dial(w)
  BY <1>0, <1>7, ConnectedType, EndType DEF Dial
<1> QED
  BY <1>1, <1>2, <1>3, <1>4, <1>5, <1>6, <1>7 DEF DownloadStep

--------------------------------------------------------------------------------
(***************************************************************************)
(* The length of the last piece.                                           *)
(***************************************************************************)
\* If no piece is left over, Length % PieceLength is the length of the last piece
\* (last_piece_len in _download_piece).
LEMMA PieceLenRight ==
    ASSUME Length % PieceLength # 0, NEW i \in Pieces
    PROVE  piece_len(i) = PieceSize(i)
<1> DEFINE n == PiecesCount - 1
           q == Length \div PieceLength
           m == Length % PieceLength
<1>1. /\ n \in Nat /\ PieceLength \in Nat \ {0} /\ Length \in Nat
      /\ n * PieceLength < Length
      /\ Length <= n * PieceLength + PieceLength
  BY CountsAssumption, TorrentAssumption
<1>2. /\ Length = PieceLength * q + m /\ q \in Int /\ m \in Int
      /\ 0 < m /\ m < PieceLength
  BY <1>1
<1>3. q = n
  <2> HIDE DEF q, m, n
  <2>1. ASSUME NEW d \in Nat PROVE PieceLength * d \in Nat
    BY <1>1, <2>1
  <2> DEFINE a == n * PieceLength
             b == PieceLength * q
             below == PieceLength * (n - 1 - q)
             above == PieceLength * (q - 1 - n)
  <2>2. /\ a \in Int /\ b \in Int /\ PieceLength \in Int /\ m \in Int
        /\ Length = b + m /\ 0 < m /\ m < PieceLength
        /\ a < Length /\ Length <= a + PieceLength
    BY <1>1, <1>2
  <2>3. a = b + PieceLength + below /\ b = a + PieceLength + above
    BY <1>1, <1>2
  <2>4. q < n => below \in Nat
    BY <1>1, <1>2, <2>1
  <2>5. q > n => above \in Nat
    BY <1>1, <1>2, <2>1
  <2> HIDE DEF a, b, below, above
  <2>6. ~(q < n) /\ ~(q > n)
    BY <2>2, <2>3, <2>4, <2>5
  <2> QED
    BY <1>1, <1>2, <2>6
<1>4. m = Length - n * PieceLength
  BY <1>1, <1>2, <1>3
<1> QED
  BY <1>4 DEF piece_len, PieceSize

--------------------------------------------------------------------------------
(***************************************************************************)
(* The buffer.                                                             *)
(***************************************************************************)
\* The buffer holds the bytes received, and they are a prefix of the piece.
Prefix(r) ==
    /\ r.buffer.size = r.received_bytes
    /\ r.received_bytes <= piece_len(r.piece_idx)
    /\ r.received_bytes > 0 => r.buffer.piece = r.piece_idx

\* The same of bytes as peer w sends them.
PrefixFrom(w, r) ==
    /\ r.buffer.size = r.received_bytes
    /\ r.received_bytes <= piece_len(r.piece_idx)
    /\ r.received_bytes > 0 /\ w \notin CorruptPeers => r.buffer.piece = r.piece_idx

\* The block a peer sends continues the piece, and neither the loop's subtraction
\* nor its addition wraps (the block loop of _download_piece).
LEMMA PrefixFromBlock ==
    ASSUME NEW w, NEW r \in Workers, PrefixFrom(w, r), MoreToReceive(r),
           NEW block \in Answers(w, Request(r))
    PROVE  PrefixFrom(w, WithBlock(r, block))
<1> DEFINE len == piece_len(r.piece_idx)
           got == r.received_bytes
<1>1. /\ r.piece_idx \in Pieces /\ got \in Sizes /\ len \in Sizes
      /\ r.buffer \in Contents /\ r.buffer.size = got
      /\ got > 0 /\ w \notin CorruptPeers => r.buffer.piece = r.piece_idx
      /\ got < len /\ len < SizeModulus
  <2>1. r.piece_idx \in Pieces /\ got \in Sizes /\ r.buffer \in Contents
    BY DEF Workers
  <2> QED
    BY <2>1, PieceLenType, CountsAssumption DEF PrefixFrom, MoreToReceive, Sizes
<1>2. Request(r).length \in Nat /\ Request(r).length <= len - got
  BY <1>1, CountsAssumption DEF Request, block_len, size_sub, Sizes
<1>3. /\ w \notin CorruptPeers => block.piece = r.piece_idx
      /\ block.begin = got /\ block.size \in 1 .. Request(r).length
  BY DEF Answers, Request
<1>4. size_add(got, block.size) = got + block.size /\ got + block.size <= len
  BY <1>1, <1>2, <1>3, CountsAssumption DEF size_add, Sizes
<1>5. /\ ostream_write(r.buffer, block).size = got + block.size
      /\ w \notin CorruptPeers => ostream_write(r.buffer, block).piece = r.piece_idx
  BY <1>1, <1>3, CountsAssumption DEF ostream_write, Sizes
<1>6. /\ WithBlock(r, block).buffer = ostream_write(r.buffer, block)
      /\ WithBlock(r, block).received_bytes = size_add(got, block.size)
      /\ WithBlock(r, block).piece_idx = r.piece_idx
  BY DEF WithBlock, Workers
<1> QED
  BY <1>4, <1>5, <1>6 DEF PrefixFrom

\* For an honest peer both say the same.
LEMMA PrefixBlock ==
    ASSUME NEW r \in Workers, Prefix(r), MoreToReceive(r),
           NEW w, w \notin CorruptPeers, NEW block \in Answers(w, Request(r))
    PROVE  Prefix(WithBlock(r, block))
<1>1. PrefixFrom(w, WithBlock(r, block))
  BY PrefixFromBlock DEF Prefix, PrefixFrom
<1> QED
  BY <1>1 DEF Prefix, PrefixFrom

\* No piece of a torrent is empty.
LEMMA PieceSizePositive == ASSUME NEW i PROVE PieceSize(i) > 0
<1>1. CASE i = PiecesCount - 1
  BY <1>1, CountsAssumption, TorrentAssumption DEF PieceSize
<1>2. CASE i # PiecesCount - 1
  BY <1>2, CountsAssumption DEF PieceSize
<1> QED
  BY <1>1, <1>2

\* When the block loop ends, the buffer is the piece, whole.
LEMMA PrefixIsPiece ==
    ASSUME Length % PieceLength # 0, NEW r \in Workers, Prefix(r), ~MoreToReceive(r)
    PROVE  r.buffer = Whole(r.piece_idx)
<1> DEFINE i == r.piece_idx
<1>1. i \in Pieces /\ r.buffer \in Contents
  BY DEF Workers
<1>2. r.received_bytes = PieceSize(i)
  BY <1>1, PieceLenRight DEF MoreToReceive
<1>3. PieceSize(i) > 0
  BY PieceSizePositive
<1> QED
  BY <1>1, <1>2, <1>3 DEF Prefix, Whole, Contents

--------------------------------------------------------------------------------
(***************************************************************************)
(* Outcomes.                                                               *)
(***************************************************************************)
\* What a step of a thread leaves alone: its worker was and stays started, is
\* not about to connect, and an end of a download has an outcome.
LEMMA ThreadOutcome ==
    ASSUME worker \in [Peers -> Workers], NEW w \in Peers,
           CheckConnection(w) \/ DownloadStep(w)
    PROVE  /\ \A v \in Peers \ {w} : worker'[v] = worker[v]
           /\ started(worker[w]) /\ started(worker'[w])
           /\ ~HasEnded(worker[w])
           /\ worker[w].thread # "connect" =>
                /\ worker'[w].thread # "connect"
                /\ worker'[w].thread = "ended" =>
                     \/ worker'[w].is_piece_transfer_complete
                     \/ worker'[w].exception
<1> DEFINE r == worker[w]
           Fine(s) == \/ s.thread \in {"wait_have", "dial", "block"}
                      \/ /\ s.thread = "ended"
                         /\ s.is_piece_transfer_complete \/ s.exception
<1>0. r \in Workers
  OBVIOUS
<1> USE DEF started, HasEnded, Joinable, Running
<1>1. CASE CheckConnection(w)
  <2>1. \A h : [Connected(r, h) EXCEPT !.thread = "ended"].thread = "ended"
    BY <1>0 DEF Connected, Workers
  <2>2. Threw(r).thread = "ended"
    BY <1>0 DEF Threw, Workers
  <2>3. r.thread = "connect" /\ \E s : s.thread = "ended" /\ worker' = [worker EXCEPT ![w] = s]
    BY <1>1, <2>1, <2>2 DEF CheckConnection
  <2> QED
    BY <2>3
<1>2. CASE DownloadStep(w)
  <2>1. r.thread \in {"enter", "wait_have", "block"}
    BY <1>2 DEF DownloadStep, EnterDownload, WaitHave, ReceiveBlock, FailBlock,
                FinishPiece
  <2>2. \A s \in Workers : Fine(Threw(s)) /\ Fine(Returned(s))
    BY DEF Threw, Returned, Workers
  <2>3. \A s \in Workers, i \in Pieces : Fine(WithPiece(s, i))
    BY DEF WithPiece, Workers
  <2>4. \E s : Fine(s) /\ worker' = [worker EXCEPT ![w] = s]
    <3>1. CASE EnterDownload(w)
      <4>1. Cleared(r) \in Workers
        BY <1>0, EndType
      <4>2. Fine([Cleared(r) EXCEPT !.thread = "wait_have"])
        BY <4>1 DEF Workers
      <4>3. /\ Cleared(r).index \in Pieces
            /\ Cleared(r).have_piece_idx # NoPiece =>
                 Cleared(r).have_piece_idx \in Pieces
        BY <4>1 DEF Workers
      <4> HIDE DEF Fine
      <4> QED
        BY <3>1, <2>3, <4>1, <4>2, <4>3 DEF EnterDownload
    <3>2. CASE WaitHave(w)
      <4>1. \A s \in MaybeFrameLost(r) : s \in Workers
        BY <1>0, EndType DEF MaybeFrameLost
      <4> HIDE DEF Fine
      <4> QED
        BY <1>0, <3>2, <2>2, <2>3, <4>1 DEF WaitHave
    <3>3. CASE ReceiveBlock(w)
      <4>1. \A block, u :
              /\ [WithBlock(r, block) EXCEPT !.unanswered = u].thread = r.thread
              /\ WithBlock(r, block).thread = r.thread
        BY <1>0 DEF WithBlock, Workers
      <4>2. r.thread = "block"
        BY <3>3 DEF ReceiveBlock
      <4> QED
        BY <3>3, <4>1, <4>2 DEF ReceiveBlock
    <3>4. CASE FailBlock(w)
      <4>1. \A s \in {[r EXCEPT !.unanswered = Append(@, Request(r))], FrameLost(r)} :
              Threw(s).thread = "ended" /\ Threw(s).exception
        BY <1>0 DEF Threw, FrameLost, Workers
      <4> QED
        BY <3>4, <4>1 DEF FailBlock
    <3>5. CASE FinishPiece(w)
      <4>1. Recorded(r) \in Workers
        BY <1>0, EndType
      <4> HIDE DEF Fine
      <4> QED
        BY <3>5, <2>2, <4>1 DEF FinishPiece
    <3> QED
      BY <1>2, <3>1, <3>2, <3>3, <3>4, <3>5 DEF DownloadStep
  <2> QED
    BY <2>1, <2>4
<1> QED
  BY <1>1, <1>2

\* What a thread does not undo: its connection and have mode stay, its transfer
\* is complete only when it ends, and it ends incomplete when it throws.
LEMMA ThreadKeeps ==
    ASSUME worker \in [Peers -> Workers], NEW w \in Peers,
           CheckConnection(w) \/ Dial(w) \/ DownloadStep(w),
           ~worker[w].is_piece_transfer_complete
    PROVE  LET r == worker[w]
               s == worker'[w]
           IN  /\ s.thread \in Running => ~s.is_piece_transfer_complete
               /\ s.exception => r.exception \/ (s.thread = "ended" /\ ~s.is_piece_transfer_complete)
               /\ r.have_mode => s.have_mode
               /\ r.is_peer_connection_established => s.is_peer_connection_established
<1> DEFINE r == worker[w]
           Keeps(s) == /\ s.thread \in Running => ~s.is_piece_transfer_complete
                       /\ s.exception =>
                            r.exception \/ (s.thread = "ended" /\ ~s.is_piece_transfer_complete)
                       /\ r.have_mode => s.have_mode
                       /\ r.is_peer_connection_established => s.is_peer_connection_established
           Like(s) == /\ s \in Workers
                      /\ s.is_piece_transfer_complete = r.is_piece_transfer_complete
                      /\ s.exception = r.exception
                      /\ r.have_mode => s.have_mode
                      /\ r.is_peer_connection_established => s.is_peer_connection_established
<1>0. r \in Workers /\ ~r.is_piece_transfer_complete
  OBVIOUS
<1>1. Like(r)
  BY <1>0
<1>2. ASSUME NEW s, Like(s) PROVE Keeps(s) /\ Keeps(Threw(s)) /\ Keeps(Returned(s))
  BY <1>0, <1>2 DEF Threw, Returned, Workers, Running
<1>3. ASSUME NEW s, Like(s) PROVE Like(FrameLost(s)) /\ Like(Cleared(s)) /\ Like(Recorded(s))
  BY <1>3, EndType, ZenonT(60) DEF FrameLost, Cleared, Recorded, Workers
<1>4. ASSUME NEW s, Like(s), NEW i \in Pieces PROVE Like(WithPiece(s, i))
  BY <1>4, WithPieceType, ZenonT(60) DEF WithPiece, Workers
<1> HIDE DEF Like, Keeps
<1> SUFFICES \E s : Keeps(s) /\ worker' = [worker EXCEPT ![w] = s]
  BY DEF Keeps
<1>5. CASE CheckConnection(w)
  <2>1. ASSUME NEW h \in InterestedAnswers(w)
        PROVE  Keeps([Connected(r, h) EXCEPT !.thread = "ended"])
    BY <1>0 DEF Keeps, Connected, Workers, Running
  <2> QED
    BY <1>1, <1>2, <1>5, <2>1 DEF CheckConnection
<1>6. CASE Dial(w)
  <2>1. ASSUME NEW h \in InterestedAnswers(w) PROVE Keeps(Dialed(r, h))
    BY <1>0 DEF Keeps, Dialed, Connected, Workers, Running
  <2> QED
    BY <1>1, <1>2, <1>6, <2>1 DEF Dial
<1>7. CASE EnterDownload(w)
  <2>1. Like(Cleared(r))
    BY <1>1, <1>3
  <2>2. /\ Cleared(r).index \in Pieces
        /\ Cleared(r).have_piece_idx # NoPiece => Cleared(r).have_piece_idx \in Pieces
    BY <2>1 DEF Like, Workers
  <2>3. Keeps([Cleared(r) EXCEPT !.thread = "wait_have"])
    BY <1>0, <2>1 DEF Like, Keeps, Workers, Running
  <2> QED
    BY <1>2, <1>4, <1>7, <2>1, <2>2, <2>3 DEF EnterDownload
<1>8. CASE WaitHave(w)
  BY <1>1, <1>2, <1>3, <1>4, <1>8 DEF WaitHave, MaybeFrameLost
<1>9. CASE ReceiveBlock(w)
  <2>1. ASSUME NEW block, NEW u
        PROVE  Keeps(WithBlock(r, block)) /\ Keeps([WithBlock(r, block) EXCEPT !.unanswered = u])
    BY <1>0 DEF Keeps, WithBlock, Workers
  <2> QED
    BY <1>9, <2>1 DEF ReceiveBlock
<1>10. CASE FailBlock(w)
  <2>1. Like([r EXCEPT !.unanswered = Append(@, Request(r))])
    BY <1>0, OpenRequestType DEF Like, Workers
  <2> QED
    BY <1>1, <1>2, <1>3, <1>10, <2>1 DEF FailBlock
<1>11. CASE FinishPiece(w)
  BY <1>1, <1>2, <1>3, <1>11 DEF FinishPiece
<1> QED
  BY <1>5, <1>6, <1>7, <1>8, <1>9, <1>10, <1>11 DEF DownloadStep

--------------------------------------------------------------------------------
(***************************************************************************)
(* What a worker hands over.                                               *)
(***************************************************************************)
\* What is known of the worker of peer w at any time: as long as its thread runs,
\* it is in step with the peer or in have mode, and if no answer is due its buffer
\* is a prefix of the piece; what it has at the end it may hand over.
WorkerSound(w, r) ==
    /\ r.thread \in Running =>
         /\ ~r.is_piece_transfer_complete
         /\ r.have_mode \/ (Undisturbed(r) /\ ~r.exception)
    /\ r.have_piece_idx # NoPiece \/ r.thread = "wait_have" => r.have_mode
    /\ r.thread = "wait_have" => r.buffer = Empty
    /\ r.thread \in {"dial", "block"} /\ Undisturbed(r) => PrefixFrom(w, r)
    /\ r.thread \notin Running =>
         /\ r.is_piece_transfer_complete => HandsOver(w, r)
         /\ r.have_mode \/ Undisturbed(r) \/ r.exception

\* _download_piece goes on with a piece and an empty buffer.
LEMMA SoundWithPiece ==
    ASSUME NEW w, NEW r \in Workers, NEW i \in Pieces, r.buffer = Empty,
           ~r.is_piece_transfer_complete,
           r.have_mode \/ (Undisturbed(r) /\ ~r.exception)
    PROVE  WorkerSound(w, WithPiece(r, i))
<1> DEFINE s == WithPiece(r, i)
<1>1. /\ s.thread \in {"block", "dial"} /\ s.piece_idx = i
      /\ s.have_piece_idx = NoPiece /\ s.received_bytes = 0 /\ s.buffer = Empty
      /\ s.is_piece_transfer_complete = r.is_piece_transfer_complete
      /\ s.have_mode = r.have_mode /\ s.exception = r.exception
      /\ s.in_frame = r.in_frame /\ s.unanswered = r.unanswered
  BY DEF WithPiece, Workers
<1>2. piece_len(i) >= 0
  BY PieceLenType DEF Sizes
<1> HIDE DEF s
<1>3. WorkerSound(w, s)
  BY <1>1, <1>2 DEF WorkerSound, Undisturbed, PrefixFrom, Empty, Running
<1> QED
  BY <1>3 DEF s

\* An exception leaves a worker that has nothing to hand over (the catch of the
\* thread's function).
LEMMA SoundThrew ==
    ASSUME NEW w, NEW r \in Workers, ~r.is_piece_transfer_complete,
           r.have_piece_idx # NoPiece => r.have_mode
    PROVE  WorkerSound(w, Threw(r))
<1>1. /\ Threw(r).thread = "ended" /\ Threw(r).exception
      /\ ~Threw(r).is_piece_transfer_complete
      /\ Threw(r).have_piece_idx = r.have_piece_idx /\ Threw(r).have_mode = r.have_mode
  BY DEF Threw, Workers
<1> QED
  BY <1>1 DEF WorkerSound, Running

\* A block that comes keeps what is known, also when it answers another request.
LEMMA SoundReceive ==
    ASSUME worker \in [Peers -> Workers], NEW w \in Peers,
           WorkerSound(w, worker[w]), ReceiveBlock(w)
    PROVE  WorkerSound(w, worker'[w])
<1> DEFINE r == worker[w]
           requests == Append(r.unanswered, Request(r))
<1>0. /\ r \in Workers /\ r.thread = "block" /\ MoreToReceive(r)
      /\ ~r.is_piece_transfer_complete
      /\ r.have_mode \/ (Undisturbed(r) /\ ~r.exception)
      /\ r.have_piece_idx # NoPiece => r.have_mode
      /\ Undisturbed(r) => PrefixFrom(w, r)
  BY DEF ReceiveBlock, WorkerSound, Running
\* All but the buffer and the open requests stays as it is.
<1>1. ASSUME NEW s, NEW u, NEW block,
             s = [WithBlock(r, block) EXCEPT !.unanswered = u],
             s.in_frame /\ u = << >> => PrefixFrom(w, s),
             r.have_mode \/ (s.in_frame /\ u = << >>)
      PROVE  WorkerSound(w, s)
  <2>1. /\ s.thread = "block" /\ s.unanswered = u /\ s.in_frame = r.in_frame
        /\ s.have_mode = r.have_mode /\ s.have_piece_idx = r.have_piece_idx
        /\ s.exception = r.exception
        /\ s.is_piece_transfer_complete = r.is_piece_transfer_complete
    BY <1>0, <1>1 DEF WithBlock, Workers
  <2> QED
    BY <1>0, <1>1, <2>1 DEF WorkerSound, Undisturbed, Running
<1>2. CASE r.in_frame /\ r.unanswered = << >>
  <2>1. DOMAIN requests = {1} /\ requests[1] = Request(r) /\ Without(requests, 1) = << >>
    BY <1>2 DEF Without
  <2>2. PICK k \in DOMAIN requests : \E block \in Answers(w, requests[k]) :
          worker' = [worker EXCEPT ![w] =
            [WithBlock(r, block) EXCEPT !.unanswered = Without(requests, k)]]
    BY <1>2 DEF ReceiveBlock
  <2>3. PICK block \in Answers(w, Request(r)) :
          worker' = [worker EXCEPT ![w] = [WithBlock(r, block) EXCEPT !.unanswered = << >>]]
    <3>1. k = 1
      BY <2>1
    <3> QED
      BY <2>1, <2>2, <3>1
  <2> DEFINE s == [WithBlock(r, block) EXCEPT !.unanswered = << >>]
  <2>4. PrefixFrom(w, s)
    <3>1. PrefixFrom(w, WithBlock(r, block))
      BY <1>0, <1>2, PrefixFromBlock DEF Undisturbed
    <3>2. /\ s.buffer = WithBlock(r, block).buffer
          /\ s.received_bytes = WithBlock(r, block).received_bytes
          /\ s.piece_idx = WithBlock(r, block).piece_idx
      BY <1>0 DEF WithBlock, Workers
    <3> QED
      BY <3>1, <3>2 DEF PrefixFrom
  <2>5. s.in_frame
    BY <1>0, <1>2 DEF WithBlock, Workers
  <2>6. WorkerSound(w, s)
    BY <1>1, <2>4, <2>5
  <2> QED
    BY <2>3, <2>6
<1>3. CASE r.in_frame /\ r.unanswered # << >>
  <2>1. PICK k \in DOMAIN requests : \E block \in Answers(w, requests[k]) :
          worker' = [worker EXCEPT ![w] =
            [WithBlock(r, block) EXCEPT !.unanswered = Without(requests, k)]]
    BY <1>3 DEF ReceiveBlock
  <2>2. Without(requests, k) # << >>
    <3>1. r.unanswered \in Seq(Requests)
      BY <1>0 DEF Workers
    <3>2. Len(requests) = Len(r.unanswered) + 1 /\ Len(r.unanswered) \in Nat \ {0}
      BY <1>3, <3>1
    <3>3. DOMAIN Without(requests, k) = 1 .. Len(r.unanswered)
      BY <3>2 DEF Without
    <3> QED
      BY <3>2, <3>3
  <2>3. r.have_mode
    BY <1>0, <1>3 DEF Undisturbed
  <2>4. PICK block : worker'[w] =
          [WithBlock(r, block) EXCEPT !.unanswered = Without(requests, k)]
    BY <2>1
  <2> QED
    BY <1>1, <2>2, <2>3, <2>4
<1>4. CASE ~r.in_frame
  <2>1. PICK block : worker'[w] = WithBlock(r, block)
    BY <1>4 DEF ReceiveBlock
  <2>2. WithBlock(r, block) = [WithBlock(r, block) EXCEPT !.unanswered = r.unanswered]
    BY <1>0 DEF WithBlock, Workers
  <2>3. ~WithBlock(r, block).in_frame
    BY <1>0, <1>4 DEF WithBlock, Workers
  <2>4. r.have_mode
    BY <1>0, <1>4 DEF Undisturbed
  <2>5. WorkerSound(w, WithBlock(r, block))
    BY <1>1, <2>2, <2>3, <2>4
  <2> QED
    BY <2>1, <2>5
<1> QED
  BY <1>2, <1>3, <1>4

\* Every step of a thread keeps what is known of its worker (client/piece.cpp).
LEMMA SoundThread ==
    ASSUME worker \in [Peers -> Workers], NEW w \in Peers,
           WorkerSound(w, worker[w]),
           CheckConnection(w) \/ Dial(w) \/ DownloadStep(w)
    PROVE  WorkerSound(w, worker'[w])
<1> DEFINE r == worker[w]
<1>0. r \in Workers /\ WorkerSound(w, r)
  OBVIOUS
<1> SUFFICES \E s : WorkerSound(w, s) /\ worker' = [worker EXCEPT ![w] = s]
  BY <1>0
\* What holds of a running thread.
<1>1. ASSUME r.thread \in Running
      PROVE  /\ ~r.is_piece_transfer_complete
             /\ r.have_mode \/ (Undisturbed(r) /\ ~r.exception)
             /\ r.have_piece_idx # NoPiece => r.have_mode
  BY <1>0, <1>1 DEF WorkerSound
\* Connecting can only add have mode.
<1>2. ASSUME NEW h \in InterestedAnswers(w), r.thread \in Running
      PROVE  LET c == Connected(r, h)
             IN  /\ ~c.is_piece_transfer_complete
                 /\ c.have_mode \/ (Undisturbed(c) /\ ~c.exception)
                 /\ c.have_piece_idx # NoPiece => c.have_mode
                 /\ Undisturbed(c) = Undisturbed(r)
                 /\ PrefixFrom(w, r) => PrefixFrom(w, c)
                 /\ \A t : LET e == [c EXCEPT !.thread = t]
                           IN  /\ e.thread = t
                               /\ e.is_piece_transfer_complete = c.is_piece_transfer_complete
                               /\ e.have_mode = c.have_mode /\ e.exception = c.exception
                               /\ e.have_piece_idx = c.have_piece_idx
                               /\ Undisturbed(e) = Undisturbed(c)
                               /\ PrefixFrom(w, c) => PrefixFrom(w, e)
  <2> DEFINE c == Connected(r, h)
  <2>1. /\ c.have_mode = (r.have_mode \/ h # NoPiece)
        /\ c.have_piece_idx = IF h # NoPiece THEN h ELSE r.have_piece_idx
        /\ c.is_piece_transfer_complete = r.is_piece_transfer_complete
        /\ c.exception = r.exception /\ c.in_frame = r.in_frame
        /\ c.unanswered = r.unanswered /\ c.buffer = r.buffer
        /\ c.received_bytes = r.received_bytes /\ c.piece_idx = r.piece_idx
    BY <1>0 DEF Connected, Workers
  <2>2. \A t : LET e == [c EXCEPT !.thread = t]
               IN  /\ e.thread = t
                   /\ e.is_piece_transfer_complete = c.is_piece_transfer_complete
                   /\ e.have_mode = c.have_mode /\ e.exception = c.exception
                   /\ e.have_piece_idx = c.have_piece_idx
                   /\ e.in_frame = c.in_frame /\ e.unanswered = c.unanswered
                   /\ e.buffer = c.buffer /\ e.received_bytes = c.received_bytes
                   /\ e.piece_idx = c.piece_idx
    BY <1>0 DEF Connected, Workers
  <2> HIDE DEF c
  <2> QED
    BY <1>1, <1>2, <2>1, <2>2 DEF Undisturbed, PrefixFrom, c
<1>3. CASE CheckConnection(w)
  <2>1. r.thread = "connect" /\ r.thread \in Running
    BY <1>3 DEF CheckConnection, Running
  <2>2. ASSUME NEW h \in InterestedAnswers(w)
        PROVE  WorkerSound(w, [Connected(r, h) EXCEPT !.thread = "ended"])
    BY <1>2, <2>1 DEF WorkerSound, Running
  <2> QED
    BY <1>0, <1>1, <1>3, <2>1, <2>2, SoundThrew DEF CheckConnection
<1>4. CASE Dial(w)
  <2>1. r.thread = "dial" /\ r.thread \in Running /\ (Undisturbed(r) => PrefixFrom(w, r))
    BY <1>0, <1>4 DEF Dial, Running, WorkerSound
  <2>2. ASSUME NEW h \in InterestedAnswers(w) PROVE WorkerSound(w, Dialed(r, h))
    BY <1>2, <2>1 DEF WorkerSound, Dialed, Running
  <2> QED
    BY <1>0, <1>1, <1>4, <2>1, <2>2, SoundThrew DEF Dial
<1>5. CASE EnterDownload(w)
  <2> DEFINE c == Cleared(r)
  <2>1. r.thread = "enter" /\ r.thread \in Running
    BY <1>5 DEF EnterDownload, Running
  <2>2. /\ c \in Workers /\ c.buffer = Empty /\ c.index \in Pieces
        /\ c.have_piece_idx \in Pieces \cup {NoPiece}
        /\ c.have_piece_idx = r.have_piece_idx /\ c.have_mode = r.have_mode
        /\ c.exception = r.exception /\ c.in_frame = r.in_frame
        /\ c.unanswered = r.unanswered
        /\ c.is_piece_transfer_complete = r.is_piece_transfer_complete
    BY <1>0, EndType DEF Cleared, Workers
  <2>3. ASSUME r.have_mode PROVE WorkerSound(w, [c EXCEPT !.thread = "wait_have"])
    <3> DEFINE s == [c EXCEPT !.thread = "wait_have"]
    <3>1. /\ s.thread = "wait_have" /\ s.buffer = Empty /\ s.have_mode
          /\ s.is_piece_transfer_complete = r.is_piece_transfer_complete
      BY <2>2, <2>3 DEF Workers
    <3> HIDE DEF s
    <3>2. WorkerSound(w, s)
      BY <1>1, <2>1, <3>1 DEF WorkerSound, Running
    <3> QED
      BY <3>2 DEF s
  <2>4. ASSUME NEW i \in Pieces PROVE WorkerSound(w, WithPiece(c, i))
    BY <1>1, <2>1, <2>2, SoundWithPiece DEF Undisturbed
  <2> QED
    BY <1>5, <2>2, <2>3, <2>4 DEF EnterDownload
<1>6. CASE WaitHave(w)
  <2>1. /\ r.thread = "wait_have" /\ r.thread \in Running /\ r.have_mode /\ r.buffer = Empty
    BY <1>0, <1>6 DEF WaitHave, WorkerSound, Running
  <2>2. ASSUME NEW s \in MaybeFrameLost(r)
        PROVE  WorkerSound(w, Returned(s)) /\ WorkerSound(w, Threw(s))
    <3>1. /\ s \in Workers /\ s.have_mode /\ s.buffer = Empty
          /\ s.is_piece_transfer_complete = r.is_piece_transfer_complete
      <4>1. CASE s = r
        BY <1>0, <1>1, <2>1, <4>1
      <4>2. CASE s = FrameLost(r)
        <5>1. s \in Workers
          BY <1>0, <4>2, EndType
        <5>2. /\ s.have_mode = r.have_mode /\ s.buffer = r.buffer
              /\ s.is_piece_transfer_complete = r.is_piece_transfer_complete
          BY <1>0, <4>2 DEF FrameLost, Workers
        <5> QED
          BY <2>1, <5>1, <5>2
      <4> QED
        BY <2>2, <4>1, <4>2 DEF MaybeFrameLost
    <3>2. /\ Returned(s).thread = "ended" /\ Returned(s).have_mode
          /\ Returned(s).buffer = Empty
      BY <3>1 DEF Returned, Workers
    <3> QED
      BY <1>1, <2>1, <3>1, <3>2, SoundThrew DEF WorkerSound, HandsOver, Running
  <2>3. ASSUME NEW h \in Pieces PROVE WorkerSound(w, WithPiece(r, h))
    BY <1>0, <1>1, <2>1, SoundWithPiece
  <2> QED
    BY <1>6, <2>2, <2>3 DEF WaitHave
<1>7. CASE ReceiveBlock(w)
  <2>1. WorkerSound(w, worker'[w])
    BY <1>7, SoundReceive
  <2>2. \E s : worker' = [worker EXCEPT ![w] = s]
    BY <1>7 DEF ReceiveBlock
  <2> QED
    BY <2>1, <2>2
<1>8. CASE FailBlock(w)
  <2>1. r.thread = "block" /\ r.thread \in Running
    BY <1>8 DEF FailBlock, Running
  <2>2. PICK t \in {[r EXCEPT !.unanswered = Append(@, Request(r))], FrameLost(r)} :
          worker' = [worker EXCEPT ![w] = Threw(t)]
    BY <1>8 DEF FailBlock
  <2>3. t \in Workers
    BY <1>0, <2>2, EndType, OpenRequestType
  <2>4. /\ t.have_mode = r.have_mode /\ t.have_piece_idx = r.have_piece_idx
        /\ t.is_piece_transfer_complete = r.is_piece_transfer_complete
    BY <1>0, <2>2 DEF FrameLost, Workers
  <2> QED
    BY <1>1, <2>1, <2>2, <2>3, <2>4, SoundThrew
<1>9. CASE FinishPiece(w)
  <2> DEFINE s == Returned(Recorded(r))
  <2>1. /\ r.thread = "block" /\ r.thread \in Running /\ ~MoreToReceive(r)
        /\ Undisturbed(r) => PrefixFrom(w, r)
    BY <1>0, <1>9 DEF FinishPiece, WorkerSound, Running
  <2>2. /\ s.thread = "ended" /\ s.last_piece_idx = r.piece_idx
        /\ s.have_piece_idx = NoPiece /\ s.have_mode = r.have_mode
        /\ s.in_frame = r.in_frame /\ s.unanswered = r.unanswered /\ s.buffer = r.buffer
    BY <1>0 DEF Returned, Recorded, Workers
  <2>3. Undisturbed(r) => IsPiece(r.buffer, r.piece_idx, w)
    BY <1>0, <2>1 DEF PrefixFrom, IsPiece, MoreToReceive
  <2> HIDE DEF s
  <2>4. WorkerSound(w, s)
    BY <1>1, <2>1, <2>2, <2>3 DEF WorkerSound, HandsOver, Undisturbed, Running
  <2> QED
    BY <1>9, <2>4 DEF FinishPiece, s
<1> QED
  BY <1>3, <1>4, <1>5, <1>6, <1>7, <1>8, <1>9 DEF DownloadStep

\* What the callers do with a worker keeps what is known of it, if they start no
\* worker again that threw, unless it is in have mode.
LEMMA SoundCalls ==
    ASSUME NEW w, NEW r \in Workers, WorkerSound(w, r)
    PROVE  /\ r.thread = "ended" => WorkerSound(w, Joined(r))
           /\ r.thread = "none" /\ (r.exception => r.have_mode) =>
                \A i \in Pieces : WorkerSound(w, DownloadStarted(r, i))
<1>1. ASSUME r.thread = "ended" PROVE WorkerSound(w, Joined(r))
  <2>1. /\ Joined(r).thread = "none" /\ Joined(r).have_mode = r.have_mode
        /\ Joined(r).have_piece_idx = r.have_piece_idx
        /\ Joined(r).exception = r.exception /\ Joined(r).in_frame = r.in_frame
        /\ Joined(r).unanswered = r.unanswered /\ Joined(r).buffer = r.buffer
        /\ Joined(r).is_piece_transfer_complete = r.is_piece_transfer_complete
        /\ Joined(r).last_piece_idx = r.last_piece_idx
    BY DEF Joined, Workers
  <2> QED
    BY <1>1, <2>1 DEF WorkerSound, HandsOver, Undisturbed, Running
<1>2. ASSUME r.thread = "none", r.exception => r.have_mode, NEW i \in Pieces
      PROVE  WorkerSound(w, DownloadStarted(r, i))
  <2> DEFINE s == DownloadStarted(r, i)
  <2>1. /\ s.thread = "enter" /\ s.have_mode = r.have_mode
        /\ s.have_piece_idx = r.have_piece_idx /\ s.exception = r.exception
        /\ s.in_frame = r.in_frame /\ s.unanswered = r.unanswered
        /\ ~s.is_piece_transfer_complete
    BY DEF DownloadStarted, Workers
  <2> HIDE DEF s
  <2>2. WorkerSound(w, s)
    BY <1>2, <2>1 DEF WorkerSound, Undisturbed, Running
  <2> QED
    BY <2>2 DEF s
<1> QED
  BY <1>1, <1>2

\* So it is of a new worker, and of one that starts to connect.
LEMMA NewWorkerSound ==
    ASSUME NEW w
    PROVE  WorkerSound(w, NewWorker) /\ WorkerSound(w, ConnectStarted(NewWorker))
<1>1. WorkerSound(w, NewWorker)
  BY DEF WorkerSound, NewWorker, Undisturbed, Running
<1>2. WorkerSound(w, ConnectStarted(NewWorker))
  BY DEF WorkerSound, NewWorker, ConnectStarted, Undisturbed, Running
<1> QED
  BY <1>1, <1>2

================================================================================
