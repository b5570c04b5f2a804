------------------------- MODULE PeerConnection_proofs -------------------------
(***************************************************************************)
(* Proofs about PeerConnection: for any sizes of messages and pieces, and  *)
(* whatever the peer sends and wherever its messages are cut.              *)
(***************************************************************************)
EXTENDS PeerConnection, PieceWorker_proofs

--------------------------------------------------------------------------------
(***************************************************************************)
(* The inductive invariant.                                                *)
(***************************************************************************)
\* What every message has.
Ids == {"none", "choke", "unchoke", "keep_alive", "handshake", "other_torrent",
        "bitfield", "have", "piece"}
MessageRecords ==
    [id : Ids, size : Nat, index : Pieces \cup {NoPiece}, request : Requests,
     block : [piece : Pieces \cup {NoPiece, Foreign}, begin : Nat, size : Nat]]
Bytes == [message : MessageRecords, at : Nat]

\* A stream holds every message from some byte of it on to its last, and after
\* the last byte of a message the first of another.
Framed(s) ==
    \A k \in 1 .. Len(s) :
        LET m == s[k].message
            left == m.size - s[k].at
        IN  /\ s[k].at \in 1 .. m.size
            /\ k + left <= Len(s)
            /\ \A j \in 0 .. left : s[k + j] = [message |-> m, at |-> s[k].at + j]
            /\ k + left < Len(s) => s[k + left + 1].at = 1

Typed ==
    /\ worker \in [Peers -> Workers]
    /\ call \in Calls
    /\ header \in MessageRecords
    /\ stream \in Seq(Bytes)
    /\ outstanding \in Seq(Requests)
    /\ link \in {"in_step", "out_of_step", "closed"}
    /\ messages \in 0 .. MaxMessages

\* The calls a thread makes, and what the header of a body says.
CallKnown ==
    /\ call \in {"handshake", "bitfield", "bitfield_body", "interested"} =>
         thread.thread \in {"connect", "dial"}
    /\ call = "wait_have" => thread.thread = "wait_have"
    /\ thread.thread = "wait_have" => call \in {"wait_have", "have_body"}
    /\ call = "have_body" => thread.thread \in {"connect", "dial", "wait_have"}
    /\ call \in {"request", "piece_body"} => thread.thread = "block" /\ MoreToReceive(thread)
    /\ call = "bitfield_body" => header \in Bitfields
    /\ call = "have_body" => header \in Haves
    /\ call = "piece_body" => header \in PieceMessages

\* A connection in step is at a message or at the body that is being read; one
\* that is not has nothing left to read.
LinkKnown ==
    /\ Framed(stream)
    /\ link = "in_step" => InFrame
    /\ link # "in_step" => stream = << >> /\ outstanding = << >>
    /\ call \in BodyCalls =>
         link = "in_step" /\ IF Wanted > 0 THEN stream[1].message = header ELSE AtMessage
    /\ call = "handshake" /\ stream # << >> => stream[1].message \in Handshakes
    /\ call \in {"request", "piece_body"} /\ link = "in_step" =>
         outstanding # << >> /\ outstanding[Len(outstanding)] = Request(thread)

\* A worker without a connection has not used it yet, or has thrown.
EstablishedKnown ==
    /\ ~thread.is_peer_connection_established =>
         /\ outstanding = << >> /\ ~thread.have_mode /\ thread.have_piece_idx = NoPiece
         /\ ~thread.exception /\ call = "none" => stream = << >>
         /\ ~thread.exception => link = "in_step"
         /\ thread.thread \in Running => ~thread.exception
    /\ thread.thread \in {"connect", "dial"} => ~thread.is_peer_connection_established
    /\ thread.thread = "wait_have" => thread.have_mode
    /\ thread.thread = "block" => thread.is_peer_connection_established

ConnectionInv == Typed /\ CallKnown /\ LinkKnown /\ EstablishedKnown /\ OthersInStep

\* The data, if the peer sends the torrent's bytes and the last piece is shorter
\* than the others: with no request of an earlier download open, the buffer holds
\* a prefix of the piece, and nothing while an announcement is waited for.
HonestPeer ==
    /\ ThePeer \notin CorruptPeers
    /\ Length % PieceLength # 0
OpenBefore == IF call \in {"request", "piece_body"} THEN 1 ELSE 0
DataInv ==
    /\ thread.thread = "wait_have" => thread.buffer = Empty
    /\ thread.thread = "dial" => Prefix(thread)
    /\ thread.thread = "block" /\ link = "in_step" /\ Len(outstanding) = OpenBefore =>
         Prefix(thread)
    /\ thread.thread \in Running => ~thread.is_piece_transfer_complete
    /\ thread.is_piece_transfer_complete /\ link = "in_step" /\ outstanding = << >> =>
         thread.buffer \in {Empty, Whole(thread.last_piece_idx)}

--------------------------------------------------------------------------------
(***************************************************************************)
(* Types.                                                                  *)
(***************************************************************************)
\* There is one peer.
LEMMA ThePeerKnown == ThePeer \in Peers
BY OnePeerAssumption DEF ThePeer, Peers

\* A message that is built from an id and a size is a message.
LEMMA MessageType ==
    ASSUME NEW id \in Ids, NEW n \in Nat
    PROVE  /\ Message(id, n) \in MessageRecords
           /\ Message(id, n).id = id /\ Message(id, n).size = n
<1>1. 0 \in Sizes /\ 0 \in Pieces
  BY CountsAssumption DEF Sizes, Pieces
<1>2. NoRequest \in Requests
  BY <1>1 DEF NoRequest, Requests
<1> QED
  BY <1>2 DEF Message, MessageRecords

\* What the messages of the exchanges before a download are (proto/).
LEMMA MessagesKnown ==
    /\ HeaderSize \in Nat /\ HeaderSize > 1
    /\ \A m \in Handshakes : m \in MessageRecords /\ m.size = HandshakeSize
    /\ \A m \in Bitfields :
         m \in MessageRecords /\ m.id = "bitfield" /\ m.size \in Nat /\ m.size >= HeaderSize
    /\ \A m \in Bodyless :
         m \in MessageRecords /\ m.id \in {"choke", "unchoke"} /\ m.size = HeaderSize
    /\ KeepAlive \in MessageRecords /\ KeepAlive.size = HeaderSize - 1
    /\ NoMessage \in MessageRecords
    /\ Message("unchoke", HeaderSize) \in Bodyless
<1>1. /\ HeaderSize \in Nat /\ HeaderSize > 1 /\ HeaderSize - 1 \in Nat
      /\ HandshakeSize \in Nat
      /\ \A n \in 0 .. MaxBitfield : HeaderSize + n \in Nat /\ HeaderSize + n >= HeaderSize
  BY SizesAssumption
<1>2. \A m \in Handshakes : m \in MessageRecords /\ m.size = HandshakeSize
  BY <1>1, MessageType DEF Handshakes, Ids
<1>3. \A m \in Bitfields :
        m \in MessageRecords /\ m.id = "bitfield" /\ m.size \in Nat /\ m.size >= HeaderSize
  BY <1>1, MessageType DEF Bitfields, Ids
<1>4. \A m \in Bodyless :
        m \in MessageRecords /\ m.id \in {"choke", "unchoke"} /\ m.size = HeaderSize
  BY <1>1, MessageType DEF Bodyless, Ids
<1>5. KeepAlive \in MessageRecords /\ KeepAlive.size = HeaderSize - 1
  BY <1>1, MessageType DEF KeepAlive, Ids
<1>6. NoMessage \in MessageRecords
  BY <1>1, MessageType DEF NoMessage, Ids
<1>7. Message("unchoke", HeaderSize) \in Bodyless
  BY DEF Bodyless
<1> QED
  BY <1>1, <1>2, <1>3, <1>4, <1>5, <1>6, <1>7

\* A HAVE names a piece (unpack_have_msg), and is sent by peers that announce.
LEMMA HaveKnown ==
    ASSUME NEW m \in Haves
    PROVE  /\ m \in MessageRecords /\ m.id = "have"
           /\ m.size = HeaderSize + HaveSize /\ m.index \in Pieces
           /\ ThePeer \in HavePeers
<1> DEFINE b == Message("have", HeaderSize + HaveSize)
<1>0. HeaderSize + HaveSize \in Nat
  BY SizesAssumption
<1>1. b \in MessageRecords /\ b.id = "have" /\ b.size = HeaderSize + HaveSize
  BY <1>0, MessageType DEF Ids
<1>2. /\ ThePeer \in HavePeers
      /\ \E i \in Pieces : m = [b EXCEPT !.index = i]
  BY DEF Haves
<1>3. PICK i \in Pieces : m = [b EXCEPT !.index = i]
  BY <1>2
<1> HIDE DEF b
<1> QED
  BY <1>1, <1>2, <1>3 DEF MessageRecords

\* A PIECE answers an open request with a block of it.
LEMMA PieceMessageKnown ==
    ASSUME outstanding \in Seq(Requests), NEW m \in PieceMessages
    PROVE  /\ m \in MessageRecords /\ m.id = "piece"
           /\ m.size = HeaderSize + PieceOverhead + m.block.size
           /\ m.block.size \in Nat
           /\ \E k \in DOMAIN outstanding : outstanding[k] = m.request
           /\ m.block \in Answers(ThePeer, m.request)
           /\ m.block \in Blocks
<1> DEFINE Answer(request, block) ==
             [Message("piece", HeaderSize + PieceOverhead + block.size) EXCEPT
                !.request = request, !.block = block]
<1>0. PICK k \in DOMAIN outstanding :
         \E block \in Answers(ThePeer, outstanding[k]) : m = Answer(outstanding[k], block)
  <2>1. PICK request \in {outstanding[k] : k \in DOMAIN outstanding} :
           m \in {[Message("piece", HeaderSize + PieceOverhead + block.size) EXCEPT
                     !.request = request, !.block = block]
                    : block \in Answers(ThePeer, request)}
    BY Zenon DEF PieceMessages
  <2>2. \E block \in Answers(ThePeer, request) : m = Answer(request, block)
    BY Zenon, <2>1
  <2> QED
    BY <2>1, <2>2
<1>1. PICK block \in Answers(ThePeer, outstanding[k]) : m = Answer(outstanding[k], block)
  BY <1>0
<1>2. outstanding[k] \in Requests
  OBVIOUS
<1>3. block \in Blocks
  BY <1>2, AnswersType
<1>4. block.size \in Nat /\ HeaderSize + PieceOverhead + block.size \in Nat
  BY <1>3, SizesAssumption DEF Blocks, Sizes
<1> DEFINE b == Message("piece", HeaderSize + PieceOverhead + block.size)
<1>5. /\ b \in MessageRecords /\ b.id = "piece"
      /\ b.size = HeaderSize + PieceOverhead + block.size
  BY <1>4, MessageType DEF Ids
<1>6. block \in [piece : Pieces \cup {NoPiece, Foreign}, begin : Nat, size : Nat]
  BY <1>3, <1>4 DEF Blocks
<1> HIDE DEF b
<1>7. m = [b EXCEPT !.request = outstanding[k], !.block = block]
  BY <1>1 DEF b
<1>8. /\ m \in MessageRecords /\ m.id = "piece" /\ m.size = b.size
      /\ m.request = outstanding[k] /\ m.block = block
  BY <1>2, <1>5, <1>6, <1>7 DEF MessageRecords
<1> QED
  BY <1>1, <1>3, <1>4, <1>5, <1>8 DEF b

\* Whatever the peer sends is a message with at least one byte.
LEMMA SendableType ==
    ASSUME outstanding \in Seq(Requests), NEW m \in Sendable
    PROVE  m \in MessageRecords /\ m.size \in Nat /\ m.size > 0
<1>1. HandshakeSize > 0 /\ HeaderSize > 1 /\ HeaderSize \in Nat /\ HandshakeSize \in Nat
      /\ HaveSize \in Nat /\ PieceOverhead \in Nat
  BY SizesAssumption
<1>2. CASE m \in Handshakes \cup Bitfields \cup Bodyless \cup {KeepAlive}
  BY <1>1, <1>2, MessagesKnown
<1>3. CASE m \in Haves
  BY <1>1, <1>3, HaveKnown
<1>4. CASE m \in PieceMessages
  BY <1>1, <1>4, PieceMessageKnown
<1> QED
  BY <1>2, <1>3, <1>4 DEF Sendable

--------------------------------------------------------------------------------
(***************************************************************************)
(* Streams.  That a stream is framed says where each message ends, so that *)
(* no induction over the stream is needed.                                 *)
(***************************************************************************)
\* The bytes after the first n of a stream.
Rest(s, n) == SubSeq(s, n + 1, Len(s))

\* What is left of a stream when bytes are taken from it (asio::read).
LEMMA RestKnown ==
    ASSUME NEW s \in Seq(Bytes), NEW n \in 0 .. Len(s)
    PROVE  /\ Rest(s, n) \in Seq(Bytes)
           /\ Len(Rest(s, n)) = Len(s) - n
           /\ \A k \in 1 .. Len(s) - n : Rest(s, n)[k] = s[n + k]
BY DEF Rest

\* A read leaves a framed stream framed, wherever it ends.
LEMMA FramedRest ==
    ASSUME NEW s \in Seq(Bytes), Framed(s), NEW n \in 0 .. Len(s)
    PROVE  Framed(Rest(s, n))
<1> DEFINE r == Rest(s, n)
<1>1. /\ r \in Seq(Bytes) /\ Len(r) = Len(s) - n /\ Len(s) \in Nat /\ n \in Nat
      /\ \A k \in 1 .. Len(s) - n : r[k] = s[n + k]
  BY RestKnown
<1> HIDE DEF r
<1> SUFFICES ASSUME NEW k \in 1 .. Len(r)
             PROVE  LET m == r[k].message
                        left == m.size - r[k].at
                    IN  /\ r[k].at \in 1 .. m.size
                        /\ k + left <= Len(r)
                        /\ \A j \in 0 .. left :
                             r[k + j] = [message |-> m, at |-> r[k].at + j]
                        /\ k + left < Len(r) => r[k + left + 1].at = 1
  BY DEF Framed, r
<1> DEFINE m == s[n + k].message
           at == s[n + k].at
           left == m.size - at
<1>2. n + k \in 1 .. Len(s) /\ r[k] = s[n + k]
  BY <1>1
<1>3. /\ at \in 1 .. m.size
      /\ (n + k) + left <= Len(s)
      /\ \A j \in 0 .. left : s[(n + k) + j] = [message |-> m, at |-> at + j]
      /\ (n + k) + left < Len(s) => s[(n + k) + left + 1].at = 1
  BY <1>2 DEF Framed
<1>4. m.size \in Nat /\ at \in Nat
  <2>1. s[n + k] \in Bytes
    BY <1>2
  <2> QED
    BY <2>1 DEF Bytes, MessageRecords
<1> HIDE DEF m, at
<1>5. k + left <= Len(r)
  BY <1>1, <1>3, <1>4
<1>6. ASSUME NEW j \in 0 .. left PROVE r[k + j] = [message |-> m, at |-> at + j]
  <2>1. k + j \in 1 .. Len(s) - n /\ n + (k + j) = (n + k) + j
    BY <1>1, <1>3, <1>4, SMTT(30)
  <2> QED
    BY <1>1, <1>3, <2>1
<1>7. ASSUME k + left < Len(r) PROVE r[k + left + 1].at = 1
  <2>1. k + left + 1 \in 1 .. Len(s) - n /\ n + (k + left + 1) = (n + k) + left + 1
        /\ (n + k) + left < Len(s)
    BY <1>1, <1>3, <1>4, <1>7, SMTT(30)
  <2> QED
    BY <1>1, <1>3, <2>1
<1> QED
  BY <1>2, <1>3, <1>5, <1>6, <1>7 DEF m, at

\* A whole message sent after a framed stream gives a framed stream.
LEMMA FramedSent ==
    ASSUME NEW s \in Seq(Bytes), Framed(s), NEW m \in MessageRecords, m.size > 0
    PROVE  /\ s \o BytesOf(m) \in Seq(Bytes)
           /\ Framed(s \o BytesOf(m))
           /\ s # << >> => (s \o BytesOf(m))[1] = s[1]
           /\ s = << >> => (s \o BytesOf(m))[1] = [message |-> m, at |-> 1]
           /\ s \o BytesOf(m) # << >>
<1> DEFINE b == BytesOf(m)
           r == s \o b
<1>1. m.size \in Nat /\ Len(s) \in Nat
  BY DEF MessageRecords
<1>2. b \in Seq(Bytes) /\ Len(b) = m.size
      /\ \A k \in 1 .. m.size : b[k] = [message |-> m, at |-> k]
  <2>1. \A k \in 1 .. m.size : [message |-> m, at |-> k] \in Bytes
    BY <1>1 DEF Bytes
  <2>2. b = [k \in 1 .. m.size |-> [message |-> m, at |-> k]]
    BY DEF BytesOf
  <2> HIDE DEF b
  <2> QED
    BY <1>1, <2>1, <2>2
<1> HIDE DEF b
<1>3. /\ r \in Seq(Bytes) /\ Len(r) = Len(s) + m.size
      /\ \A k \in 1 .. Len(s) : r[k] = s[k]
      /\ \A k \in Len(s) + 1 .. Len(s) + m.size : r[k] = b[k - Len(s)]
  BY <1>1, <1>2
<1> HIDE DEF r
<1>4. ASSUME NEW k \in Len(s) + 1 .. Len(s) + m.size
      PROVE  r[k] = [message |-> m, at |-> k - Len(s)]
  <2>1. k - Len(s) \in 1 .. m.size
    BY <1>1
  <2> QED
    BY <1>2, <1>3, <2>1
<1>5. Framed(r)
  <2> SUFFICES ASSUME NEW k \in 1 .. Len(r)
               PROVE  LET c == r[k].message
                          left == c.size - r[k].at
                      IN  /\ r[k].at \in 1 .. c.size
                          /\ k + left <= Len(r)
                          /\ \A j \in 0 .. left :
                               r[k + j] = [message |-> c, at |-> r[k].at + j]
                          /\ k + left < Len(r) => r[k + left + 1].at = 1
    BY DEF Framed
  <2>1. CASE k <= Len(s)
    <3> DEFINE c == s[k].message
               at == s[k].at
               left == c.size - at
    <3>1. k \in 1 .. Len(s) /\ r[k] = s[k]
      BY <1>3, <2>1
    <3>2. /\ at \in 1 .. c.size
          /\ k + left <= Len(s)
          /\ \A j \in 0 .. left : s[k + j] = [message |-> c, at |-> at + j]
          /\ k + left < Len(s) => s[k + left + 1].at = 1
      BY <3>1 DEF Framed
    <3>3. c.size \in Nat /\ at \in Nat
      <4>1. s[k] \in Bytes
        BY <3>1
      <4> QED
        BY <4>1 DEF Bytes, MessageRecords
    <3> HIDE DEF c, at
    <3>4. k + left <= Len(r)
      BY <1>1, <1>3, <3>2, <3>3
    <3>5. ASSUME NEW j \in 0 .. left PROVE r[k + j] = [message |-> c, at |-> at + j]
      <4>1. k + j \in 1 .. Len(s)
        BY <1>1, <3>1, <3>2, <3>3
      <4> QED
        BY <1>3, <3>2, <4>1
    <3>6. ASSUME k + left < Len(r) PROVE r[k + left + 1].at = 1
      <4>1. CASE k + left < Len(s)
        <5>1. k + left + 1 \in 1 .. Len(s)
          BY <1>1, <3>1, <3>2, <3>3, <4>1
        <5> QED
          BY <1>3, <3>2, <4>1, <5>1
      <4>2. CASE k + left >= Len(s)
        <5>1. k + left = Len(s) /\ (Len(s) + 1) - Len(s) = 1
          BY <1>1, <3>1, <3>2, <3>3, <4>2, SMTT(30)
        <5>2. Len(s) + 1 \in Len(s) + 1 .. Len(s) + m.size
          BY <1>1
        <5>3. r[Len(s) + 1] = [message |-> m, at |-> (Len(s) + 1) - Len(s)]
          BY <1>4, <5>2
        <5> QED
          BY <5>1, <5>3
      <4> QED
        BY <1>1, <3>1, <3>3, <4>1, <4>2
    <3> QED
      BY <3>1, <3>2, <3>4, <3>5, <3>6 DEF c, at
  <2>2. CASE k > Len(s)
    <3>1. k \in Len(s) + 1 .. Len(s) + m.size
      BY <1>1, <1>3, <2>2
    <3>2. r[k] = [message |-> m, at |-> k - Len(s)]
      BY <1>4, <3>1
    <3> DEFINE at == k - Len(s)
               left == m.size - at
    <3>3. at \in 1 .. m.size /\ k + left = Len(r)
      BY <1>1, <1>3, <3>1
    <3>4. ASSUME NEW j \in 0 .. left PROVE r[k + j] = [message |-> m, at |-> at + j]
      <4>1. k + j \in Len(s) + 1 .. Len(s) + m.size /\ (k + j) - Len(s) = at + j
        BY <1>1, <3>1
      <4> QED
        BY <1>4, <4>1
    <3>5. ~(k + left < Len(r))
      BY <1>1, <1>3, <3>3
    <3> QED
      BY <3>2, <3>3, <3>4, <3>5
  <2> QED
    BY <1>1, <1>3, <2>1, <2>2
<1>6. s # << >> => r[1] = s[1]
  BY <1>1, <1>3
<1>7. s = << >> => r[1] = [message |-> m, at |-> 1]
  BY <1>1, <1>4
<1> QED
  BY <1>1, <1>3, <1>5, <1>6, <1>7 DEF r, b

\* A read that does not reach the end of the first message leaves the rest of it;
\* one that ends with it leaves the stream at a message, or empty.
LEMMA FirstMessage ==
    ASSUME NEW s \in Seq(Bytes), Framed(s), s # << >>, NEW n \in Nat
    PROVE  /\ s[1].at \in 1 .. s[1].message.size
           /\ s[1].message \in MessageRecords
           /\ s[1].at + n <= s[1].message.size =>
                /\ n < Len(s)
                /\ Rest(s, n) # << >>
                /\ Rest(s, n)[1] = [message |-> s[1].message, at |-> s[1].at + n]
           /\ s[1].at + n = s[1].message.size + 1 =>
                /\ n <= Len(s)
                /\ Rest(s, n) # << >> => Rest(s, n)[1].at = 1
<1> DEFINE m == s[1].message
           at == s[1].at
           left == m.size - at
<1>1. 1 \in 1 .. Len(s) /\ Len(s) \in Nat /\ Len(s) > 0
  OBVIOUS
<1>2. m \in MessageRecords /\ m.size \in Nat /\ at \in Nat
  <2>1. s[1] \in Bytes
    BY <1>1
  <2> QED
    BY <2>1 DEF Bytes, MessageRecords
<1>3. /\ at \in 1 .. m.size
      /\ 1 + left <= Len(s)
      /\ \A j \in 0 .. left : s[1 + j] = [message |-> m, at |-> at + j]
      /\ 1 + left < Len(s) => s[1 + left + 1].at = 1
  BY <1>1 DEF Framed
<1> HIDE DEF m, at
<1>4. ASSUME at + n <= m.size
      PROVE  /\ n < Len(s) /\ Rest(s, n) # << >>
             /\ Rest(s, n)[1] = [message |-> m, at |-> at + n]
  <2>1. n \in 0 .. left /\ n < Len(s) /\ n \in 0 .. Len(s) /\ 1 \in 1 .. Len(s) - n
        /\ n + 1 = 1 + n
    BY <1>1, <1>2, <1>3, <1>4
  <2>2. Rest(s, n) \in Seq(Bytes) /\ Len(Rest(s, n)) = Len(s) - n /\ Rest(s, n)[1] = s[n + 1]
    BY <2>1, RestKnown
  <2>3. Rest(s, n) # << >>
    BY <1>1, <2>1, <2>2
  <2> QED
    BY <1>3, <2>1, <2>2, <2>3
<1>5. ASSUME at + n = m.size + 1
      PROVE  n <= Len(s) /\ (Rest(s, n) # << >> => Rest(s, n)[1].at = 1)
  <2>1. n = 1 + left /\ n \in 0 .. Len(s)
    BY <1>1, <1>2, <1>3, <1>5
  <2>2. Rest(s, n) \in Seq(Bytes) /\ Len(Rest(s, n)) = Len(s) - n
        /\ \A k \in 1 .. Len(s) - n : Rest(s, n)[k] = s[n + k]
    BY <2>1, RestKnown
  <2>3. ASSUME Rest(s, n) # << >> PROVE Rest(s, n)[1].at = 1
    <3>1. n < Len(s) /\ 1 \in 1 .. Len(s) - n
      BY <1>1, <2>1, <2>2, <2>3
    <3> QED
      BY <1>3, <2>1, <2>2, <3>1
  <2> QED
    BY <2>1, <2>3
<1> QED
  BY <1>2, <1>3, <1>4, <1>5 DEF m, at

--------------------------------------------------------------------------------
(***************************************************************************)
(* What a read takes and what it leaves.                                   *)
(***************************************************************************)
\* How many bytes each call waits for.
LEMMA WantedKnown ==
    ASSUME Typed, CallKnown
    PROVE  /\ Wanted \in Nat
           /\ call = "handshake" => Wanted = HandshakeSize
           /\ call \in HeaderCalls => Wanted = HeaderSize
           /\ call \in BodyCalls =>
                /\ Wanted = header.size - HeaderSize
                /\ header.size \in Nat /\ header.size >= HeaderSize
           /\ call \in {"have_body", "piece_body"} => Wanted > 0
<1>1. /\ HeaderSize \in Nat /\ HandshakeSize \in Nat /\ HaveSize \in Nat /\ HaveSize > 0
      /\ PieceOverhead \in Nat /\ PieceOverhead > 0
  BY SizesAssumption
<1>2. /\ call = "handshake" => Wanted = HandshakeSize
      /\ call \in HeaderCalls => Wanted = HeaderSize
      /\ call \in BodyCalls => Wanted = header.size - HeaderSize
      /\ call \in Calls
  BY DEF Wanted, HeaderCalls, BodyCalls, Typed
<1>3. CASE call = "bitfield_body"
  BY <1>1, <1>2, <1>3, MessagesKnown DEF CallKnown, BodyCalls, HeaderCalls
<1>4. CASE call = "have_body"
  BY <1>1, <1>2, <1>4, HaveKnown DEF CallKnown, BodyCalls, HeaderCalls
<1>5. CASE call = "piece_body"
  BY <1>1, <1>2, <1>5, PieceMessageKnown, SMTT(30) DEF CallKnown, BodyCalls, HeaderCalls, Typed
<1>6. CASE call \notin BodyCalls
  BY <1>1, <1>2, <1>6 DEF Wanted, BodyCalls
<1> QED
  BY <1>2, <1>3, <1>4, <1>5, <1>6 DEF BodyCalls

\* The bytes that are taken are taken from the front of the stream (asio::read).
LEMMA TakeKnown ==
    ASSUME Typed, CallKnown, LinkKnown, Take
    PROVE  /\ link = "in_step" /\ link' = "in_step" /\ messages' = messages
           /\ Wanted \in 0 .. Len(stream)
           /\ stream' = Rest(stream, Wanted)
           /\ stream' \in Seq(Bytes)
           /\ Framed(stream')
<1>1. Wanted \in 0 .. Len(stream) /\ stream \in Seq(Bytes) /\ Framed(stream)
  BY WantedKnown DEF Take, Typed, LinkKnown
<1>2. stream' = Rest(stream, Wanted)
  BY DEF Take, Rest
<1> QED
  BY <1>1, <1>2, RestKnown, FramedRest DEF Take

\* After a header comes the body it announces, if it announces one.
LEMMA HeaderTaken ==
    ASSUME Typed, CallKnown, LinkKnown, call \in HeaderCalls, NEW m, TakeHeader(m)
    PROVE  /\ m \in MessageRecords
           /\ m.size > HeaderSize =>
                stream' # << >> /\ stream'[1] = [message |-> m, at |-> HeaderSize + 1]
           /\ m.size = HeaderSize => AtMessage'
<1>1. /\ stream # << >> /\ stream \in Seq(Bytes) /\ Framed(stream)
      /\ stream[1] = [message |-> m, at |-> 1]
      /\ stream' = Rest(stream, HeaderSize) /\ HeaderSize \in Nat
  BY TakeKnown, WantedKnown, MessagesKnown DEF TakeHeader, Typed, LinkKnown
<1>2. m \in MessageRecords /\ m.size \in Nat
  <2>1. stream[1] \in Bytes
    BY <1>1
  <2> QED
    BY <1>1, <2>1 DEF Bytes, MessageRecords
<1>3. ASSUME m.size > HeaderSize
      PROVE  stream' # << >> /\ stream'[1] = [message |-> m, at |-> HeaderSize + 1]
  <2>1. 1 + HeaderSize <= m.size /\ 1 + HeaderSize = HeaderSize + 1
    BY <1>1, <1>2, <1>3
  <2> QED
    BY <1>1, <2>1, FirstMessage
<1>4. ASSUME m.size = HeaderSize PROVE AtMessage'
  <2>1. stream[1].at + HeaderSize = stream[1].message.size + 1
    BY <1>1, <1>2, <1>4
  <2>2. Rest(stream, HeaderSize) # << >> => Rest(stream, HeaderSize)[1].at = 1
    BY <1>1, <2>1, FirstMessage
  <2> QED
    BY <1>1, <2>2 DEF AtMessage
<1> QED
  BY <1>2, <1>3, <1>4

\* After a body comes the next message.
LEMMA BodyTaken ==
    ASSUME Typed, CallKnown, LinkKnown, call \in BodyCalls, Take
    PROVE  AtMessage'
<1>1. /\ stream \in Seq(Bytes) /\ Framed(stream) /\ stream' = Rest(stream, Wanted)
      /\ Wanted = header.size - HeaderSize /\ Wanted \in Nat
      /\ header.size \in Nat /\ HeaderSize \in Nat
  BY TakeKnown, WantedKnown, MessagesKnown DEF Typed, LinkKnown
<1>2. CASE Wanted > 0
  <2>1. stream # << >> /\ stream[1].at = HeaderSize + 1 /\ stream[1].message = header
    BY <1>1, <1>2, TakeKnown DEF LinkKnown, InFrame, AtBody
  <2>2. (HeaderSize + 1) + Wanted = header.size + 1
    BY <1>1
  <2> QED
    BY <1>1, <2>1, <2>2, FirstMessage DEF AtMessage
<1>3. CASE Wanted = 0
  <2>1. AtMessage
    BY <1>3 DEF LinkKnown
  <2>2. /\ Len(stream) \in Nat /\ 0 \in 0 .. Len(stream) /\ stream' = Rest(stream, 0)
    BY <1>1, <1>3
  <2>3. /\ stream' \in Seq(Bytes) /\ Len(stream') = Len(stream) - 0
        /\ \A k \in 1 .. Len(stream) - 0 : stream'[k] = stream[0 + k]
    BY <1>1, <2>2, RestKnown
  <2>4. ASSUME stream' # << >> PROVE stream # << >> /\ stream'[1] = stream[1]
    <3>1. Len(stream) > 0 /\ 1 \in 1 .. Len(stream) - 0 /\ 0 + 1 = 1
      BY <2>2, <2>3, <2>4
    <3> QED
      BY <2>3, <3>1
  <2> QED
    BY <2>1, <2>4 DEF AtMessage
<1> QED
  BY <1>1, <1>2, <1>3

\* After a handshake comes the next message.
LEMMA HandshakeTaken ==
    ASSUME Typed, CallKnown, LinkKnown, call = "handshake", Take
    PROVE  AtMessage'
<1>1. /\ stream \in Seq(Bytes) /\ Framed(stream) /\ stream' = Rest(stream, HandshakeSize)
      /\ HandshakeSize \in Nat /\ HandshakeSize > 1 /\ HandshakeSize <= Len(stream)
      /\ link = "in_step"
  BY TakeKnown, WantedKnown, SizesAssumption DEF Typed, LinkKnown
<1>2. stream # << >>
  BY <1>1
<1>3. stream[1].message \in Handshakes /\ stream[1].at = 1
  BY <1>1, <1>2 DEF LinkKnown, InFrame, AtMessage, BodyCalls
<1>4. stream[1].message.size = HandshakeSize /\ 1 + HandshakeSize = HandshakeSize + 1
  BY <1>1, <1>3, MessagesKnown
<1> QED
  BY <1>1, <1>2, <1>3, <1>4, FirstMessage DEF AtMessage

\* A call that fails after k bytes leaves the stream at a message, or the
\* connection out of step.
LEMMA LeavesKnown ==
    ASSUME Typed, LinkKnown, NEW k \in 0 .. Len(stream), Leaves(k)
    PROVE  /\ stream' \in Seq(Bytes) /\ Framed(stream')
           /\ outstanding' \in {outstanding, << >>}
           /\ link' \in {link, "out_of_step"}
           /\ link' = "in_step" => AtMessage' /\ outstanding' = outstanding
           /\ link' # "in_step" => stream' = << >> /\ outstanding' = << >>
<1> DEFINE rest == Rest(stream, k)
           cut == rest # << >> /\ rest[1].at # 1
<1>1. /\ rest \in Seq(Bytes) /\ Framed(rest) /\ Len(rest) = Len(stream) - k
      /\ Len(stream) \in Nat
  BY RestKnown, FramedRest DEF Typed, LinkKnown
<1>2. /\ stream' = IF cut THEN << >> ELSE rest
      /\ link' = IF cut THEN "out_of_step" ELSE link
      /\ outstanding' = IF cut THEN << >> ELSE outstanding
  BY DEF Leaves, Rest
<1>3. Framed(<< >>) /\ << >> \in Seq(Bytes)
  BY DEF Framed
<1>4. link # "in_step" => rest = << >> /\ outstanding = << >>
  BY <1>1 DEF LinkKnown
<1> HIDE DEF rest
<1> QED
  BY <1>1, <1>2, <1>3, <1>4 DEF AtMessage

--------------------------------------------------------------------------------
(***************************************************************************)
(* Each action keeps the invariant.                                        *)
(***************************************************************************)
\* The thread is the record it becomes.
LEMMA ThreadKnown ==
    ASSUME worker \in [Peers -> Workers], NEW r \in Workers, Becomes(r)
    PROVE  worker' \in [Peers -> Workers] /\ thread' = r
BY ThePeerKnown DEF Becomes, thread

\* A call is made by a thread that runs and is past its start (CallKnown); any
\* other makes none.
LEMMA NoCall ==
    ASSUME ConnectionInv, thread.thread \notin {"connect", "dial", "wait_have", "block"}
    PROVE  call = "none"
BY DEF ConnectionInv, Typed, CallKnown, Calls, HeaderCalls, BodyCalls

\* The function of a thread that made a call ends: it threw, or it is in have
\* mode.
LEMMA EndsKnown ==
    ASSUME ConnectionInv, NEW r \in Workers, EndsAs(r), r.thread = "ended",
           r.is_peer_connection_established = thread.is_peer_connection_established,
           r.have_mode = thread.have_mode,
           r.have_piece_idx = thread.have_piece_idx,
           r.exception \/ (r.have_mode /\ r.is_peer_connection_established),
           stream' \in Seq(Bytes), Framed(stream'),
           outstanding' \in {outstanding, << >>},
           link' \in {"in_step", "out_of_step", "closed"},
           link' = "in_step" => AtMessage',
           link' # "in_step" => stream' = << >> /\ outstanding' = << >>,
           messages' = messages
    PROVE  ConnectionInv'
<1> USE DEF ConnectionInv
<1>1. worker' \in [Peers -> Workers] /\ thread' = r /\ call' = "none" /\ header' = NoMessage
  BY ThreadKnown DEF EndsAs, Typed
<1>2. Typed'
  <2>1. << >> \in Seq(Requests)
    OBVIOUS
  <2>2. NoMessage \in MessageRecords
    BY MessagesKnown
  <2> QED
    BY <1>1, <2>1, <2>2 DEF Typed, Calls
<1>3. CallKnown'
  BY <1>1 DEF CallKnown
<1>4. LinkKnown'
  BY <1>1 DEF LinkKnown, InFrame, BodyCalls
<1>5. EstablishedKnown'
  BY <1>1 DEF EstablishedKnown, Running
<1>6. OthersInStep'
  BY <1>1 DEF OthersInStep
<1> QED
  BY <1>2, <1>3, <1>4, <1>5, <1>6

\* It throws.
LEMMA ThrowsKnown ==
    ASSUME ConnectionInv, Throws,
           stream' \in Seq(Bytes), Framed(stream'),
           outstanding' \in {outstanding, << >>},
           link' \in {"in_step", "out_of_step", "closed"},
           link' = "in_step" => AtMessage',
           link' # "in_step" => stream' = << >> /\ outstanding' = << >>,
           messages' = messages
    PROVE  ConnectionInv'
<1>1. thread \in Workers
  BY ThePeerKnown DEF ConnectionInv, Typed, thread
<1>2. Threw(thread) \in Workers
  BY <1>1, EndType
<1>3. /\ Threw(thread).thread = "ended" /\ Threw(thread).exception
      /\ Threw(thread).is_peer_connection_established = thread.is_peer_connection_established
      /\ Threw(thread).have_mode = thread.have_mode
      /\ Threw(thread).have_piece_idx = thread.have_piece_idx
  BY <1>1 DEF Threw, Workers
<1> QED
  BY <1>2, <1>3, EndsKnown DEF Throws

\* _download_piece returns while it waits for HAVE.
LEMMA ReturnsKnown ==
    ASSUME ConnectionInv, EndsAs(Returned(thread)), call = "wait_have",
           stream' \in Seq(Bytes), Framed(stream'),
           outstanding' \in {outstanding, << >>},
           link' \in {"in_step", "out_of_step", "closed"},
           link' = "in_step" => AtMessage',
           link' # "in_step" => stream' = << >> /\ outstanding' = << >>,
           messages' = messages
    PROVE  ConnectionInv'
<1>1. thread \in Workers
  BY ThePeerKnown DEF ConnectionInv, Typed, thread
<1>2. Returned(thread) \in Workers
  BY <1>1, EndType
<1>3. /\ Returned(thread).thread = "ended"
      /\ Returned(thread).is_peer_connection_established = thread.is_peer_connection_established
      /\ Returned(thread).have_mode = thread.have_mode
      /\ Returned(thread).have_piece_idx = thread.have_piece_idx
  BY <1>1 DEF Returned, Workers
<1>4. thread.have_mode /\ thread.is_peer_connection_established
  BY DEF ConnectionInv, CallKnown, EstablishedKnown
<1> QED
  BY <1>2, <1>3, <1>4, EndsKnown

\* Calls that fail: another message, a timeout, a broken connection, or arbitrary
\* bytes.
LEMMA UnexpectedMessageKeeps ==
    ASSUME ConnectionInv, UnexpectedMessage PROVE ConnectionInv'
<1>1. Typed /\ LinkKnown /\ HeaderSize \in 0 .. Len(stream) /\ Leaves(HeaderSize)
  BY MessagesKnown DEF ConnectionInv, UnexpectedMessage, Typed
<1> QED
  BY <1>1, LeavesKnown, ThrowsKnown DEF UnexpectedMessage, Typed

\* A transfer that times out, wherever in a message.
LEMMA TransferAbortedKeeps ==
    ASSUME ConnectionInv, TransferAborted PROVE ConnectionInv'
<1>1. PICK k \in 0 .. Wanted - 1 : k <= Len(stream) /\ Leaves(k)
  BY DEF TransferAborted
<1>2. Typed /\ LinkKnown /\ k \in 0 .. Len(stream)
  BY <1>1, WantedKnown DEF ConnectionInv, Typed
<1>3. CASE call = "wait_have"
  BY <1>1, <1>2, <1>3, LeavesKnown, ReturnsKnown DEF TransferAborted, Typed
<1>4. CASE call # "wait_have"
  BY <1>1, <1>2, <1>4, LeavesKnown, ThrowsKnown DEF TransferAborted, Typed
<1> QED
  BY <1>3, <1>4

\* A connection that is closed or broken.
LEMMA TransferFailsKeeps ==
    ASSUME ConnectionInv, TransferFails PROVE ConnectionInv'
<1>1. << >> \in Seq(Bytes) /\ Framed(<< >>)
  BY DEF Framed
<1> QED
  BY <1>1, ThrowsKnown DEF TransferFails

\* The worker goes on with a piece that was announced while it waited for one.
LEMMA WithPieceKeeps ==
    ASSUME ConnectionInv, call \in {"wait_have", "have_body"},
           thread.thread = "wait_have", NEW i \in Pieces,
           Becomes(WithPiece(thread, i)), call' = "none",
           header' \in MessageRecords, stream' \in Seq(Bytes), Framed(stream'),
           outstanding' = outstanding, link' = link, messages' = messages,
           link = "in_step" => AtMessage', link # "in_step" => stream' = stream
    PROVE  ConnectionInv'
<1> USE DEF ConnectionInv
<1> DEFINE r == WithPiece(thread, i)
<1>1. thread \in Workers /\ thread.have_mode /\ thread.is_peer_connection_established
  BY ThePeerKnown DEF Typed, thread, EstablishedKnown
<1>2. r \in Workers
  BY <1>1, WithPieceType
<1>3. r.thread = "block" /\ r.have_mode /\ r.is_peer_connection_established
  BY <1>1 DEF WithPiece, Workers
<1>4. worker' \in [Peers -> Workers] /\ thread' = r
  BY <1>2, ThreadKnown DEF Typed
<1> HIDE DEF r
<1>5. Typed'
  BY <1>4 DEF Typed, Calls
<1>6. CallKnown'
  BY <1>3, <1>4 DEF CallKnown
<1>7. LinkKnown'
  BY <1>4 DEF LinkKnown, InFrame, BodyCalls
<1>8. EstablishedKnown' /\ OthersInStep'
  BY <1>3, <1>4 DEF EstablishedKnown, OthersInStep
<1> QED
  BY <1>5, <1>6, <1>7, <1>8

\* Out of step the connection stays as it is.
LEMMA GarbledKeeps ==
    ASSUME ConnectionInv, Garbled PROVE ConnectionInv'
<1>1. /\ link = "out_of_step" /\ stream = << >> /\ outstanding = << >>
      /\ UNCHANGED <<stream, outstanding, link, messages>>
      /\ stream' \in Seq(Bytes) /\ Framed(stream') /\ Typed /\ header \in MessageRecords
  BY DEF Garbled, ConnectionInv, LinkKnown, Typed
<1>2. thread \in Workers
  BY <1>1, ThePeerKnown DEF Typed, thread
<1>3. CASE Throws
  BY <1>1, <1>3, ThrowsKnown
<1>4. CASE call = "wait_have" /\ EndsAs(Returned(thread))
  BY <1>1, <1>4, ReturnsKnown
<1>5. CASE /\ call = "wait_have"
           /\ \E h \in Pieces : Becomes(WithPiece(thread, h))
           /\ call' = "none"
           /\ UNCHANGED header
  BY <1>1, <1>5, WithPieceKeeps DEF ConnectionInv, CallKnown
<1>6. CASE /\ call = "request"
           /\ \E block \in AnyBytes(thread) : Becomes(WithBlock(thread, block))
           /\ call' = "none"
           /\ UNCHANGED header
  <2>1. PICK block \in AnyBytes(thread) : Becomes(WithBlock(thread, block))
    BY <1>6
  <2>2. block \in Blocks
    BY <1>2, CountsAssumption DEF AnyBytes, Blocks, Sizes, Workers, Contents
  <2> DEFINE r == WithBlock(thread, block)
  <2>3. r \in Workers
    BY <1>2, <2>2, WithBlockType
  <2>4. /\ r.thread = thread.thread /\ r.have_mode = thread.have_mode
        /\ r.have_piece_idx = thread.have_piece_idx /\ r.exception = thread.exception
        /\ r.is_peer_connection_established = thread.is_peer_connection_established
    BY <1>2 DEF WithBlock, Workers
  <2>5. worker' \in [Peers -> Workers] /\ thread' = r
    BY <1>1, <2>1, <2>3, ThreadKnown DEF Typed
  <2>6. thread.thread = "block" /\ thread.is_peer_connection_established
    BY <1>6 DEF ConnectionInv, CallKnown, EstablishedKnown
  <2> HIDE DEF r
  <2>7. Typed'
    BY <1>1, <1>6, <2>5 DEF Typed, Calls
  <2>8. CallKnown'
    BY <1>6, <2>4, <2>5, <2>6 DEF CallKnown
  <2>9. LinkKnown'
    BY <1>1, <1>6, <2>5 DEF LinkKnown, InFrame, BodyCalls
  <2>10. EstablishedKnown'
    BY <2>4, <2>5, <2>6 DEF EstablishedKnown
  <2>11. OthersInStep'
    <3>1. ~InFrame
      BY <1>1 DEF InFrame
    <3> QED
      BY <2>4, <2>5, <3>1 DEF ConnectionInv, OthersInStep
  <2> QED
    BY <2>7, <2>8, <2>9, <2>10, <2>11 DEF ConnectionInv
<1> QED
  BY <1>1, <1>3, <1>4, <1>5, <1>6 DEF Garbled

\* The caller starts and joins threads, and leaves the connection alone.
LEMMA CallKeeps ==
    ASSUME ConnectionInv, Call(ThePeer), UNCHANGED connection PROVE ConnectionInv'
<1> USE DEF ConnectionInv
<1>1. thread \in Workers /\ worker \in [Peers -> Workers]
  BY ThePeerKnown DEF Typed, thread
<1> DEFINE From(r) ==
             /\ r.thread \in {"connect", "enter", "none"}
             /\ r.have_mode = thread.have_mode
             /\ r.have_piece_idx = thread.have_piece_idx
             /\ r.exception = thread.exception
             /\ r.is_peer_connection_established = thread.is_peer_connection_established
             /\ r.thread = "connect" => thread = NewWorker
             /\ r.thread = "enter" =>
                  thread = NewWorker \/ thread.is_peer_connection_established
             /\ thread.thread \in {"none", "ended"}
<1>2. PICK r \in Workers : Becomes(r) /\ From(r)
  <2>1. CASE StartConnect(ThePeer)
    <3>1. ConnectStarted(thread) \in Workers
      BY <1>1, EndType
    <3>2. thread = NewWorker /\ Becomes(ConnectStarted(thread))
      BY <2>1 DEF StartConnect, Becomes, thread
    <3>3. From(ConnectStarted(thread))
      BY <1>1, <3>2 DEF ConnectStarted, Workers, NewWorker
    <3> QED
      BY <3>1, <3>2, <3>3
  <2>2. ASSUME NEW i \in Pieces, StartDownload(ThePeer, i) 
        PROVE  \E r \in Workers : Becomes(r) /\ From(r)
    <3>1. DownloadStarted(thread, i) \in Workers
      BY <1>1, WithPieceType
    <3>2. /\ thread = NewWorker \/ thread.is_peer_connection_established
          /\ thread.thread \notin Joinable /\ Becomes(DownloadStarted(thread, i))
      BY <2>2 DEF StartDownload, Becomes, thread, started
    <3>3. From(DownloadStarted(thread, i))
      BY <1>1, <3>2 DEF DownloadStarted, Workers, Joinable, Running
    <3> QED
      BY <3>1, <3>2, <3>3
  <2>3. CASE Join(ThePeer)
    <3>1. Joined(thread) \in Workers
      BY <1>1, EndType
    <3>2. thread.thread = "ended" /\ Becomes(Joined(thread))
      BY <2>3 DEF Join, Becomes, thread, HasEnded
    <3>3. From(Joined(thread))
      BY <1>1, <3>2 DEF Joined, Workers
    <3> QED
      BY <3>1, <3>2, <3>3
  <2> QED
    BY <2>1, <2>2, <2>3 DEF Call
<1>3. worker' \in [Peers -> Workers] /\ thread' = r
  BY <1>1, <1>2, ThreadKnown
<1>4. /\ call' = call /\ header' = header /\ stream' = stream
      /\ outstanding' = outstanding /\ link' = link /\ messages' = messages
  BY DEF connection
<1>5. call = "none"
  BY <1>2, NoCall
<1>6. Typed'
  BY <1>3, <1>4 DEF Typed
<1>7. CallKnown'
  BY <1>2, <1>3, <1>4, <1>5 DEF CallKnown
<1>8. LinkKnown'
  BY <1>3, <1>4, <1>5 DEF LinkKnown, InFrame, AtMessage, BodyCalls
<1>9. EstablishedKnown'
  BY <1>2, <1>3, <1>4, <1>5 DEF EstablishedKnown, NewWorker, Running
<1>10. OthersInStep'
  BY <1>2, <1>3, <1>4, <1>5 DEF OthersInStep, InFrame, AtMessage, BodyCalls
<1> QED
  BY <1>6, <1>7, <1>8, <1>9, <1>10

\* The thread reads on: a step within an exchange, on a connection in step.
LEMMA ReadsOn ==
    ASSUME ConnectionInv, UNCHANGED <<worker, outstanding>>,
           link = "in_step", link' = "in_step", messages' \in 0 .. MaxMessages,
           stream' \in Seq(Bytes), Framed(stream'), header' \in MessageRecords,
           call' \in Calls, call' # "none",
           thread.thread = "wait_have" => call' \in {"wait_have", "have_body"},
           call' \in {"request", "piece_body"} => call \in {"request", "piece_body"},
           CallKnown', InFrame',
           call' \in BodyCalls =>
             IF Wanted' > 0 THEN stream'[1].message = header' ELSE AtMessage',
           call' = "handshake" /\ stream' # << >> => stream'[1].message \in Handshakes
    PROVE  ConnectionInv'
<1> USE DEF ConnectionInv
<1>1. thread' = thread /\ worker' = worker /\ outstanding' = outstanding
  BY DEF thread
<1>2. Typed'
  BY <1>1 DEF Typed
<1>3. LinkKnown'
  BY <1>1 DEF LinkKnown
<1>4. EstablishedKnown'
  BY <1>1 DEF EstablishedKnown
<1>5. OthersInStep'
  BY DEF OthersInStep
<1> QED
  BY <1>2, <1>3, <1>4, <1>5

\* A header has been taken and its body comes next.
LEMMA BodyComes ==
    ASSUME ConnectionInv, call \in HeaderCalls, NEW m, TakeHeader(m), header' = m,
           m.size >= HeaderSize, call' \in BodyCalls
    PROVE  /\ link = "in_step" /\ link' = "in_step" /\ messages' = messages
           /\ stream' \in Seq(Bytes) /\ Framed(stream')
           /\ m \in MessageRecords
           /\ InFrame'
           /\ IF Wanted' > 0 THEN stream'[1].message = header' ELSE AtMessage'
<1>1. Typed /\ CallKnown /\ LinkKnown /\ Take
  BY DEF ConnectionInv, TakeHeader
<1>2. /\ link = "in_step" /\ link' = "in_step" /\ messages' = messages
      /\ stream' \in Seq(Bytes) /\ Framed(stream') /\ m \in MessageRecords
      /\ m.size > HeaderSize =>
           stream' # << >> /\ stream'[1] = [message |-> m, at |-> HeaderSize + 1]
      /\ m.size = HeaderSize => AtMessage'
  BY <1>1, TakeKnown, HeaderTaken
<1>3. Wanted' = m.size - HeaderSize
  BY DEF Wanted, BodyCalls
<1>4. m.size \in Nat /\ HeaderSize \in Nat
  BY <1>2, MessagesKnown DEF MessageRecords
<1>5. CASE m.size > HeaderSize
  <2>1. Wanted' > 0 /\ stream'[1].at = HeaderSize + 1 /\ stream'[1].message = m
        /\ stream' # << >>
    BY <1>2, <1>3, <1>4, <1>5
  <2> QED
    BY <1>2, <2>1 DEF InFrame, AtBody
<1>6. CASE m.size = HeaderSize
  <2>1. Wanted' = 0 /\ AtMessage'
    BY <1>2, <1>3, <1>4, <1>6
  <2> QED
    BY <1>2, <2>1 DEF InFrame, AtBody
<1> QED
  BY <1>2, <1>4, <1>5, <1>6

\* The peer sends a message only to a call that waits at a message for it.
LEMMA PeerSendsKeeps ==
    ASSUME ConnectionInv, PeerSends PROVE ConnectionInv'
<1> USE DEF ConnectionInv
<1>1. PICK m \in Sendable : stream' = stream \o BytesOf(m)
  BY DEF PeerSends
<1>2. m \in MessageRecords /\ m.size > 0 /\ stream \in Seq(Bytes) /\ Framed(stream)
  BY <1>1, SendableType DEF Typed, LinkKnown
<1>3. /\ stream' \in Seq(Bytes) /\ Framed(stream') /\ stream' # << >>
      /\ stream # << >> => stream'[1] = stream[1]
      /\ stream = << >> => stream'[1] = [message |-> m, at |-> 1]
  BY <1>1, <1>2, FramedSent
<1>4. call \notin BodyCalls
  <2> SUFFICES ASSUME call \in BodyCalls PROVE FALSE
    OBVIOUS
  <2>1. Wanted \in Nat /\ Len(stream) \in Nat /\ Len(stream) < Wanted /\ HeaderSize > 1
        /\ HeaderSize \in Nat
    BY WantedKnown, MessagesKnown DEF PeerSends, Typed
  <2>2. stream # << >> /\ stream[1].at = HeaderSize + 1 /\ stream[1].at = 1
    BY <2>1 DEF PeerSends, LinkKnown, InFrame, AtBody, AtMessage
  <2> QED
    BY <2>1, <2>2
<1>5. /\ worker' = worker /\ call' = call /\ header' = header
      /\ outstanding' = outstanding /\ link' = "in_step" /\ link = "in_step"
      /\ AtMessage /\ call # "none" /\ messages' \in 0 .. MaxMessages
  BY SizesAssumption DEF PeerSends, Typed
<1>6. thread' = thread
  BY <1>5 DEF thread
<1>7. InFrame'
  BY <1>3, <1>4, <1>5 DEF InFrame, AtMessage
<1>8. call = "handshake" => stream'[1].message \in Handshakes
  BY <1>1, <1>3, <1>5 DEF Sendable, LinkKnown
<1>9. CallKnown'
  BY <1>4, <1>5, <1>6 DEF CallKnown, BodyCalls
<1> QED
  BY <1>3, <1>4, <1>5, <1>7, <1>8, <1>9, ReadsOn DEF Typed, CallKnown

\* The exchanges of _connect_to_peer up to INTERESTED.
LEMMA ConnectKeeps ==
    ASSUME ConnectionInv, Connect PROVE ConnectionInv'
<1> USE DEF ConnectionInv
<1>1. /\ thread.thread \in {"connect", "dial"} /\ call = "none"
      /\ UNCHANGED <<stream, outstanding, link, messages>>
  BY DEF Connect
<1>2. stream = << >> /\ link = "in_step" /\ outstanding = << >>
  BY <1>1 DEF EstablishedKnown, Running
<1>3. stream' \in Seq(Bytes) /\ Framed(stream') /\ AtMessage'
  BY <1>1, <1>2 DEF Typed, LinkKnown, AtMessage
<1>4. CASE Throws
  BY <1>1, <1>2, <1>3, <1>4, ThrowsKnown DEF Typed
<1>5. CASE call' = "handshake" /\ UNCHANGED <<worker, header>>
  <2>1. CallKnown'
    BY <1>1, <1>5 DEF CallKnown, thread
  <2>2. InFrame'
    BY <1>1, <1>2, <1>3, <1>5 DEF InFrame, BodyCalls
  <2> QED
    BY <1>1, <1>2, <1>3, <1>5, <2>1, <2>2, ReadsOn DEF Typed, Calls, BodyCalls
<1> QED
  BY <1>4, <1>5 DEF Connect

\* The exchange of handshakes (_do_handshake).
LEMMA TakeHandshakeKeeps ==
    ASSUME ConnectionInv, TakeHandshake PROVE ConnectionInv'
<1> USE DEF ConnectionInv
<1>1. call = "handshake" /\ Take /\ outstanding' = outstanding
  BY DEF TakeHandshake
<1>2. /\ link = "in_step" /\ link' = "in_step" /\ messages' = messages
      /\ stream' \in Seq(Bytes) /\ Framed(stream') /\ AtMessage'
      /\ thread.thread \in {"connect", "dial"}
  BY <1>1, TakeKnown, HandshakeTaken DEF CallKnown
<1>3. CASE Throws
  BY <1>1, <1>2, <1>3, ThrowsKnown DEF Typed
<1>4. CASE call' = "bitfield" /\ UNCHANGED <<worker, header>>
  <2>1. CallKnown'
    BY <1>2, <1>4 DEF CallKnown, thread
  <2>2. InFrame'
    BY <1>1, <1>2, <1>4 DEF InFrame, BodyCalls
  <2> QED
    BY <1>1, <1>2, <1>4, <2>1, <2>2, ReadsOn DEF Typed, Calls, HeaderCalls, BodyCalls
<1> QED
  BY <1>3, <1>4 DEF TakeHandshake

\* The header of a BITFIELD (_do_bitfield_or_unchoke) ...
LEMMA TakeBitfieldKeeps ==
    ASSUME ConnectionInv, TakeBitfield PROVE ConnectionInv'
<1> USE DEF ConnectionInv
<1>1. PICK m \in Bitfields : TakeHeader(m) /\ header' = m
  BY DEF TakeBitfield
<1>2. /\ call = "bitfield" /\ call' = "bitfield_body" /\ worker' = worker
      /\ outstanding' = outstanding
  BY DEF TakeBitfield
<1>3. /\ link = "in_step" /\ link' = "in_step" /\ messages' = messages
      /\ stream' \in Seq(Bytes) /\ Framed(stream') /\ m \in MessageRecords /\ InFrame'
      /\ IF Wanted' > 0 THEN stream'[1].message = header' ELSE AtMessage'
  BY <1>1, <1>2, MessagesKnown, BodyComes DEF HeaderCalls, BodyCalls
<1>4. thread.thread \in {"connect", "dial"} /\ thread' = thread
  BY <1>2 DEF CallKnown, thread
<1>5. CallKnown'
  BY <1>1, <1>2, <1>4 DEF CallKnown
<1> QED
  BY <1>1, <1>2, <1>3, <1>4, <1>5, ReadsOn DEF Typed, Calls, BodyCalls

\* ... and its body.
LEMMA TakeBitfieldBodyKeeps ==
    ASSUME ConnectionInv, TakeBitfieldBody PROVE ConnectionInv'
<1> USE DEF ConnectionInv
<1>1. /\ call = "bitfield_body" /\ Take /\ call' = "interested" /\ header' = NoMessage
      /\ worker' = worker /\ outstanding' = outstanding
  BY DEF TakeBitfieldBody
<1>2. /\ link = "in_step" /\ link' = "in_step" /\ messages' = messages
      /\ stream' \in Seq(Bytes) /\ Framed(stream') /\ AtMessage'
  BY <1>1, TakeKnown, BodyTaken DEF BodyCalls
<1>3. thread.thread \in {"connect", "dial"} /\ thread' = thread
  BY <1>1 DEF CallKnown, thread
<1>4. CallKnown'
  BY <1>1, <1>3 DEF CallKnown
<1>5. InFrame'
  BY <1>1, <1>2 DEF InFrame, BodyCalls
<1>6. header' \in MessageRecords
  BY <1>1, MessagesKnown
<1> QED
  BY <1>1, <1>2, <1>3, <1>4, <1>5, <1>6, ReadsOn DEF Typed, Calls, HeaderCalls, BodyCalls

\* UNCHOKE in place of a BITFIELD.
LEMMA UnchokeForBitfieldKeeps ==
    ASSUME ConnectionInv, UnchokeForBitfield PROVE ConnectionInv'
<1> USE DEF ConnectionInv
<1> DEFINE m == Message("unchoke", HeaderSize)
<1>1. /\ call = "bitfield" /\ TakeHeader(m) /\ Take /\ call' = "interested"
      /\ worker' = worker /\ header' = header /\ outstanding' = outstanding
  BY DEF UnchokeForBitfield, TakeHeader
<1>2. m.size = HeaderSize
  BY MessagesKnown
<1> HIDE DEF m
<1>3. /\ link = "in_step" /\ link' = "in_step" /\ messages' = messages
      /\ stream' \in Seq(Bytes) /\ Framed(stream') /\ AtMessage'
  BY <1>1, <1>2, TakeKnown, HeaderTaken DEF HeaderCalls
<1>4. thread.thread \in {"connect", "dial"} /\ thread' = thread
  BY <1>1 DEF CallKnown, thread
<1>5. CallKnown'
  BY <1>1, <1>4 DEF CallKnown
<1>6. InFrame'
  BY <1>1, <1>3 DEF InFrame, BodyCalls
<1> QED
  BY <1>1, <1>3, <1>4, <1>5, <1>6, ReadsOn DEF Typed, Calls, HeaderCalls, BodyCalls

\* A HAVE is read for INTERESTED and while one is waited for.
LEMMA TakeHaveKeeps ==
    ASSUME ConnectionInv, TakeHave PROVE ConnectionInv'
<1> USE DEF ConnectionInv
<1>1. PICK m \in Haves : TakeHeader(m) /\ header' = m
  BY DEF TakeHave
<1>2. /\ call \in {"interested", "wait_have"} /\ call' = "have_body" /\ worker' = worker
      /\ outstanding' = outstanding
  BY DEF TakeHave
<1>3. m.size >= HeaderSize
  BY HaveKnown, SizesAssumption
<1>4. /\ link = "in_step" /\ link' = "in_step" /\ messages' = messages
      /\ stream' \in Seq(Bytes) /\ Framed(stream') /\ m \in MessageRecords /\ InFrame'
      /\ IF Wanted' > 0 THEN stream'[1].message = header' ELSE AtMessage'
  BY <1>1, <1>2, <1>3, BodyComes DEF HeaderCalls, BodyCalls
<1>5. thread.thread \in {"connect", "dial", "wait_have"} /\ thread' = thread
  BY <1>2 DEF CallKnown, thread
<1>6. CallKnown'
  BY <1>1, <1>2, <1>5 DEF CallKnown
<1> QED
  BY <1>1, <1>2, <1>4, <1>5, <1>6, ReadsOn DEF Typed, Calls, BodyCalls

\* The record of a worker whose connection is established.
LEMMA ConnectedRecord ==
    ASSUME NEW r \in Workers, NEW h \in Pieces \cup {NoPiece}
    PROVE  LET s == IF r.thread = "connect" THEN [Connected(r, h) EXCEPT !.thread = "ended"]
                    ELSE Dialed(r, h)
           IN  /\ s \in Workers
               /\ s.thread = IF r.thread = "connect" THEN "ended" ELSE "block"
               /\ s.is_peer_connection_established
               /\ s.have_mode = (r.have_mode \/ h # NoPiece)
               /\ s.have_piece_idx = IF h # NoPiece THEN h ELSE r.have_piece_idx
               /\ s.exception = r.exception
               /\ s.buffer = r.buffer /\ s.piece_idx = r.piece_idx
               /\ s.received_bytes = r.received_bytes
               /\ s.is_piece_transfer_complete = r.is_piece_transfer_complete
               /\ s.last_piece_idx = r.last_piece_idx
<1> DEFINE c == Connected(r, h)
<1>1. /\ c \in Workers
      /\ c.is_peer_connection_established
      /\ c.have_mode = (r.have_mode \/ h # NoPiece)
      /\ c.have_piece_idx = IF h # NoPiece THEN h ELSE r.have_piece_idx
      /\ c.exception = r.exception
      /\ c.buffer = r.buffer /\ c.piece_idx = r.piece_idx
      /\ c.received_bytes = r.received_bytes
      /\ c.is_piece_transfer_complete = r.is_piece_transfer_complete
      /\ c.last_piece_idx = r.last_piece_idx
  BY DEF Connected, Workers
<1>2. Dialed(r, h) = [c EXCEPT !.thread = "block"]
  BY DEF Dialed
<1> HIDE DEF c
<1>3. ASSUME NEW t \in {"ended", "block"}
      PROVE  /\ [c EXCEPT !.thread = t] \in Workers
             /\ [c EXCEPT !.thread = t].thread = t
             /\ [c EXCEPT !.thread = t].is_peer_connection_established
             /\ [c EXCEPT !.thread = t].have_mode = c.have_mode
             /\ [c EXCEPT !.thread = t].have_piece_idx = c.have_piece_idx
             /\ [c EXCEPT !.thread = t].exception = c.exception
             /\ [c EXCEPT !.thread = t].buffer = c.buffer
             /\ [c EXCEPT !.thread = t].piece_idx = c.piece_idx
             /\ [c EXCEPT !.thread = t].received_bytes = c.received_bytes
             /\ [c EXCEPT !.thread = t].is_piece_transfer_complete
                  = c.is_piece_transfer_complete
             /\ [c EXCEPT !.thread = t].last_piece_idx = c.last_piece_idx
  BY <1>1 DEF Workers, Joinable, Running
<1>4. CASE r.thread = "connect"
  BY <1>1, <1>3, <1>4 DEF c
<1>5. CASE r.thread # "connect"
  BY <1>1, <1>2, <1>3, <1>5 DEF c
<1> QED
  BY <1>4, <1>5

\* _connect_to_peer returns with the connection at a message.
LEMMA ConnectedAsKeeps ==
    ASSUME ConnectionInv, thread.thread \in {"connect", "dial"},
           NEW h \in Pieces \cup {NoPiece}, ConnectedAs(h),
           link = "in_step", link' = "in_step", messages' = messages,
           stream' \in Seq(Bytes), Framed(stream'), AtMessage', outstanding' = outstanding
    PROVE  ConnectionInv'
<1> USE DEF ConnectionInv
<1>1. thread \in Workers
  BY ThePeerKnown DEF Typed, thread
<1>2. PICK r \in Workers :
         /\ Becomes(r) /\ r.thread \in {"ended", "block"}
         /\ r.is_peer_connection_established
  <2> DEFINE s == IF thread.thread = "connect"
                  THEN [Connected(thread, h) EXCEPT !.thread = "ended"]
                  ELSE Dialed(thread, h)
  <2>1. /\ s \in Workers /\ s.is_peer_connection_established
        /\ s.thread = IF thread.thread = "connect" THEN "ended" ELSE "block"
    BY <1>1, ConnectedRecord
  <2>2. Becomes(s)
    BY DEF ConnectedAs
  <2> HIDE DEF s
  <2> QED
    BY <2>1, <2>2
<1>3. /\ worker' \in [Peers -> Workers] /\ thread' = r
      /\ call' = "none" /\ header' = NoMessage /\ header' \in MessageRecords
  BY <1>2, ThreadKnown, MessagesKnown DEF Typed, ConnectedAs
<1>4. Typed'
  BY <1>3 DEF Typed, Calls
<1>5. CallKnown'
  BY <1>2, <1>3 DEF CallKnown
<1>6. LinkKnown'
  BY <1>3 DEF LinkKnown, InFrame, BodyCalls
<1>7. EstablishedKnown'
  BY <1>2, <1>3 DEF EstablishedKnown
<1>8. OthersInStep'
  BY <1>3 DEF OthersInStep, InFrame, BodyCalls
<1> QED
  BY <1>4, <1>5, <1>6, <1>7, <1>8

\* UNCHOKE answers INTERESTED (_do_interested).
LEMMA UnchokeForInterestedKeeps ==
    ASSUME ConnectionInv, UnchokeForInterested PROVE ConnectionInv'
<1> DEFINE m == Message("unchoke", HeaderSize)
<1>1. /\ call = "interested" /\ TakeHeader(m) /\ Take
      /\ ConnectedAs(NoPiece) /\ outstanding' = outstanding
  BY DEF UnchokeForInterested, TakeHeader
<1>2. m.size = HeaderSize
  BY MessagesKnown
<1> HIDE DEF m
<1>3. /\ link = "in_step" /\ link' = "in_step" /\ messages' = messages
      /\ stream' \in Seq(Bytes) /\ Framed(stream') /\ AtMessage'
      /\ thread.thread \in {"connect", "dial"}
  BY <1>1, <1>2, TakeKnown, HeaderTaken DEF HeaderCalls, ConnectionInv, CallKnown
<1> QED
  BY <1>1, <1>3, ConnectedAsKeeps

\* The body of a HAVE, for _do_interested and for _wait_have.
LEMMA TakeHaveBodyKeeps ==
    ASSUME ConnectionInv, TakeHaveBody PROVE ConnectionInv'
<1>1. /\ call = "have_body" /\ Take /\ outstanding' = outstanding
      /\ thread.thread \in {"connect", "dial", "wait_have"} /\ header.index \in Pieces
  BY HaveKnown DEF TakeHaveBody, ConnectionInv, CallKnown
<1>2. /\ link = "in_step" /\ link' = "in_step" /\ messages' = messages
      /\ stream' \in Seq(Bytes) /\ Framed(stream') /\ AtMessage'
  BY <1>1, TakeKnown, BodyTaken DEF BodyCalls, ConnectionInv
<1>3. CASE thread.thread = "wait_have"
  <2>1. /\ Becomes(WithPiece(thread, header.index)) /\ call' = "none"
        /\ header' = NoMessage /\ header' \in MessageRecords
    BY <1>3, MessagesKnown DEF TakeHaveBody
  <2> QED
    BY <1>1, <1>2, <1>3, <2>1, WithPieceKeeps
<1>4. CASE thread.thread # "wait_have"
  <2>1. ConnectedAs(header.index)
    BY <1>4 DEF TakeHaveBody
  <2> QED
    BY <1>1, <1>2, <1>4, <2>1, ConnectedAsKeeps
<1> QED
  BY <1>3, <1>4

\* _wait_have returns false for UNCHOKE.
LEMMA UnchokeForHaveKeeps ==
    ASSUME ConnectionInv, UnchokeForHave PROVE ConnectionInv'
<1> DEFINE m == Message("unchoke", HeaderSize)
<1>1. /\ call = "wait_have" /\ TakeHeader(m) /\ Take
      /\ EndsAs(Returned(thread)) /\ outstanding' = outstanding
  BY DEF UnchokeForHave, TakeHeader
<1>2. m.size = HeaderSize
  BY MessagesKnown
<1> HIDE DEF m
<1>3. /\ link = "in_step" /\ link' = "in_step" /\ messages' = messages
      /\ stream' \in Seq(Bytes) /\ Framed(stream') /\ AtMessage'
  BY <1>1, <1>2, TakeKnown, HeaderTaken DEF HeaderCalls, ConnectionInv
<1> QED
  BY <1>1, <1>3, ReturnsKnown

\* What _download_piece does before its first exchange.
LEMMA EnteredRecord ==
    ASSUME worker \in [Peers -> Workers], EnterDownload(ThePeer)
    PROVE  \E r \in Workers :
             /\ Becomes(r) /\ thread' = r /\ worker' \in [Peers -> Workers]
             /\ r.have_mode = thread.have_mode
             /\ r.is_peer_connection_established = thread.is_peer_connection_established
             /\ r.exception = thread.exception
             /\ r.is_piece_transfer_complete = thread.is_piece_transfer_complete
             /\ r.last_piece_idx = thread.last_piece_idx
             /\ r.buffer = Empty
             /\ \/ /\ r.thread = "wait_have" /\ r.have_mode
                   /\ r.have_piece_idx = thread.have_piece_idx
                \/ /\ r.thread = IF r.is_peer_connection_established THEN "block" ELSE "dial"
                   /\ r.have_piece_idx = NoPiece /\ r.received_bytes = 0
<1> DEFINE c == Cleared(thread)
<1>0. thread \in Workers
  BY ThePeerKnown DEF thread
<1>1. /\ c \in Workers /\ c.have_mode = thread.have_mode /\ c.buffer = Empty
      /\ c.is_peer_connection_established = thread.is_peer_connection_established
      /\ c.exception = thread.exception /\ c.have_piece_idx = thread.have_piece_idx
      /\ c.is_piece_transfer_complete = thread.is_piece_transfer_complete
      /\ c.last_piece_idx = thread.last_piece_idx
      /\ c.index \in Pieces /\ (c.have_piece_idx # NoPiece => c.have_piece_idx \in Pieces)
  <2>1. c \in Workers
    BY <1>0, EndType
  <2> QED
    BY <1>0, <2>1 DEF Cleared, Workers
<1> HIDE DEF c
<1>2. ASSUME NEW i \in Pieces
      PROVE  /\ WithPiece(c, i) \in Workers
             /\ WithPiece(c, i).have_mode = c.have_mode
             /\ WithPiece(c, i).buffer = c.buffer
             /\ WithPiece(c, i).exception = c.exception
             /\ WithPiece(c, i).is_peer_connection_established
                  = c.is_peer_connection_established
             /\ WithPiece(c, i).is_piece_transfer_complete = c.is_piece_transfer_complete
             /\ WithPiece(c, i).last_piece_idx = c.last_piece_idx
             /\ WithPiece(c, i).thread
                  = IF c.is_peer_connection_established THEN "block" ELSE "dial"
             /\ WithPiece(c, i).have_piece_idx = NoPiece
             /\ WithPiece(c, i).received_bytes = 0
  <2>1. WithPiece(c, i) \in Workers
    BY <1>1, WithPieceType
  <2> QED
    BY <1>1, <2>1 DEF WithPiece, Workers
<1>3. /\ [c EXCEPT !.thread = "wait_have"] \in Workers
      /\ [c EXCEPT !.thread = "wait_have"].thread = "wait_have"
      /\ [c EXCEPT !.thread = "wait_have"].have_mode = c.have_mode
      /\ [c EXCEPT !.thread = "wait_have"].buffer = c.buffer
      /\ [c EXCEPT !.thread = "wait_have"].exception = c.exception
      /\ [c EXCEPT !.thread = "wait_have"].have_piece_idx = c.have_piece_idx
      /\ [c EXCEPT !.thread = "wait_have"].is_peer_connection_established
           = c.is_peer_connection_established
      /\ [c EXCEPT !.thread = "wait_have"].is_piece_transfer_complete
           = c.is_piece_transfer_complete
      /\ [c EXCEPT !.thread = "wait_have"].last_piece_idx = c.last_piece_idx
  BY <1>1 DEF Workers, Joinable, Running
<1>4. Becomes(IF c.have_piece_idx # NoPiece THEN WithPiece(c, c.have_piece_idx)
              ELSE IF c.have_mode THEN [c EXCEPT !.thread = "wait_have"]
              ELSE WithPiece(c, c.index))
  BY DEF EnterDownload, Becomes, c, thread
<1>5. CASE c.have_piece_idx # NoPiece
  <2>1. Becomes(WithPiece(c, c.have_piece_idx))
    BY <1>4, <1>5
  <2> QED
    BY <1>1, <1>2, <1>5, <2>1, ThreadKnown
<1>6. CASE c.have_piece_idx = NoPiece /\ c.have_mode
  <2>1. Becomes([c EXCEPT !.thread = "wait_have"])
    BY <1>4, <1>6
  <2> QED
    BY <1>1, <1>3, <1>6, <2>1, ThreadKnown
<1>7. CASE c.have_piece_idx = NoPiece /\ ~c.have_mode
  <2>1. Becomes(WithPiece(c, c.index))
    BY <1>4, <1>7
  <2> QED
    BY <1>1, <1>2, <2>1, ThreadKnown
<1> QED
  BY <1>5, <1>6, <1>7

\* _download_piece up to its first exchange.
LEMMA EnterKeeps ==
    ASSUME ConnectionInv, Enter PROVE ConnectionInv'
<1> USE DEF ConnectionInv
<1>1. PICK r \in Workers :
         /\ Becomes(r) /\ thread' = r /\ worker' \in [Peers -> Workers]
         /\ r.have_mode = thread.have_mode
         /\ r.is_peer_connection_established = thread.is_peer_connection_established
         /\ r.exception = thread.exception
         /\ \/ /\ r.thread = "wait_have" /\ r.have_mode
               /\ r.have_piece_idx = thread.have_piece_idx
            \/ /\ r.thread = IF r.is_peer_connection_established THEN "block" ELSE "dial"
               /\ r.have_piece_idx = NoPiece
  BY EnteredRecord DEF Enter, Typed
<1>2. /\ thread.thread = "enter"
      /\ call' = IF r.thread = "wait_have" THEN "wait_have" ELSE "none"
      /\ UNCHANGED <<header, stream, outstanding, link, messages>>
  BY <1>1 DEF Enter, EnterDownload, thread
<1>3. call = "none"
  BY <1>2, NoCall
<1>4. Typed'
  BY <1>1, <1>2 DEF Typed, Calls, HeaderCalls
<1>5. CallKnown'
  BY <1>1, <1>2 DEF CallKnown
<1>6. LinkKnown'
  BY <1>2, <1>3 DEF LinkKnown, InFrame, AtMessage, BodyCalls
<1>7. EstablishedKnown'
  BY <1>1, <1>2, <1>3 DEF EstablishedKnown, Running
<1>8. OthersInStep'
  BY <1>1, <1>2, <1>3 DEF OthersInStep, InFrame, AtMessage, BodyCalls
<1> QED
  BY <1>4, <1>5, <1>6, <1>7, <1>8

\* A round of the block loop: the request, the header of the answer, its body.
LEMMA SendRequestKeeps ==
    ASSUME ConnectionInv, SendRequest PROVE ConnectionInv'
<1> USE DEF ConnectionInv
<1>1. /\ thread.thread = "block" /\ call = "none" /\ MoreToReceive(thread)
      /\ outstanding' = IF link = "in_step" THEN Append(outstanding, Request(thread))
                                            ELSE << >>
      /\ call' = "request"
      /\ UNCHANGED <<worker, header, stream, link, messages>>
      /\ thread' = thread
  BY DEF SendRequest, thread
<1>2. Request(thread) \in Requests /\ outstanding \in Seq(Requests)
  BY ThePeerKnown, RequestType DEF Typed, thread
<1>3. /\ outstanding' \in Seq(Requests)
      /\ link = "in_step" =>
           outstanding' # << >> /\ outstanding'[Len(outstanding')] = Request(thread)
  BY <1>1, <1>2
<1>4. Typed'
  BY <1>1, <1>3 DEF Typed, Calls, HeaderCalls
<1>5. MoreToReceive(thread') /\ Request(thread') = Request(thread)
  BY <1>1
<1>6. CallKnown'
  BY <1>1, <1>5 DEF CallKnown
<1>7. LinkKnown'
  BY <1>1, <1>3, <1>5 DEF LinkKnown, InFrame, AtMessage, BodyCalls
<1>8. EstablishedKnown'
  BY <1>1 DEF EstablishedKnown
<1>9. OthersInStep'
  BY <1>1 DEF OthersInStep, InFrame, AtMessage, BodyCalls
<1> QED
  BY <1>4, <1>6, <1>7, <1>8, <1>9

\* The header of an answer (_download_piece) ...
LEMMA TakePieceHeaderKeeps ==
    ASSUME ConnectionInv, TakePieceHeader PROVE ConnectionInv'
<1> USE DEF ConnectionInv
<1>1. PICK m \in PieceMessages : TakeHeader(m) /\ header' = m
  BY DEF TakePieceHeader
<1>2. /\ call = "request" /\ call' = "piece_body" /\ worker' = worker
      /\ outstanding' = outstanding /\ thread' = thread
  BY DEF TakePieceHeader, thread
<1>3. m.size >= HeaderSize
  BY PieceMessageKnown, SizesAssumption, SMTT(30) DEF Typed
<1>4. /\ link = "in_step" /\ link' = "in_step" /\ messages' = messages
      /\ stream' \in Seq(Bytes) /\ Framed(stream') /\ m \in MessageRecords /\ InFrame'
      /\ IF Wanted' > 0 THEN stream'[1].message = header' ELSE AtMessage'
  BY <1>1, <1>2, <1>3, BodyComes DEF HeaderCalls, BodyCalls
<1>5. thread.thread = "block" /\ MoreToReceive(thread) /\ MoreToReceive(thread')
  BY <1>2 DEF CallKnown
<1>6. header' \in PieceMessages'
  BY <1>1, <1>2 DEF PieceMessages
<1>7. CallKnown'
  BY <1>2, <1>5, <1>6 DEF CallKnown
<1> QED
  BY <1>1, <1>2, <1>4, <1>5, <1>7, ReadsOn DEF Typed, Calls, BodyCalls

\* ... and its block, which answers one of the open requests.
LEMMA TakePieceBodyKeeps ==
    ASSUME ConnectionInv, TakePieceBody PROVE ConnectionInv'
<1> USE DEF ConnectionInv
<1>1. /\ call = "piece_body" /\ Take /\ Becomes(WithBlock(thread, header.block))
      /\ call' = "none" /\ header' = NoMessage
  BY DEF TakePieceBody
<1>2. /\ link = "in_step" /\ link' = "in_step" /\ messages' = messages
      /\ stream' \in Seq(Bytes) /\ Framed(stream') /\ AtMessage'
  BY <1>1, TakeKnown, BodyTaken DEF BodyCalls
<1>3. outstanding' \in Seq(Requests)
  BY WithoutType DEF TakePieceBody, Typed
<1>4. thread \in Workers /\ header.block \in Blocks /\ thread.thread = "block"
      /\ thread.is_peer_connection_established
  BY <1>1, ThePeerKnown, PieceMessageKnown DEF Typed, thread, CallKnown, EstablishedKnown
<1> DEFINE r == WithBlock(thread, header.block)
<1>5. r \in Workers
  BY <1>4, WithBlockType
<1>6. /\ r.thread = thread.thread
      /\ r.is_peer_connection_established = thread.is_peer_connection_established
  BY <1>4 DEF WithBlock, Workers
<1>7. worker' \in [Peers -> Workers] /\ thread' = r
  BY <1>1, <1>5, ThreadKnown DEF Typed
<1> HIDE DEF r
<1>8. Typed'
  BY <1>1, <1>2, <1>3, <1>7, MessagesKnown DEF Typed, Calls
<1>9. CallKnown'
  BY <1>1, <1>4, <1>6, <1>7 DEF CallKnown
<1>10. LinkKnown'
  BY <1>1, <1>2, <1>7 DEF LinkKnown, InFrame, BodyCalls
<1>11. EstablishedKnown'
  BY <1>1, <1>4, <1>6, <1>7 DEF EstablishedKnown
<1>12. OthersInStep'
  BY <1>1, <1>2 DEF OthersInStep, InFrame, BodyCalls
<1> QED
  BY <1>8, <1>9, <1>10, <1>11, <1>12

\* _download_piece records the piece and returns.
LEMMA FinishKeeps ==
    ASSUME ConnectionInv, Finish PROVE ConnectionInv'
<1> USE DEF ConnectionInv
<1>1. /\ call = "none" /\ thread.thread = "block"
      /\ Becomes(Returned(Recorded(thread)))
      /\ call' = call /\ header' = header /\ stream' = stream
      /\ outstanding' = outstanding /\ link' = link /\ messages' = messages
  BY DEF Finish, FinishPiece, connection, Becomes, thread
<1> DEFINE r == Returned(Recorded(thread))
<1>2. thread \in Workers
  BY ThePeerKnown DEF Typed, thread
<1>3. Recorded(thread) \in Workers /\ r \in Workers
  BY <1>2, EndType
<1>4. /\ r.thread = "ended" /\ r.have_mode = thread.have_mode
      /\ r.exception = thread.exception
      /\ r.is_peer_connection_established = thread.is_peer_connection_established
  BY <1>2, <1>3 DEF Returned, Recorded, Workers
<1>5. worker' \in [Peers -> Workers] /\ thread' = r
  BY <1>1, <1>3, ThreadKnown DEF Typed
<1>6. thread.is_peer_connection_established
  BY <1>1 DEF EstablishedKnown
<1> HIDE DEF r
<1>7. Typed'
  BY <1>1, <1>5 DEF Typed
<1>8. CallKnown'
  BY <1>1, <1>4, <1>5 DEF CallKnown
<1>9. LinkKnown'
  BY <1>1, <1>5 DEF LinkKnown, InFrame, AtMessage, BodyCalls
<1>10. EstablishedKnown'
  BY <1>4, <1>5, <1>6 DEF EstablishedKnown
<1>11. OthersInStep'
  BY <1>1, <1>4, <1>5 DEF OthersInStep, InFrame, AtMessage, BodyCalls
<1> QED
  BY <1>7, <1>8, <1>9, <1>10, <1>11

--------------------------------------------------------------------------------
(***************************************************************************)
(* The invariant holds.                                                    *)
(***************************************************************************)
LEMMA InitKnown == Init => ConnectionInv
<1> SUFFICES ASSUME Init PROVE ConnectionInv
  OBVIOUS
<1>1. worker \in [Peers -> Workers] /\ thread = NewWorker
  BY ThePeerKnown, NewWorkerType DEF Init, WorkerInit, thread
<1>2. /\ call = "none" /\ header = NoMessage /\ stream = << >> /\ outstanding = << >>
      /\ link = "in_step" /\ messages = 0
  BY DEF Init
<1>3. << >> \in Seq(Bytes) /\ << >> \in Seq(Requests) /\ Framed(<< >>)
  BY DEF Framed
<1>4. Typed
  <2>1. NoMessage \in MessageRecords /\ 0 \in 0 .. MaxMessages
    BY MessagesKnown, SizesAssumption
  <2> QED
    BY <1>1, <1>2, <1>3, <2>1 DEF Typed, Calls
<1>5. NewWorker.thread = "none" /\ ~NewWorker.have_mode /\ NewWorker.have_piece_idx = NoPiece
  BY DEF NewWorker
<1>6. CallKnown
  BY <1>1, <1>2, <1>5 DEF CallKnown
<1>7. LinkKnown
  BY <1>2, <1>3 DEF LinkKnown, InFrame, AtMessage, BodyCalls
<1>8. EstablishedKnown
  BY <1>1, <1>2, <1>5 DEF EstablishedKnown, Running
<1>9. OthersInStep
  BY <1>2 DEF OthersInStep, InFrame, AtMessage, BodyCalls
<1> QED
  BY <1>4, <1>6, <1>7, <1>8, <1>9 DEF ConnectionInv

\* Every step keeps the invariant.
LEMMA NextKnown == ConnectionInv /\ [Next]_vars => ConnectionInv'
<1> SUFFICES ASSUME ConnectionInv, [Next]_vars PROVE ConnectionInv'
  OBVIOUS
<1>1. CASE Call(ThePeer) /\ UNCHANGED connection
  BY <1>1, CallKeeps
<1>2. CASE PeerSends
  BY <1>2, PeerSendsKeeps
<1>3. CASE Connecting
  BY <1>3, ConnectKeeps, TakeHandshakeKeeps, TakeBitfieldKeeps, TakeBitfieldBodyKeeps,
     UnchokeForBitfieldKeeps, UnchokeForInterestedKeeps, TakeHaveKeeps, TakeHaveBodyKeeps
     DEF Connecting
<1>4. CASE Downloading
  BY <1>4, EnterKeeps, UnchokeForHaveKeeps, SendRequestKeeps, TakePieceHeaderKeeps,
     TakePieceBodyKeeps, FinishKeeps DEF Downloading
<1>5. CASE UnexpectedMessage \/ TransferAborted \/ TransferFails \/ Garbled
  BY <1>5, UnexpectedMessageKeeps, TransferAbortedKeeps, TransferFailsKeeps, GarbledKeeps
<1>6. CASE UNCHANGED vars
  <2>1. UNCHANGED <<worker, call, header, stream, outstanding, link, messages>>
    BY <1>6 DEF vars, connection
  <2> QED
    BY <2>1, ZenonT(60) DEF ConnectionInv, Typed, CallKnown, LinkKnown, EstablishedKnown, OthersInStep,
                thread, InFrame, AtMessage, AtBody, Wanted, PieceMessages
<1> QED
  BY <1>1, <1>2, <1>3, <1>4, <1>5, <1>6 DEF Next

\* The invariant holds in every state (client/piece.cpp over the bytes of proto/).
THEOREM ConnectionInvariant == Spec => []ConnectionInv
<1>1. Init => ConnectionInv
  BY InitKnown
<1>2. ConnectionInv /\ [Next]_vars => ConnectionInv'
  BY NextKnown
<1> QED
  BY <1>1, <1>2, PTL DEF Spec

\* Every variable has its type, and a call is made by a thread that runs.
THEOREM TypeCorrect == Spec => []TypeOK
<1>1. ConnectionInv => TypeOK
  <2> SUFFICES ASSUME ConnectionInv PROVE TypeOK
    OBVIOUS
  <2> USE DEF ConnectionInv
  <2>1. thread \in Workers
    BY ThePeerKnown DEF Typed, thread
  <2>2. call # "none" => thread.thread \in {"connect", "dial", "wait_have", "block"}
    BY NoCall
  <2>3. \A k \in DOMAIN stream : stream[k].at \in 1 .. stream[k].message.size
    <3>1. DOMAIN stream = 1 .. Len(stream)
      BY DEF Typed
    <3> QED
      BY <3>1 DEF LinkKnown, Framed
  <2> QED
    BY <2>1, <2>2, <2>3 DEF TypeOK, Typed
<1> QED
  BY <1>1, ConnectionInvariant, PTL

\* Only a peer that announces pieces is ever read from the middle of a message:
\* any other call that leaves a message half read throws (client/piece.cpp).
THEOREM OthersAreInStep == Spec => []OthersInStep
<1>1. ConnectionInv => OthersInStep
  BY DEF ConnectionInv
<1> QED
  BY <1>1, ConnectionInvariant, PTL

\* A call that does not end the thread leaves the connection at a message, or at
\* the body that is read next (the exchanges of client/piece.cpp).
THEOREM FrameIsKept == Spec => FrameKept
<1> DEFINE Kept == InFrame => InFrame' \/ worker'[ThePeer].thread = "ended"
<1>1. ConnectionInv /\ ConnectionInv' /\ [Next]_vars => [Kept]_vars
  <2> SUFFICES ASSUME ConnectionInv, ConnectionInv', Next, InFrame
               PROVE  InFrame' \/ worker'[ThePeer].thread = "ended"
    OBVIOUS
  <2>1. link = "in_step" /\ (link' = "in_step" => InFrame')
    BY DEF InFrame, ConnectionInv, LinkKnown
  <2>2. ASSUME Throws PROVE worker'[ThePeer].thread = "ended"
    <3>1. thread \in Workers /\ worker' = [worker EXCEPT ![ThePeer] = Threw(thread)]
      BY <2>2, ThePeerKnown DEF Throws, EndsAs, Becomes, ConnectionInv, Typed, thread
    <3> QED
      BY <3>1, ThePeerKnown DEF Threw, Workers, ConnectionInv, Typed
  <2>3. ASSUME EndsAs(Returned(thread)) PROVE worker'[ThePeer].thread = "ended"
    <3>1. thread \in Workers /\ worker' = [worker EXCEPT ![ThePeer] = Returned(thread)]
      BY <2>3, ThePeerKnown DEF EndsAs, Becomes, ConnectionInv, Typed, thread
    <3> QED
      BY <3>1, ThePeerKnown DEF Returned, Workers, ConnectionInv, Typed
  <2>4. CASE (Call(ThePeer) /\ UNCHANGED connection) \/ PeerSends \/ Finish \/ Enter
             \/ SendRequest \/ Connect
    BY <2>1, <2>4 DEF connection, PeerSends, Finish, Enter, SendRequest, Connect
  <2>5. CASE Take
    BY <2>1, <2>5 DEF Take
  <2>6. CASE UnexpectedMessage \/ TransferAborted \/ TransferFails
    BY <2>2, <2>3, <2>6 DEF UnexpectedMessage, TransferAborted, TransferFails
  <2>7. CASE Garbled
    BY <2>1, <2>7 DEF Garbled
  <2> QED
    BY <2>4, <2>5, <2>6, <2>7 DEF Next, Connecting, Downloading, TakeHeader, TakeHandshake,
       TakeBitfield, TakeBitfieldBody, UnchokeForBitfield, UnchokeForInterested, TakeHave,
       TakeHaveBody, UnchokeForHave, TakePieceHeader, TakePieceBody
<1> QED
  BY <1>1, ConnectionInvariant, PTL DEF Spec, FrameKept

--------------------------------------------------------------------------------
(***************************************************************************)
(* The data of a transfer.                                                 *)
(***************************************************************************)
\* A thread that made a call runs, and its transfer is not complete.
LEMMA CallRuns ==
    ASSUME ConnectionInv, DataInv, call # "none"
    PROVE  thread.thread \in Running /\ ~thread.is_piece_transfer_complete
BY NoCall DEF DataInv, Running

\* Nothing received is a prefix of any piece.
LEMMA NothingIsPrefix ==
    ASSUME NEW r \in Workers, r.buffer = Empty, r.received_bytes = 0 PROVE Prefix(r)
<1>1. r.piece_idx \in Pieces
  BY DEF Workers
<1>2. 0 <= piece_len(r.piece_idx)
  BY <1>1, PieceLenType, CountsAssumption DEF Sizes
<1> QED
  BY <1>2 DEF Prefix, Empty

\* Prefix looks at the buffer and the counters of a worker.
LEMMA SamePrefix ==
    ASSUME NEW r, NEW s, Prefix(r), s.buffer = r.buffer, s.piece_idx = r.piece_idx,
           s.received_bytes = r.received_bytes
    PROVE  Prefix(s)
BY DEF Prefix

\* A thread that ends incomplete, or with an empty buffer, shows no wrong data.
LEMMA EndsData ==
    ASSUME ConnectionInv, NEW r \in Workers, Becomes(r), r.thread = "ended",
           r.is_piece_transfer_complete => r.buffer = Empty
    PROVE  DataInv'
<1>1. thread' = r
  BY ThreadKnown DEF ConnectionInv, Typed
<1> QED
  BY <1>1 DEF DataInv, Running

\* A call that throws brings no data and completes no transfer.
LEMMA ThrowsData ==
    ASSUME ConnectionInv, DataInv, Throws, thread.thread \in Running PROVE DataInv'
<1>1. thread \in Workers /\ ~thread.is_piece_transfer_complete
  BY ThePeerKnown DEF ConnectionInv, Typed, thread, DataInv
<1>2. Threw(thread) \in Workers
  BY <1>1, EndType
<1>3. Threw(thread).thread = "ended" /\ ~Threw(thread).is_piece_transfer_complete
  BY <1>1 DEF Threw, Workers
<1> QED
  BY <1>2, <1>3, EndsData DEF Throws, EndsAs

\* _wait_have gives up with an empty buffer.
LEMMA ReturnsData ==
    ASSUME ConnectionInv, DataInv, call = "wait_have", EndsAs(Returned(thread))
    PROVE  DataInv'
<1>1. thread \in Workers /\ thread.buffer = Empty
  BY ThePeerKnown DEF ConnectionInv, Typed, thread, DataInv, CallKnown
<1>2. Returned(thread) \in Workers
  BY <1>1, EndType
<1>3. Returned(thread).thread = "ended" /\ Returned(thread).buffer = Empty
  BY <1>1 DEF Returned, Workers
<1> QED
  BY <1>2, <1>3, EndsData DEF EndsAs

\* The call of a thread that reads on ends neither its download nor a round.
LEMMA ReadsOnData ==
    ASSUME ConnectionInv, DataInv, UNCHANGED <<worker, outstanding>>,
           thread.thread \in Running,
           \/ thread.thread # "block"
           \/ link' = link /\ OpenBefore' = OpenBefore
    PROVE  DataInv'
<1>1. thread' = thread /\ ~thread.is_piece_transfer_complete /\ outstanding' = outstanding
  BY DEF thread, DataInv
<1>2. Prefix(thread)' <=> Prefix(thread)
  BY <1>1 DEF Prefix
<1> QED
  BY <1>1, <1>2 DEF DataInv

\* A worker goes on with a piece and an empty buffer.
LEMMA WithPieceData ==
    ASSUME ConnectionInv, DataInv, NEW i \in Pieces, thread.thread = "wait_have",
           Becomes(WithPiece(thread, i))
    PROVE  DataInv'
<1> DEFINE r == WithPiece(thread, i)
<1>1. thread \in Workers /\ thread.buffer = Empty /\ ~thread.is_piece_transfer_complete
  BY ThePeerKnown DEF ConnectionInv, Typed, thread, DataInv, Running
<1>2. r \in Workers
  BY <1>1, WithPieceType
<1>3. /\ r.buffer = Empty /\ r.received_bytes = 0 /\ ~r.is_piece_transfer_complete
      /\ r.thread # "wait_have"
  BY <1>1 DEF WithPiece, Workers
<1>4. thread' = r
  BY <1>2, ThreadKnown DEF ConnectionInv, Typed
<1> HIDE DEF r
<1>5. Prefix(r)
  BY <1>2, <1>3, NothingIsPrefix
<1> QED
  BY <1>3, <1>4, <1>5 DEF DataInv

\* _connect_to_peer returns, and no byte of the piece has come yet.
LEMMA ConnectedAsData ==
    ASSUME ConnectionInv, DataInv, NEW h \in Pieces \cup {NoPiece},
           thread.thread \in {"connect", "dial"}, ConnectedAs(h)
    PROVE  DataInv'
<1> DEFINE s == IF thread.thread = "connect"
                THEN [Connected(thread, h) EXCEPT !.thread = "ended"]
                ELSE Dialed(thread, h)
<1>1. thread \in Workers /\ ~thread.is_piece_transfer_complete
      /\ (thread.thread = "dial" => Prefix(thread))
  BY ThePeerKnown DEF ConnectionInv, Typed, thread, DataInv, Running
<1>2. /\ s \in Workers /\ s.thread = IF thread.thread = "connect" THEN "ended" ELSE "block"
      /\ s.buffer = thread.buffer /\ s.piece_idx = thread.piece_idx
      /\ s.received_bytes = thread.received_bytes
      /\ s.is_piece_transfer_complete = thread.is_piece_transfer_complete
  BY <1>1, ConnectedRecord
<1>3. Becomes(s)
  BY DEF ConnectedAs
<1> HIDE DEF s
<1>4. thread' = s
  BY <1>2, <1>3, ThreadKnown DEF ConnectionInv, Typed
<1>5. s.thread = "block" => Prefix(s)
  BY <1>1, <1>2, SamePrefix
<1>6. s.thread \in {"ended", "block"} /\ ~s.is_piece_transfer_complete
  BY <1>1, <1>2
<1> QED
  BY <1>4, <1>5, <1>6 DEF DataInv

\* The caller leaves a buffer alone until the next download.
LEMMA CallData ==
    ASSUME ConnectionInv, DataInv, Call(ThePeer), UNCHANGED connection PROVE DataInv'
<1>1. thread \in Workers /\ worker \in [Peers -> Workers]
      /\ link' = link /\ outstanding' = outstanding
  BY ThePeerKnown DEF ConnectionInv, Typed, thread, connection
<1>2. CASE StartConnect(ThePeer)
  <2>1. ConnectStarted(thread) \in Workers
    BY <1>1, EndType
  <2>2. thread = NewWorker /\ Becomes(ConnectStarted(thread))
    BY <1>2 DEF StartConnect, Becomes, thread
  <2>3. thread' = ConnectStarted(thread)
    BY <1>1, <2>1, <2>2, ThreadKnown
  <2>4. thread'.thread = "connect" /\ ~thread'.is_piece_transfer_complete
    BY <1>1, <2>2, <2>3 DEF ConnectStarted, Workers, NewWorker
  <2> QED
    BY <2>4 DEF DataInv
<1>3. ASSUME NEW i \in Pieces, StartDownload(ThePeer, i) PROVE DataInv'
  <2>1. DownloadStarted(thread, i) \in Workers
    BY <1>1, WithPieceType
  <2>2. Becomes(DownloadStarted(thread, i))
    BY <1>3 DEF StartDownload, Becomes, thread
  <2>3. thread' = DownloadStarted(thread, i)
    BY <1>1, <2>1, <2>2, ThreadKnown
  <2>4. thread'.thread = "enter" /\ ~thread'.is_piece_transfer_complete
    BY <1>1, <2>3 DEF DownloadStarted, Workers
  <2> QED
    BY <2>4 DEF DataInv
<1>4. CASE Join(ThePeer)
  <2>1. Joined(thread) \in Workers
    BY <1>1, EndType
  <2>2. Becomes(Joined(thread))
    BY <1>4 DEF Join, Becomes, thread
  <2>3. thread' = Joined(thread)
    BY <1>1, <2>1, <2>2, ThreadKnown
  <2>4. /\ thread'.thread = "none" /\ thread'.buffer = thread.buffer
        /\ thread'.is_piece_transfer_complete = thread.is_piece_transfer_complete
        /\ thread'.last_piece_idx = thread.last_piece_idx
    BY <1>1, <2>3 DEF Joined, Workers
  <2> QED
    BY <1>1, <2>4 DEF DataInv, Running
<1> QED
  BY <1>2, <1>3, <1>4 DEF Call

\* _download_piece starts with an empty buffer.
LEMMA EnterData ==
    ASSUME ConnectionInv, DataInv, Enter PROVE DataInv'
<1>1. worker \in [Peers -> Workers] /\ EnterDownload(ThePeer)
      /\ ~thread.is_piece_transfer_complete
  BY DEF ConnectionInv, Typed, Enter, EnterDownload, thread, DataInv, Running
<1>2. PICK r \in Workers :
         /\ thread' = r /\ ~r.is_piece_transfer_complete /\ r.buffer = Empty
         /\ r.thread = "wait_have" \/ r.received_bytes = 0
  BY <1>1, EnteredRecord
<1>3. r.received_bytes = 0 => Prefix(r)
  BY <1>2, NothingIsPrefix
<1> QED
  BY <1>2, <1>3 DEF DataInv

\* On a connection in step with no earlier request open, the block that comes is
\* the answer to the request of this round, and it continues the piece.
LEMMA TakePieceBodyData ==
    ASSUME HonestPeer, ConnectionInv, DataInv, TakePieceBody PROVE DataInv'
<1> DEFINE r == WithBlock(thread, header.block)
<1>1. /\ call = "piece_body" /\ Take /\ Becomes(r) /\ call' = "none"
      /\ Typed /\ CallKnown /\ LinkKnown
  BY DEF TakePieceBody, ConnectionInv
<1>2. PICK k \in DOMAIN outstanding :
         outstanding[k] = header.request /\ outstanding' = Without(outstanding, k)
  BY DEF TakePieceBody
<1>3. /\ thread \in Workers /\ thread.thread = "block" /\ MoreToReceive(thread)
      /\ ~thread.is_piece_transfer_complete
      /\ outstanding \in Seq(Requests) /\ header \in PieceMessages
  BY <1>1, ThePeerKnown DEF Typed, thread, CallKnown, DataInv, Running
<1>4. header.block \in Blocks /\ header.block \in Answers(ThePeer, header.request)
  BY <1>3, PieceMessageKnown
<1>5. /\ r \in Workers
  BY <1>3, <1>4, WithBlockType
<1>6. r.thread = "block" /\ ~r.is_piece_transfer_complete
  BY <1>3 DEF WithBlock, Workers
<1>7. thread' = r
  BY <1>1, <1>5, ThreadKnown DEF Typed
<1>8. ASSUME Len(outstanding') = 0 PROVE Prefix(r)
  <2>1. Len(outstanding) \in Nat /\ k \in 1 .. Len(outstanding)
    BY <1>3
  <2>2. Len(outstanding') = Len(outstanding) - 1
    BY <1>2, <2>1 DEF Without
  <2>3. Len(outstanding) = 1 /\ k = 1
    BY <1>8, <2>1, <2>2
  <2>4. link = "in_step" /\ header.request = Request(thread)
    BY <1>1, <1>2, <2>3 DEF LinkKnown, BodyCalls
  <2>5. Prefix(thread)
    BY <1>1, <1>3, <2>3, <2>4 DEF DataInv, OpenBefore
  <2> QED
    BY <1>3, <1>4, <2>4, <2>5, PrefixBlock DEF HonestPeer
<1>9. OpenBefore' = 0
  BY <1>1 DEF OpenBefore
<1> HIDE DEF r
<1>10. Prefix(thread') <=> Prefix(r)
  BY <1>7
<1> QED
  BY <1>6, <1>7, <1>8, <1>9, <1>10 DEF DataInv

\* When the block loop ends, the buffer is the piece, whole.
LEMMA FinishData ==
    ASSUME HonestPeer, ConnectionInv, DataInv, Finish PROVE DataInv'
<1>1. /\ call = "none" /\ thread.thread = "block" /\ ~MoreToReceive(thread)
      /\ Becomes(Returned(Recorded(thread)))
      /\ outstanding' = outstanding /\ link' = link
  BY DEF Finish, FinishPiece, connection, Becomes, thread
<1> DEFINE r == Returned(Recorded(thread))
<1>2. thread \in Workers /\ worker \in [Peers -> Workers]
  BY ThePeerKnown DEF ConnectionInv, Typed, thread
<1>3. Recorded(thread) \in Workers /\ r \in Workers
  BY <1>2, EndType
<1>4. /\ r.thread = "ended" /\ r.buffer = thread.buffer
      /\ r.last_piece_idx = thread.piece_idx
  BY <1>2, <1>3 DEF Returned, Recorded, Workers
<1>5. thread' = r
  BY <1>1, <1>2, <1>3, ThreadKnown
<1> HIDE DEF r
<1>6. ASSUME link = "in_step", outstanding = << >>
      PROVE  thread.buffer = Whole(thread.piece_idx)
  <2>1. Prefix(thread)
    BY <1>1, <1>6 DEF DataInv, OpenBefore
  <2> QED
    BY <1>1, <1>2, <2>1, PrefixIsPiece DEF HonestPeer
<1> QED
  BY <1>1, <1>4, <1>5, <1>6 DEF DataInv, Running

\* A request that goes out leaves the buffer alone.
LEMMA SendRequestData ==
    ASSUME ConnectionInv, DataInv, SendRequest PROVE DataInv'
<1>1. /\ thread.thread = "block" /\ call = "none" /\ call' = "request" /\ link' = link
      /\ thread' = thread /\ ~thread.is_piece_transfer_complete
      /\ outstanding \in Seq(Requests)
  BY DEF SendRequest, thread, DataInv, Running, ConnectionInv, Typed
<1>2. link = "in_step" => Len(outstanding') = Len(outstanding) + 1
  BY <1>1 DEF SendRequest
<1>3. OpenBefore = 0 /\ OpenBefore' = 1
  BY <1>1 DEF OpenBefore
<1>4. link' = "in_step" /\ Len(outstanding') = OpenBefore' => Prefix(thread')
  <2> SUFFICES ASSUME link' = "in_step", Len(outstanding') = OpenBefore' PROVE Prefix(thread')
    OBVIOUS
  <2>1. Len(outstanding) = OpenBefore
    BY <1>1, <1>2, <1>3
  <2>2. Prefix(thread)
    BY <1>1, <2>1 DEF DataInv
  <2> QED
    BY <1>1, <2>2
<1> QED
  BY <1>1, <1>4 DEF DataInv

\* So does a read between two exchanges, or a header.
LEMMA ReadData ==
    ASSUME ConnectionInv, DataInv,
           \/ PeerSends \/ Connect \/ TakeHandshake \/ TakeBitfield \/ TakeBitfieldBody
           \/ UnchokeForBitfield \/ TakeHave \/ TakePieceHeader
    PROVE  DataInv'
<1> USE DEF Running
<1>1. CASE PeerSends
  <2>1. thread.thread \in Running /\ link' = link /\ OpenBefore' = OpenBefore
        /\ UNCHANGED <<worker, outstanding>>
    BY <1>1, CallRuns DEF PeerSends, OpenBefore
  <2> QED
    BY <2>1, ReadsOnData
<1>2. CASE Connect
  <2>1. thread.thread \in {"connect", "dial"} /\ UNCHANGED outstanding
        /\ (UNCHANGED worker \/ Throws)
    BY <1>2 DEF Connect
  <2> QED
    BY <2>1, ReadsOnData, ThrowsData
<1>3. CASE TakeHandshake
  <2>1. thread.thread \in {"connect", "dial"} /\ UNCHANGED outstanding
        /\ (UNCHANGED worker \/ Throws)
    BY <1>3 DEF TakeHandshake, ConnectionInv, CallKnown
  <2> QED
    BY <2>1, ReadsOnData, ThrowsData
<1>4. CASE TakeBitfield \/ TakeBitfieldBody \/ UnchokeForBitfield \/ TakeHave
  <2>1. thread.thread \in {"connect", "dial", "wait_have"}
        /\ UNCHANGED <<worker, outstanding>>
    BY <1>4 DEF TakeBitfield, TakeBitfieldBody, UnchokeForBitfield, TakeHave, ConnectionInv,
                CallKnown
  <2> QED
    BY <2>1, ReadsOnData
<1>5. CASE TakePieceHeader
  <2>1. /\ call = "request" /\ call' = "piece_body" /\ UNCHANGED <<worker, outstanding>>
        /\ link' = link
    BY <1>5 DEF TakePieceHeader, TakeHeader, Take
  <2>2. thread.thread \in Running /\ OpenBefore' = OpenBefore
    BY <2>1, CallRuns DEF OpenBefore
  <2> QED
    BY <2>1, <2>2, ReadsOnData
<1> QED
  BY <1>1, <1>2, <1>3, <1>4, <1>5

\* The exchanges that end _connect_to_peer, and the HAVE _wait_have waits for.
LEMMA ConnectedData ==
    ASSUME ConnectionInv, DataInv, UnchokeForInterested \/ TakeHaveBody PROVE DataInv'
<1>1. CASE UnchokeForInterested
  BY <1>1, ConnectedAsData DEF UnchokeForInterested, ConnectionInv, CallKnown
<1>2. CASE TakeHaveBody
  <2>1. header.index \in Pieces /\ thread.thread \in {"connect", "dial", "wait_have"}
    BY <1>2, HaveKnown DEF TakeHaveBody, ConnectionInv, CallKnown
  <2> QED
    BY <1>2, <2>1, WithPieceData, ConnectedAsData DEF TakeHaveBody
<1> QED
  BY <1>1, <1>2

\* The calls that fail, and those that read arbitrary bytes.
LEMMA FailedData ==
    ASSUME ConnectionInv, DataInv,
           UnexpectedMessage \/ TransferAborted \/ TransferFails \/ Garbled
    PROVE  DataInv'
<1>1. CASE UnexpectedMessage \/ TransferFails
  <2>1. call # "none" /\ Throws
    BY <1>1 DEF UnexpectedMessage, TransferFails, HeaderCalls
  <2> QED
    BY <2>1, CallRuns, ThrowsData
<1>2. CASE TransferAborted
  <2>1. call # "none" /\ (Throws \/ (call = "wait_have" /\ EndsAs(Returned(thread))))
    BY <1>2 DEF TransferAborted
  <2> QED
    BY <2>1, CallRuns, ThrowsData, ReturnsData
<1>3. CASE Garbled
  <2>1. call # "none"
    BY <1>3 DEF Garbled, HeaderCalls
  <2>2. CASE Throws
    BY <2>1, <2>2, CallRuns, ThrowsData
  <2>3. CASE call = "wait_have" /\ EndsAs(Returned(thread))
    BY <2>3, ReturnsData
  <2>4. CASE call = "wait_have" /\ \E h \in Pieces : Becomes(WithPiece(thread, h))
    BY <2>4, WithPieceData DEF ConnectionInv, CallKnown
  <2>5. CASE call = "request" /\ \E block \in AnyBytes(thread) :
                                     Becomes(WithBlock(thread, block))
    <3>1. /\ thread \in Workers /\ thread.thread = "block"
          /\ ~thread.is_piece_transfer_complete /\ link' # "in_step"
      BY <1>3, <2>1, <2>5, CallRuns, ThePeerKnown
         DEF Garbled, ConnectionInv, Typed, thread, CallKnown
    <3>2. PICK block \in AnyBytes(thread) : Becomes(WithBlock(thread, block))
      BY <2>5
    <3>3. block \in Blocks
      BY <3>1, CountsAssumption DEF AnyBytes, Blocks, Sizes, Workers, Contents
    <3>4. thread' = WithBlock(thread, block)
      BY <3>1, <3>2, <3>3, WithBlockType, ThreadKnown DEF ConnectionInv, Typed
    <3>5. thread'.thread = "block" /\ ~thread'.is_piece_transfer_complete
      BY <3>1, <3>4 DEF WithBlock, Workers
    <3> QED
      BY <3>1, <3>5 DEF DataInv
  <2> QED
    BY <1>3, <2>2, <2>3, <2>4, <2>5 DEF Garbled
<1> QED
  BY <1>1, <1>2, <1>3

\* Every step keeps the data right.
LEMMA NextData ==
    ASSUME HonestPeer, ConnectionInv, DataInv, [Next]_vars PROVE DataInv'
<1>1. CASE Call(ThePeer) /\ UNCHANGED connection
  BY <1>1, CallData
<1>2. CASE PeerSends
  BY <1>2, ReadData
<1>3. CASE Connecting
  BY <1>3, ReadData, ConnectedData DEF Connecting
<1>4. CASE Enter \/ SendRequest \/ TakePieceHeader \/ TakePieceBody \/ Finish
  BY <1>4, EnterData, SendRequestData, ReadData, TakePieceBodyData, FinishData
<1>5. CASE UnchokeForHave
  BY <1>5, ReturnsData DEF UnchokeForHave
<1>6. CASE UnexpectedMessage \/ TransferAborted \/ TransferFails \/ Garbled
  BY <1>6, FailedData
<1>7. CASE UNCHANGED vars
  <2>1. UNCHANGED <<worker, call, outstanding, link>> /\ thread' = thread
    BY <1>7 DEF vars, connection, thread
  <2>2. Prefix(thread') <=> Prefix(thread)
    BY <2>1
  <2> QED
    BY <2>1, <2>2 DEF DataInv, OpenBefore
<1> QED
  BY <1>1, <1>2, <1>3, <1>4, <1>5, <1>6, <1>7 DEF Next, Downloading

\* If the peer sends the torrent's bytes and the last piece is shorter than the
\* others, a transfer on a connection that is in step, with no request open, is
\* the whole piece last_piece_idx names, or no data ("Return piece data if it is
\* stored internally", client/piece.hpp).
THEOREM TransferIsRight == ASSUME HonestPeer PROVE Spec => []CleanTransferIsRight
<1>1. Init => DataInv
  <2> SUFFICES ASSUME Init PROVE DataInv
    OBVIOUS
  <2>1. thread = NewWorker
    BY ThePeerKnown DEF Init, WorkerInit, thread
  <2>2. NewWorker.thread = "none" /\ ~NewWorker.is_piece_transfer_complete
    BY DEF NewWorker
  <2> QED
    BY <2>1, <2>2 DEF DataInv, Running
<1>2. ConnectionInv /\ DataInv /\ [Next]_vars => DataInv'
  BY NextData
<1>3. DataInv => CleanTransferIsRight
  BY DEF DataInv, CleanTransferIsRight, InFrame
<1> QED
  BY <1>1, <1>2, <1>3, ConnectionInvariant, PTL DEF Spec

================================================================================
