-------------------------------- MODULE Messages --------------------------------
(***************************************************************************)
(* The messages of the peer protocol as bytes: pack_* of proto/serialize,  *)
(* unpack_* of proto/deserialize.  They keep no state: operators on        *)
(* sequences of bytes.  What the exchanges of a PieceWorker do with them   *)
(* is in PeerConnection.                                                   *)
(***************************************************************************)
EXTENDS Integers, Sequences

CONSTANT Radix  \* how many values a byte has, 256 in the code

ASSUME RadixAssumption == Radix \in Nat \ {0, 1}

Byte == 0 .. Radix - 1
UInt32 == 0 .. Radix * Radix * Radix * Radix - 1

\* The conversion of a size_t to uint32_t, in the arguments of pack_*.
uint32_t(n) == n % (Radix * Radix * Radix * Radix)

\* enum class MsgId.
Choke == 0
Unchoke == 1
Interested == 2
NotInterested == 3
Have == 4
Bitfield == 5
RequestId == 6
PieceId == 7
Cancel == 8
MsgId == 0 .. 8

SIZE_IN_BYTES == 5   \* of a MsgHeader
INDEX_SIZE == 4
BEGIN_SIZE == 4
HEADER_SIZE == 20    \* of a handshake, the byte with its length included
RESERVED_SIZE == 8
HASH_SIZE == 20
PEER_ID_SIZE == 20
HandshakeSIZE == HEADER_SIZE + RESERVED_SIZE + HASH_SIZE + PEER_ID_SIZE

\* Why a message is not decoded.
INCOMPLETE_MESSAGE == [error |-> "INCOMPLETE_MESSAGE"]
MALFORMED_MESSAGE == [error |-> "MALFORMED_MESSAGE"]
UNKNOW_MESSAGE_ID == [error |-> "UNKNOW_MESSAGE_ID"]

\* One byte out, to the right.
Shifted(value) == value \div Radix

pack_u32(value) ==
    << Shifted(Shifted(Shifted(value))) % Radix, Shifted(Shifted(value)) % Radix,
       Shifted(value) % Radix, value % Radix >>

\* Faulty: the bytes the other way round.
unpack_u32_little(msg, at) ==
    ((msg[at + 4] * Radix + msg[at + 3]) * Radix + msg[at + 2]) * Radix + msg[at + 1]

\* Of the four bytes after the first at, also where the span ends earlier (three
\* bytes of a header): the array goes on.
unpack_u32(msg, at) ==
    ((msg[at + 1] * Radix + msg[at + 2]) * Radix + msg[at + 3]) * Radix + msg[at + 4]

(***************************************************************************)
(* Packing.                                                                *)
(***************************************************************************)
pack_msg_header(id, length) == pack_u32(uint32_t(length)) \o << id >>

pack_interested_msg == pack_msg_header(Interested, 1)
pack_not_interested_msg == pack_msg_header(NotInterested, 1)
pack_unchoke_msg == pack_msg_header(Unchoke, 1)

pack_request_msg(piece_idx, begin, length) ==
    LET msg == pack_u32(uint32_t(piece_idx)) \o pack_u32(uint32_t(begin))
                 \o pack_u32(uint32_t(length))
    IN  pack_msg_header(RequestId, Len(msg) + 1) \o msg

pack_have_msg(piece_idx) ==
    LET msg == pack_u32(uint32_t(piece_idx))
    IN  pack_msg_header(Have, Len(msg) + 1) \o msg

\* "BitTorrent protocol" with its length in front, the reserved bytes, the hash
\* of the torrent and the name of this peer.  A hash is its bytes here; the code
\* keeps it as hexadecimal digits, which it takes apart and puts together.
pack_handshake(header, info_hash, peer_id) ==
    << Len(header) >> \o header \o [k \in 1 .. RESERVED_SIZE |-> 0]
      \o info_hash \o peer_id

(***************************************************************************)
(* Unpacking.                                                              *)
(***************************************************************************)
unpack_msg_header(msg) ==
    LET length == unpack_u32(msg, 0)
    IN  IF Len(msg) < SIZE_IN_BYTES THEN INCOMPLETE_MESSAGE
        ELSE IF length < 1 THEN MALFORMED_MESSAGE
        ELSE IF msg[5] \notin MsgId THEN UNKNOW_MESSAGE_ID
        ELSE [id |-> msg[5], body_length |-> length - 1]

unpack_piece_msg(msg) ==
    IF Len(msg) < INDEX_SIZE + BEGIN_SIZE THEN INCOMPLETE_MESSAGE
    ELSE [index |-> unpack_u32(msg, 0), begin |-> unpack_u32(msg, INDEX_SIZE),
          block |-> SubSeq(msg, INDEX_SIZE + BEGIN_SIZE + 1, Len(msg))]

unpack_have_msg(msg) ==
    IF Len(msg) < INDEX_SIZE THEN INCOMPLETE_MESSAGE
    ELSE [index |-> unpack_u32(msg, 0)]

\* The first byte says where the hash is; the spans are not compared with the
\* end of the message.
unpack_handshake(msg) ==
    LET hash == 1 + msg[1] + RESERVED_SIZE
        peer == hash + HASH_SIZE
    IN  IF Len(msg) < HandshakeSIZE THEN [error |-> "runtime_error"]
        ELSE IF Len(msg) < peer + PEER_ID_SIZE THEN [error |-> "undefined"]
        ELSE [info_hash |-> SubSeq(msg, hash + 1, hash + HASH_SIZE),
              peer_id |-> SubSeq(msg, peer + 1, peer + PEER_ID_SIZE)]

(***************************************************************************)
(* Properties.                                                             *)
(***************************************************************************)
\* Unpacking a message loses nothing: packed again, the header, or the body, are
\* the bytes of the message (proto/deserialize.cpp).
PackedAgain(msg) ==
    LET header == unpack_msg_header(msg)
        piece == unpack_piece_msg(msg)
        have == unpack_have_msg(msg)
    IN  /\ "id" \in DOMAIN header =>
             SubSeq(msg, 1, SIZE_IN_BYTES) = pack_msg_header(header.id, header.body_length + 1)
        /\ "block" \in DOMAIN piece =>
             msg = (pack_u32(piece.index) \o pack_u32(piece.begin)) \o piece.block
        /\ "index" \in DOMAIN have =>
             SubSeq(msg, 1, INDEX_SIZE)
               = SubSeq(pack_have_msg(have.index), SIZE_IN_BYTES + 1, SIZE_IN_BYTES + INDEX_SIZE)

================================================================================
