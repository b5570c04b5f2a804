-------------------------------- MODULE Metainfo --------------------------------
(***************************************************************************)
(* Torrent files and the answers of trackers, after decoding: what         *)
(* Metainfo::from_file and pieces (torrent.cpp) and get_peers              *)
(* (client/client.cpp) make of a document that decode_bencoded_value has   *)
(* decoded.  They keep no state: operators on its result.                  *)
(*                                                                         *)
(* A key is one byte here, in the order of the keys of the code.           *)
(***************************************************************************)
EXTENDS Bencode

CONSTANTS
    PieceHashLength,  \* PIECE_HASH_LENGTH, 20 in the code
    PeerBytes         \* PEERS_CHUNK_SIZE_BYTES: an address and 2 bytes of port

ASSUME LengthsAssumption == PieceHashLength \in Nat \ {0} /\ PeerBytes \in Nat \ (0 .. 2)

announce == << "a" >>
info == << "i" >>
length == << "e" >>        \* in info
piece_length == << "i" >>  \* in info
pieces_key == << "l" >>    \* in info
failure_reason == << "e" >>
peers_key == << "l" >>

\* Json::contains; Json::value with a default, of an object.
IsObject(json) == "dict" \in DOMAIN json
contains(json, key) == IsObject(json) /\ key \in DOMAIN json.dict
ValueOr(json, key, default) == IF contains(json, key) THEN json.dict[key] ELSE default

Null == [null |-> TRUE]
NoBytes == [binary |-> << >>]

\* What ends a command: a std::runtime_error, which main reports, and any other
\* exception (Throws), which main does not catch.
RuntimeError == [status |-> "runtime_error"]

\* The bytes cut into groups of n.
Chunks(bytes, n) ==
    [k \in 1 .. Len(bytes) \div n |-> SubSeq(bytes, (k - 1) * n + 1, k * n)]

(***************************************************************************)
(* The torrent file.                                                       *)
(***************************************************************************)
\* Json::value throws for what is no object, and for an entry that is not of the
\* type of the default.
from_file(decoded) ==
    LET meta == decoded.value
        info_json == ValueOr(meta, info, Null)
        is_full_meta == /\ contains(meta, announce) /\ contains(meta, info)
                        /\ contains(info_json, length)
                        /\ contains(info_json, piece_length)
        has_types == /\ "string" \in DOMAIN meta.dict[announce]
                     /\ "integer" \in DOMAIN info_json.dict[length]
                     /\ "integer" \in DOMAIN info_json.dict[piece_length]
    IN  IF ~IsDecoded(decoded) THEN decoded
        ELSE IF ~IsObject(meta) THEN Throws
        ELSE IF ~is_full_meta THEN Nullopt
        ELSE IF ~has_types THEN Throws
        ELSE [status |-> "metainfo", raw |-> meta,
              length |-> info_json.dict[length].integer,
              piece_length |-> info_json.dict[piece_length].integer]

\* Faulty: no step from one piece to the next.
pieces_first(meta) ==
    LET pieces_bytes == ValueOr(meta.raw.dict[info], pieces_key, NoBytes)
    IN  IF "binary" \notin DOMAIN pieces_bytes THEN Throws
        ELSE IF Len(pieces_bytes.binary) % PieceHashLength # 0
             THEN [status |-> "undefined"]
        ELSE [status |-> "pieces",
              pieces |-> [k \in 1 .. Len(pieces_bytes.binary) \div PieceHashLength |->
                            SubSeq(pieces_bytes.binary, 1, PieceHashLength)]]

\* Text is not converted to bytes.  The iterator steps over the end if the bytes
\* do not add up to hashes.
pieces(meta) ==
    LET pieces_bytes == ValueOr(meta.raw.dict[info], pieces_key, NoBytes)
    IN  IF "binary" \notin DOMAIN pieces_bytes THEN Throws
        ELSE IF Len(pieces_bytes.binary) % PieceHashLength # 0
             THEN [status |-> "undefined"]
        ELSE [status |-> "pieces",
              pieces |-> Chunks(pieces_bytes.binary, PieceHashLength)]

(***************************************************************************)
(* The answer of the tracker.                                              *)
(***************************************************************************)
\* Faulty: the bytes of the port in the order of this machine.
decode_ip_port_binary_little(bytes) ==
    [ip |-> SubSeq(bytes, 1, PeerBytes - 2),
     port |-> 256 * ByteOf[bytes[PeerBytes]] + ByteOf[bytes[PeerBytes - 1]]]

decode_ip_port_binary(bytes) ==
    [ip |-> SubSeq(bytes, 1, PeerBytes - 2),
     port |-> 256 * ByteOf[bytes[PeerBytes - 1]] + ByteOf[bytes[PeerBytes]]]

decode_peers(bytes) ==
    IF Len(bytes) % PeerBytes # 0 THEN RuntimeError
    ELSE LET chunks == Chunks(bytes, PeerBytes)
         IN  [status |-> "peers",
              peers |-> [k \in DOMAIN chunks |-> decode_ip_port_binary(chunks[k])]]

get_peers(decoded) ==
    LET response == decoded.value
        peers == ValueOr(response, peers_key, NoBytes)
    IN  IF ~IsDecoded(decoded)
        THEN IF decoded = Nullopt THEN RuntimeError ELSE Throws
        ELSE IF contains(response, failure_reason) THEN RuntimeError
        ELSE IF ~IsObject(response) \/ "binary" \notin DOMAIN peers THEN Throws
        ELSE decode_peers(peers.binary)

\* download_piece_command and download_file_command go on only with a peer.
HasPeers(answer) == answer.status = "peers" /\ answer.peers # << >>

================================================================================
