-------------------------------- MODULE Decoding --------------------------------
(***************************************************************************)
(* Whatever document is given to decode_bencoded_value, by                 *)
(* Metainfo::from_file or get_peers: documents grow by one token at a      *)
(* time, from nothing or from another beginning.  And what is received     *)
(* from a peer: Messages takes the bytes of the document for a message.    *)
(***************************************************************************)
EXTENDS Metainfo, Messages

CONSTANTS
    Tokens,      \* the parts documents are made of
    Beginnings,  \* documents to begin with, each counted as some tokens
    MaxTokens    \* bound on the length of documents, in tokens

ASSUME TokensAssumption ==
    /\ Tokens \subseteq Documents
    /\ Beginnings \subseteq [document : Documents, tokens : Nat]

\* Every byte of a document may be one of a message.
ASSUME BytesAssumption == Len(Bytes) <= Radix

VARIABLES
    document,  \* what is given to decode_bencoded_value
    result,    \* what that returns
    tokens     \* the number of tokens in it

vars == << document, result, tokens >>

Init ==
    /\ \E beginning \in Beginnings :
         document = beginning.document /\ tokens = beginning.tokens
    /\ result = decode_bencoded_value(document)

AppendToken ==
    /\ tokens < MaxTokens
    /\ \E token \in Tokens : document' = document \o token
    /\ result' = decode_bencoded_value(document')
    /\ tokens' = tokens + 1

Spec == Init /\ [][AppendToken]_vars

(***************************************************************************)
(* Properties                                                              *)
(***************************************************************************)
consumed == SubSeq(document, 1, result.used)

\* A number below zero with a colon behind it.
HasNegativeLength(s) ==
    \E first, colon \in DOMAIN s :
      LET number == SubSeq(s, first, colon - 1)
      IN  IsInteger(number) /\ FromChars(number) < 0 /\ s[colon] = ":"

\* The bytes after those consumed have no influence on the value, unless a key
\* has a negative length; then the key is all the rest of the document.
ConsumedDecides ==
    IsDecoded(result) /\ ~HasNegativeLength(consumed) =>
        decode_bencoded_value(consumed) = result

\* The bytes stand in s as a string: behind their number and a colon.
StandsAsString(bytes, s) ==
    \E first, colon \in DOMAIN s :
      LET number == SubSeq(s, first, colon - 1)
          last == colon + Len(bytes)
      IN  /\ IsInteger(number) /\ FromChars(number) = Len(bytes) /\ s[colon] = ":"
          /\ last <= Len(s) /\ SubSeq(s, colon + 1, last) = bytes

\* Chunks of n bytes, one after the other.
InARow(chunks, n) ==
    [b \in 1 .. n * Len(chunks) |-> chunks[((b - 1) \div n) + 1][((b - 1) % n) + 1]]

\* The hashes of the pieces are those in the file: all of them, in order, each of
\* full length (Metainfo::pieces), or none if the file has none.
PiecesAreOfFile ==
    LET meta == from_file(result)
        hashes == pieces(meta).pieces
    IN  meta.status = "metainfo" /\ pieces(meta).status = "pieces" =>
          /\ \A k \in DOMAIN hashes : Len(hashes[k]) = PieceHashLength
          /\ hashes # << >> => StandsAsString(InARow(hashes, PieceHashLength), document)

\* The peers are those in the answer of the tracker, all of them, in order, with
\* the port in network order (get_peers).
PeersAreOfAnswer ==
    LET answer == get_peers(result)
        byte(n) == CHOOSE c \in ToSet(Bytes) : ByteOf[c] = n
        packed(p) == p.ip \o << byte(p.port \div 256), byte(p.port % 256) >>
    IN  HasPeers(answer) =>
          StandsAsString(InARow([k \in DOMAIN answer.peers |-> packed(answer.peers[k])],
                                PeerBytes), document)

\* A tracker may answer with an empty list of peers.  get_peers then returns none,
\* for main to say "No peers returned from server" (EXPECTED in main.cpp).
EmptyListIsNoPeers ==
    LET response == result.value
    IN  /\ IsDecoded(result)
        /\ IsObject(response) /\ ~contains(response, failure_reason)
        /\ contains(response, peers_key)
        /\ response.dict[peers_key] = StringValue(<< >>)
        => get_peers(result) = [status |-> "peers", peers |-> << >>]

\* Unpacking any bytes as a message loses nothing (proto/deserialize.cpp).
UnpackedIsPacked == PackedAgain([k \in DOMAIN document |-> ByteOf[document[k]] - 1])

================================================================================
