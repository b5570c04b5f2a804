------------------------------- MODULE MCBencode -------------------------------
(***************************************************************************)
(* Decoding for TLC: every document of at most MaxTokens tokens, or fewer  *)
(* after one of the Openings, and torrent files and answers of trackers,   *)
(* whole and with entries missing or of other kinds; with the properties   *)
(* of encoding.                                                            *)
(***************************************************************************)
EXTENDS Decoding, Encode

\* Parts of documents: structure, digits, strings one of which is not text, an
\* integer.
MCTokens == {<< "d" >>, << "l" >>, << "e" >>, << "i" >>, << "-" >>, << "0" >>,
             << "1" >>, << ":" >>, << "2", ":" >>, << "1", ":", "a" >>,
             << "1", ":", "x80" >>, << "i", "1", "e" >>}

\* A dictionary that has an entry, and one in a dictionary, with keys that look like
\* structure; one whose key has a negative length.
Openings == {<< "d", "1", ":", "e", "i", "1", "e" >>, << "d", "1", ":", "e", "d" >>,
             << "d", "-", "2", ":", "a" >>}

\* Values of several kinds, of whole numbers of hashes and peers or not.
Integers == {<< "i", "1", "e" >>}
Texts == {encode_string(bytes) : bytes \in {<< >>, << "a" >>, << "a", "d", "e" >>}}
Binaries ==
    {encode_string(bytes) :
       bytes \in {<< "x80" >>, << "a", "x80" >>, << "x80", "a", "d" >>,
                 << "a", "x80", "d", "e" >>, << "x80", "a", "d", "e", "a", "i" >>}}

\* An entry of a dictionary, or none.
Entries(key, values) == {<< >>} \cup {encode_string(key) \o value : value \in values}
Dictionary(entries) == << "d" >> \o FlattenSeq(entries) \o << "e" >>

Infos ==
    {Dictionary(<< l, p, s >>) :
       l \in Entries(length, Integers \cup Texts), p \in Entries(piece_length, Integers),
       s \in Entries(pieces_key, Integers \cup Texts \cup Binaries)}
TorrentFiles ==
    LET entries == Entries(announce, Integers \cup Texts \cup Binaries)
                     \X Entries(info, Integers \cup Infos)
    IN  {Dictionary(<< e[1], e[2] >>) : e \in entries}
          \cup {Dictionary(<< e[2], e[1] >>) : e \in entries}
Responses ==
    {Dictionary(<< f, p >>) :
       f \in Entries(failure_reason, Texts \cup Binaries),
       p \in Entries(peers_key, Integers \cup Texts \cup Binaries)}

MCBeginnings ==
    [document : {<< >>}, tokens : {0}]
      \cup [document : Openings, tokens : {1}]
      \cup [document : TorrentFiles \cup Responses, tokens : {MaxTokens}]

(***************************************************************************)
(* The canonical documents, as the definition of bencoding describes them: *)
(* numbers without superfluous digits that fit an Integer, and             *)
(* dictionaries with keys (text, here) in strictly increasing order.       *)
(***************************************************************************)
Numeral(s) ==
    /\ s # << >> /\ ToSet(s) \subseteq DOMAIN Digit
    /\ Head(s) = "0" => Len(s) = 1

CanonicalInteger(s) ==
    LET number == SubSeq(s, 2, Len(s) - 1)
    IN  /\ Len(s) > 2 /\ Head(s) = "i" /\ Last(s) = "e"
        /\ Numeral(Unsigned(number)) /\ number # << "-", "0" >>
        /\ FromChars(number) \in -(IntegerMax + 1) .. IntegerMax

\* The ways to read s as a string: where its length ends.
Delimiters(s) ==
    {k \in DOMAIN s : /\ s[k] = ":" /\ Numeral(SubSeq(s, 1, k - 1))
                      /\ FromChars(SubSeq(s, 1, k - 1)) = Len(s) - k}

RECURSIVE Canonical(_), CanonicalItems(_), CanonicalEntries(_, _)

CanonicalItems(s) ==
    \/ s = << >>
    \/ \E k \in DOMAIN s : Canonical(SubSeq(s, 1, k)) /\ CanonicalItems(Drop(s, k))

\* The entries of a dictionary, with keys greater than those in smaller.
CanonicalEntries(s, smaller) ==
    \/ s = << >>
    \/ \E k \in DOMAIN s : \E delimiter \in Delimiters(SubSeq(s, 1, k)) :
         LET key == SubSeq(s, delimiter + 1, k)
         IN  /\ IsText(key) /\ \A other \in smaller : KeyLess(other, key)
             /\ \E n \in k + 1 .. Len(s) :
                  /\ Canonical(SubSeq(s, k + 1, n))
                  /\ CanonicalEntries(Drop(s, n), smaller \cup {key})

Canonical(s) ==
    \/ CanonicalInteger(s)
    \/ Delimiters(s) # {}
    \/ /\ Len(s) > 1 /\ Last(s) = "e"
       /\ \/ Head(s) = "l" /\ CanonicalItems(SubSeq(s, 2, Len(s) - 1))
          \/ Head(s) = "d" /\ CanonicalEntries(SubSeq(s, 2, Len(s) - 1), {})

(***************************************************************************)
(* Properties of encoding                                                  *)
(***************************************************************************)
\* Encoding loses nothing: what was decoded, from whatever document, is
\* decoded again from its encoding, all of it and nothing more.
RoundTrip ==
    IsDecoded(result) =>
        LET bytes == encode(result.value)
        IN  \A rest \in {<< >>, document} :
              decode_bencoded_value(bytes \o rest) = Decoded(Len(bytes), result.value)

\* A canonical document is decoded, exactly, whatever follows it; and encoding
\* gives its bytes back, so that Metainfo::hash hashes the bytes of the file.
DecodesCanonical ==
    \A k \in DOMAIN document :
        LET bytes == SubSeq(document, 1, k)
        IN  Canonical(bytes) => /\ IsDecoded(result) /\ result.used = k
                                /\ encode(result.value) = bytes

\* encode produces nothing but canonical documents: a document whose bytes it
\* gives back is canonical, so that of any other Metainfo::hash hashes other
\* bytes than those of the file.
EncodesCanonical == IsDecoded(result) => Canonical(encode(result.value))

\* The bytes stand in the document, one after the other.
StandsInDocument(bytes) == \E k \in 0 .. Len(document) : IsPrefix(bytes, Drop(document, k))

\* The hash of a canonical torrent file is that of the bytes of "info" in it, the
\* one its peers and its tracker know it by (Metainfo::hash).
HashIsOfFile ==
    LET meta == from_file(result)
    IN  meta.status = "metainfo" /\ Canonical(consumed) =>
          StandsInDocument(encode_string(info) \o hash(meta))

================================================================================
