--------------------------------- MODULE Encode ---------------------------------
(***************************************************************************)
(* bencode::encode (bencode/encoders.cpp), for the kinds of values that    *)
(* decoding yields: its nullopt is for null, booleans and floats, which    *)
(* decoding never yields.  And Metainfo::hash (torrent.cpp), the SHA-1 of  *)
(* what it makes of "info"; that is taken to tell all inputs apart, so a   *)
(* hash is its input here.                                                 *)
(***************************************************************************)
EXTENDS Metainfo

\* The order of keys in a Json object, a std::map.
KeyLess(k, l) ==
    \/ IsStrictPrefix(k, l)
    \/ \E n \in DOMAIN k \cap DOMAIN l :
         /\ SubSeq(k, 1, n - 1) = SubSeq(l, 1, n - 1)
         /\ ByteOf[k[n]] < ByteOf[l[n]]

RECURSIVE Decimal(_)

\* A number as fmt and dump() write it.
Decimal(n) ==
    IF n < 0 THEN << "-" >> \o Decimal(-n)
    ELSE (IF n < 10 THEN << >> ELSE Decimal(n \div 10)) \o << Bytes[(n % 10) + 2] >>

encode_integer(n) == << "i" >> \o Decimal(n) \o << "e" >>
encode_string(bytes) == Decimal(Len(bytes)) \o << ":" >> \o bytes
encode_binary(bytes) == encode_string(bytes)

RECURSIVE encode(_)

\* Faulty: the keys in another order.
encode_dict_backwards(dict) ==
    LET keys == SetToSortSeq(DOMAIN dict, LAMBDA k, l : KeyLess(l, k))
        entry(k) == encode_string(k) \o encode(dict[k])
    IN  << "d" >> \o FlattenSeq([i \in DOMAIN keys |-> entry(keys[i])]) \o << "e" >>

encode_dict(dict) ==
    LET keys == SetToSortSeq(DOMAIN dict, KeyLess)
        entry(k) == encode_string(k) \o encode(dict[k])
    IN  << "d" >> \o FlattenSeq([i \in DOMAIN keys |-> entry(keys[i])]) \o << "e" >>

encode_list(list) ==
    << "l" >> \o FlattenSeq([i \in DOMAIN list |-> encode(list[i])]) \o << "e" >>

encode(value) ==
    CASE "integer" \in DOMAIN value -> encode_integer(value.integer)
      [] "string" \in DOMAIN value -> encode_string(value.string)
      [] "binary" \in DOMAIN value -> encode_binary(value.binary)
      [] "dict" \in DOMAIN value -> encode_dict(value.dict)
      [] "list" \in DOMAIN value -> encode_list(value.list)

\* Faulty: the hash of all of the file.
hash_whole(meta) == encode(meta.raw)

\* The dictionary info, encoded anew (from_file has seen that it is there and is
\* not empty).
hash(meta) == encode(meta.raw.dict[info])

================================================================================
