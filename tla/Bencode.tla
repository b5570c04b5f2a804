-------------------------------- MODULE Bencode --------------------------------
(***************************************************************************)
(* bencode::decode_bencoded_value (bencode/decoders.cpp).  It keeps no     *)
(* state: a function of documents, which are sequences of bytes.  A byte   *)
(* is one of Bytes; "x80" stands for a byte that is not UTF-8.             *)
(*                                                                         *)
(* A decoded value (Json) is a record with one field, named for its kind.  *)
(* A cut off document is followed by the '\0' of the std::string it is a   *)
(* view of, which is no byte of Bytes: nothing starts with it.             *)
(***************************************************************************)
EXTENDS Integers, Sequences, SequencesExt

CONSTANTS
    IntegerMax  \* the largest Integer (long long); the least is one further

ASSUME IntegerMaxAssumption == IntegerMax \in Nat \ {0}

\* Bytes in the order of std::string's operator<.
Bytes == << "-", "0", "1", "2", "3", "4", "5", "6", "7", "8", "9",
            ":", "a", "d", "e", "i", "l", "x80" >>
ByteOf == [c \in ToSet(Bytes) |-> CHOOSE b \in DOMAIN Bytes : Bytes[b] = c]
Digit == [c \in {"0", "1", "2", "3", "4", "5", "6", "7", "8", "9"} |-> ByteOf[c] - 2]

Documents == Seq(ToSet(Bytes))

StartsWith(s, c) == s # << >> /\ Head(s) = c
Drop(s, n) == SubSeq(s, n + 1, Len(s))

\* The first place of a byte, or 0.
find(s, c) == LET places == {k \in DOMAIN s : s[k] = c}
              IN  IF places = {} THEN 0 ELSE Min(places)

(***************************************************************************)
(* Decoding: nullopt, an exception, or a value and the number of bytes it  *)
(* was decoded from.                                                       *)
(***************************************************************************)
Nullopt == [status |-> "nullopt"]
Throws == [status |-> "throws"]
Decoded(used, value) == [status |-> "decoded", used |-> used, value |-> value]
IsDecoded(result) == result.status = "decoded"

Unsigned(s) == IF StartsWith(s, "-") THEN Tail(s) ELSE s

\* std::from_chars: decimal digits after an optional minus.
Magnitude(s) == FoldLeft(LAMBDA n, c : 10 * n + Digit[c], 0, Unsigned(s))
FromChars(s) == IF StartsWith(s, "-") THEN -Magnitude(s) ELSE Magnitude(s)

\* to_integer has a value: all of s is a number, and it fits.
IsInteger(s) ==
    /\ Unsigned(s) # << >>
    /\ ToSet(Unsigned(s)) \subseteq DOMAIN Digit
    /\ Magnitude(s) \in 0 .. IntegerMax + (IF StartsWith(s, "-") THEN 1 ELSE 0)

\* Whether dump() accepts the bytes as a Json string.
IsText(bytes) == "x80" \notin ToSet(bytes)

\* The bytes of a string become Json text, or Json binary if dump() throws.
StringValue(bytes) ==
    IF IsText(bytes) THEN [string |-> bytes] ELSE [binary |-> bytes]

\* Faulty: the string must not be the last thing in the document.
decode_string_strict(s) ==
    LET delimiter == find(s, ":")
        len_str == SubSeq(s, 1, delimiter - 1)
        last == delimiter + FromChars(len_str)
    IN  IF delimiter # 0 /\ IsInteger(len_str) /\ last \in 0 .. Len(s) - 1
        THEN Decoded(last, StringValue(SubSeq(s, delimiter + 1, last)))
        ELSE Nullopt

\* Faulty: substr without its second argument.
decode_string_unbounded(s) ==
    LET delimiter == find(s, ":")
        len_str == SubSeq(s, 1, delimiter - 1)
        last == delimiter + FromChars(len_str)
    IN  IF delimiter # 0 /\ IsInteger(len_str) /\ last \in 0 .. Len(s)
        THEN Decoded(last, StringValue(Drop(s, delimiter)))
        ELSE Nullopt

\* last_symbol_pos is a size_t: a sum below zero is larger than any length.
\* A negative length (only a key can have one) that leaves it above zero is
\* accepted; as the argument of substr it is larger than any length.
decode_string(s) ==
    LET delimiter == find(s, ":")
        len_str == SubSeq(s, 1, delimiter - 1)
        last == delimiter + FromChars(len_str)
        bytes == IF FromChars(len_str) < 0 THEN Drop(s, delimiter)
                 ELSE SubSeq(s, delimiter + 1, last)
    IN  IF delimiter # 0 /\ IsInteger(len_str) /\ last \in 0 .. Len(s)
        THEN Decoded(last, StringValue(bytes))
        ELSE Nullopt

\* Faulty: the end symbol is not counted.
decode_integer_short(s) ==
    LET end == find(s, "e")
    IN  IF end # 0 /\ IsInteger(SubSeq(s, 2, end - 1))
        THEN Decoded(end - 1, [integer |-> FromChars(SubSeq(s, 2, end - 1))])
        ELSE Nullopt

decode_integer(s) ==
    LET end == find(s, "e")
    IN  IF end # 0 /\ IsInteger(SubSeq(s, 2, end - 1))
        THEN Decoded(end, [integer |-> FromChars(SubSeq(s, 2, end - 1))])
        ELSE Nullopt

(***************************************************************************)
(* decode_bencoded_value and its loops, over what remains of a list or a   *)
(* dictionary, call one another.  decode has the result of every call; it  *)
(* is the parameter calls of the operators that make calls.                *)
(***************************************************************************)
Calls == [of : {"value", "items", "entries"}, s : Documents]
Call(of, s) == [of |-> of, s |-> s]

\* What the loop has decoded, and the symbol the container begins with.
Opened(loop) == IF IsDecoded(loop) THEN Decoded(loop.used + 1, loop.value) ELSE loop

\* The loop over the items of a list.
ListLoop(calls, s) ==
    LET item == calls[Call("value", s)]
        rest == calls[Call("items", Drop(s, item.used))]
    IN  IF StartsWith(s, "e") THEN Decoded(1, [list |-> << >>])
        ELSE IF ~IsDecoded(item) THEN item
        ELSE IF ~IsDecoded(rest) THEN rest
        ELSE Decoded(item.used + rest.used,
                     [list |-> << item.value >> \o rest.value.list])

decode_bencoded_list(calls, s) == Opened(calls[Call("items", Drop(s, 1))])

\* dict with another entry before it: insert keeps an entry that is there.
WithEntry(key, value, dict) ==
    [k \in DOMAIN dict \cup {key} |-> IF k = key THEN value ELSE dict[k]]

\* The loop over the entries.  std::string(key) throws if the key is binary,
\* after the value has been decoded.
DictLoop(calls, s) ==
    LET key == decode_string(s)
        value == calls[Call("value", Drop(s, key.used))]
        rest == calls[Call("entries", Drop(s, key.used + value.used))]
    IN  IF StartsWith(s, "e") THEN Decoded(1, [dict |-> << >>])
        ELSE IF ~IsDecoded(key) THEN Nullopt
        ELSE IF ~IsDecoded(value) THEN value
        ELSE IF "binary" \in DOMAIN key.value THEN Throws
        ELSE IF ~IsDecoded(rest) THEN rest
        ELSE Decoded(key.used + value.used + rest.used,
                     [dict |-> WithEntry(key.value.string, value.value, rest.value.dict)])

decode_bencoded_dict(calls, s) == Opened(calls[Call("entries", Drop(s, 1))])

\* Looks at the first byte only; what follows the value is left alone.
ValueCall(calls, s) ==
    IF s = << >> THEN Nullopt
    ELSE CASE Head(s) = "i" -> decode_integer(s)
           [] Head(s) \in DOMAIN Digit -> decode_string(s)
           [] Head(s) = "l" -> decode_bencoded_list(calls, s)
           [] Head(s) = "d" -> decode_bencoded_dict(calls, s)
           [] OTHER -> Nullopt

CallResult(calls, c) ==
    CASE c.of = "value" -> ValueCall(calls, c.s)
      [] c.of = "items" -> ListLoop(calls, c.s)
      [] c.of = "entries" -> DictLoop(calls, c.s)

decode[c \in Calls] == CallResult(decode, c)

decode_bencoded_value(s) == decode[Call("value", s)]

================================================================================
