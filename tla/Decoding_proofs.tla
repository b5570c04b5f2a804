---------------------------- MODULE Decoding_proofs ----------------------------
(***************************************************************************)
(* Proofs about every document that decode_bencoded_value may be given.    *)
(* The calls it makes of itself are on less of the document, so that a     *)
(* least call that breaks a claim is one that keeps it: first that decode, *)
(* which is defined by recursion, has its result for every call, then that *)
(* an entry of a dictionary is a value decoded somewhere in the document,  *)
(* and at last that what follows a value has no influence on it.           *)
(***************************************************************************)
EXTENDS Decoding, Messages_proofs, WellFoundedInduction

--------------------------------------------------------------------------------
(***************************************************************************)
(* Parts of documents.                                                     *)
(***************************************************************************)
\* A set of natural numbers has a least element.

LEMMA LeastNat ==
    ASSUME NEW T \in SUBSET Nat, T # {}
    PROVE  \E n \in T : \A m \in T : n <= m
<1> DEFINE R == {pair \in Nat \X Nat : pair[1] < pair[2]}
<1>1. IsWellFoundedOn(R, Nat)
  BY NatLessThanWellFounded DEF OpToRel
<1> HIDE DEF R
<1>2. PICK x \in T : \A y \in T : << y, x >> \notin R
  <2>1. \E x \in T : \A y \in T : ~(<< y, x >> \in R)
    BY <1>1, WFMin
  <2> QED
    BY <2>1
<1>3. ASSUME NEW y \in T PROVE x <= y
  <2>1. y \in Nat /\ x \in Nat /\ << y, x >> \in Nat \X Nat
    OBVIOUS
  <2>2. << y, x >>[1] = y /\ << y, x >>[2] = x
    OBVIOUS
  <2>3. ~(y < x)
    BY <1>2, <2>1, <2>2 DEF R
  <2> QED
    BY <2>1, <2>3
<1> QED
  BY <1>3

\* What remains of a document after its first n bytes.
LEMMA DropDocument ==
    ASSUME NEW s \in Documents, NEW n \in 0 .. Len(s)
    PROVE /\ Drop(s, n) \in Documents /\ Len(Drop(s, n)) = Len(s) - n
          /\ \A k \in 1 .. Len(s) - n : Drop(s, n)[k] = s[n + k]
BY DEF Documents, Drop

\* find gives the first place of a byte, or 0 if it has none.
LEMMA FindFirst ==
    ASSUME NEW s \in Documents, NEW c
    PROVE \/ find(s, c) = 0 /\ \A k \in DOMAIN s : s[k] # c
          \/ /\ find(s, c) \in DOMAIN s /\ s[find(s, c)] = c
             /\ \A k \in DOMAIN s : k < find(s, c) => s[k] # c
<1> DEFINE places == {k \in DOMAIN s : s[k] = c}
<1>1. DOMAIN s = 1 .. Len(s) /\ Len(s) \in Nat
  BY DEF Documents
<1>2. CASE places = {}
  BY <1>2 DEF find
<1>3. CASE places # {}
  <2>1. find(s, c) = Min(places)
    BY <1>3 DEF find
  <2>2. places \in SUBSET Nat
    BY <1>1
  <2>3. \E n \in places : \A m \in places : n <= m
    BY <1>3, <2>2, LeastNat
  <2>4. Min(places) \in places /\ \A m \in places : Min(places) <= m
    BY <2>3 DEF Min
  <2>5. find(s, c) \in DOMAIN s /\ s[find(s, c)] = c
    BY <2>1, <2>4
  <2>6. ASSUME NEW k \in DOMAIN s, k < find(s, c) PROVE s[k] # c
    <3>1. SUFFICES ASSUME s[k] = c PROVE FALSE
      OBVIOUS
    <3>2. k \in places
      BY <3>1
    <3> HIDE DEF places
    <3> QED
      BY <1>1, <2>1, <2>4, <2>5, <2>6, <3>2
  <2> QED
    BY <2>5, <2>6
<1> QED BY <1>2, <1>3

\* What remains of what remains.
LEMMA DropDrop ==
    ASSUME NEW s \in Documents, NEW n \in 0 .. Len(s), NEW m \in 0 .. Len(s) - n
    PROVE  Drop(Drop(s, n), m) = Drop(s, n + m)
<1> DEFINE a == Drop(Drop(s, n), m)
           b == Drop(s, n + m)
<1>1. Len(s) \in Nat /\ n + m \in 0 .. Len(s)
  BY DEF Documents
<1>2. /\ Drop(s, n) \in Documents /\ Len(Drop(s, n)) = Len(s) - n
      /\ \A k \in 1 .. Len(s) - n : Drop(s, n)[k] = s[n + k]
  BY DropDocument
<1>3. /\ a \in Documents /\ Len(a) = Len(s) - n - m
      /\ \A k \in 1 .. Len(s) - n - m : a[k] = Drop(s, n)[m + k]
  <2>1. m \in 0 .. Len(Drop(s, n))
    BY <1>1, <1>2
  <2>2. /\ a \in Documents /\ Len(a) = Len(Drop(s, n)) - m
        /\ \A k \in 1 .. Len(Drop(s, n)) - m : a[k] = Drop(s, n)[m + k]
    BY <1>2, <2>1, DropDocument
  <2> QED
    BY <1>2, <2>2
<1>4. /\ b \in Documents /\ Len(b) = Len(s) - (n + m)
      /\ \A k \in 1 .. Len(s) - (n + m) : b[k] = s[(n + m) + k]
  BY <1>1, DropDocument
<1> HIDE DEF a, b
<1>5. Len(a) = Len(b)
  BY <1>1, <1>3, <1>4
<1>6. ASSUME NEW k \in 1 .. Len(a) PROVE a[k] = b[k]
  BY <1>1, <1>2, <1>3, <1>4, <1>6
<1>7. a = b
  BY <1>3, <1>4, <1>5, <1>6, SeqEqual DEF Documents
<1> QED
  BY <1>7 DEF a, b

\* A part of a document is a document.
LEMMA PartOf ==
    ASSUME NEW s \in Documents, NEW i \in 1 .. Len(s) + 1, NEW j \in i - 1 .. Len(s)
    PROVE  /\ SubSeq(s, i, j) \in Documents /\ Len(SubSeq(s, i, j)) = j - i + 1
           /\ \A k \in 1 .. j - i + 1 : SubSeq(s, i, j)[k] = s[i + k - 1]
<1>1. Len(s) \in Nat /\ i \in Int /\ j \in Int /\ i <= j + 1
  BY DEF Documents
<1>2. \A k \in i .. j : s[k] \in ToSet(Bytes)
  BY <1>1 DEF Documents
<1>3. /\ SubSeq(s, i, j) \in Seq(ToSet(Bytes))
      /\ Len(SubSeq(s, i, j)) = IF i <= j THEN j - i + 1 ELSE 0
      /\ \A k \in 1 .. j - i + 1 : SubSeq(s, i, j)[k] = s[i + k - 1]
  BY <1>1, <1>2, SubSeqProperties
<1> QED
  BY <1>1, <1>3 DEF Documents

\* A part of what remains is a part of the document.
LEMMA SubSeqDrop ==
    ASSUME NEW s \in Documents, NEW n \in 0 .. Len(s),
           NEW i \in 1 .. Len(s) - n + 1, NEW j \in i - 1 .. Len(s) - n
    PROVE  /\ SubSeq(Drop(s, n), i, j) = SubSeq(s, n + i, n + j)
           /\ SubSeq(s, n + i, n + j) \in Documents
           /\ Len(SubSeq(s, n + i, n + j)) = j - i + 1
           /\ \A k \in 1 .. j - i + 1 : SubSeq(s, n + i, n + j)[k] = s[n + i + k - 1]
<1> DEFINE a == SubSeq(Drop(s, n), i, j)
           b == SubSeq(s, n + i, n + j)
<1>1. Len(s) \in Nat /\ n \in Nat /\ i \in Nat /\ j \in Nat /\ i <= j + 1
  BY DEF Documents
<1>2. /\ Drop(s, n) \in Documents /\ Len(Drop(s, n)) = Len(s) - n
      /\ \A k \in 1 .. Len(s) - n : Drop(s, n)[k] = s[n + k]
  BY DropDocument
<1>3. /\ b \in Documents /\ Len(b) = j - i + 1
      /\ \A k \in 1 .. j - i + 1 : b[k] = s[n + i + k - 1]
  <2> DEFINE p == n + i
             q == n + j
  <2>1. p \in 1 .. Len(s) + 1 /\ q \in p - 1 .. Len(s) /\ q - p = j - i
    BY <1>1
  <2>2. /\ SubSeq(s, p, q) \in Documents /\ Len(SubSeq(s, p, q)) = q - p + 1
        /\ \A k \in 1 .. q - p + 1 : SubSeq(s, p, q)[k] = s[p + k - 1]
    BY <2>1, PartOf
  <2> QED
    BY <2>1, <2>2
<1>4. /\ a \in Documents /\ Len(a) = j - i + 1
      /\ \A k \in 1 .. j - i + 1 : a[k] = Drop(s, n)[i + k - 1]
  <2> DEFINE t == Drop(s, n)
  <2>1. t \in Documents /\ i \in 1 .. Len(t) + 1 /\ j \in i - 1 .. Len(t)
    BY <1>1, <1>2
  <2> HIDE DEF t
  <2>2. /\ SubSeq(t, i, j) \in Documents /\ Len(SubSeq(t, i, j)) = j - i + 1
        /\ \A k \in 1 .. j - i + 1 : SubSeq(t, i, j)[k] = t[i + k - 1]
    BY <2>1, PartOf
  <2> QED
    BY <2>2 DEF t
<1> HIDE DEF a, b
<1>5. ASSUME NEW k \in 1 .. Len(a) PROVE a[k] = b[k]
  <2>1. k \in 1 .. j - i + 1 /\ i + k - 1 \in 1 .. Len(s) - n
    BY <1>1, <1>4
  <2>2. a[k] = Drop(s, n)[i + k - 1] /\ b[k] = s[n + i + k - 1]
    BY <1>3, <1>4, <2>1
  <2>3. Drop(s, n)[i + k - 1] = s[n + (i + k - 1)]
    BY <1>2, <2>1
  <2>4. n + i + k - 1 = n + (i + k - 1)
    BY <1>1, <2>1
  <2> QED
    BY <2>2, <2>3, <2>4
<1>6. a = b
  BY <1>3, <1>4, <1>5, SeqEqual DEF Documents
<1> QED
  BY <1>3, <1>6 DEF a, b

--------------------------------------------------------------------------------
(***************************************************************************)
(* Calls.                                                                  *)
(***************************************************************************)
\* A call is smaller if it is on less of the document, or for the first item of
\* what the loop is on.
Measure(c) == 2 * Len(c.s) + (IF c.of = "value" THEN 0 ELSE 1)
Below(n) == {c \in Calls : Measure(c) < n}

\* A call ends with nullopt, with an exception, or with a value that uses some of
\* the bytes, and no others.
InRange(end, s) ==
    /\ IsDecoded(end) => end.used \in 1 .. Len(s)
    /\ ~IsDecoded(end) => end \in {Nullopt, Throws}

\* g has the results of the calls below n.
IsSolution(g, n) == \A c \in Below(n) : g[c] = CallResult(g, c) /\ InRange(g[c], c.s)

\* The measure of a call is a natural number.
LEMMA MeasureIsNat == \A c \in Calls : Measure(c) \in Nat
BY DEF Measure, Calls, Documents

\* Among calls there is one that depends on no other of them.
LEMMA LeastCall ==
    ASSUME NEW D \in SUBSET Calls, D # {}
    PROVE  \E d \in D : \A e \in Below(Measure(d)) : e \notin D
<1> DEFINE T == {Measure(d) : d \in D}
<1>1. T \in SUBSET Nat /\ T # {}
  BY MeasureIsNat
<1>2. PICK k \in T : \A j \in T : k <= j
  BY <1>1, LeastNat
<1>3. PICK d \in D : k = Measure(d)
  BY <1>2
<1>4. ASSUME NEW e \in Below(Measure(d)), e \in D PROVE FALSE
  <2>1. Measure(e) \in T
    BY <1>4
  <2>2. Measure(e) \in Nat /\ Measure(d) \in Nat /\ Measure(e) < Measure(d)
    BY MeasureIsNat DEF Below
  <2> QED
    BY <1>2, <1>3, <2>1, <2>2
<1> QED
  BY <1>4

\* An integer uses at least the two symbols around it.
LEMMA IntegerFits ==
    ASSUME NEW s \in Documents, s # << >>, Head(s) = "i", IsDecoded(decode_integer(s))
    PROVE  decode_integer(s).used \in 1 .. Len(s)
<1>1. find(s, "e") \in 1 .. Len(s)
  <2>1. find(s, "e") # 0
    BY DEF decode_integer, IsDecoded, Nullopt
  <2> QED
    BY <2>1, FindFirst DEF Documents
<1>2. decode_integer(s).used = find(s, "e")
  BY DEF decode_integer, Decoded, IsDecoded, Nullopt
<1> QED BY <1>1, <1>2

\* A decoded string has a length in front of its colon, and ends in the document
\* (the comparison with size() in decode_string).
LEMMA StringFits ==
    ASSUME NEW s \in Documents, IsDecoded(decode_string(s))
    PROVE  /\ find(s, ":") \in 1 .. Len(s)
           /\ IsInteger(SubSeq(s, 1, find(s, ":") - 1))
           /\ FromChars(SubSeq(s, 1, find(s, ":") - 1)) \in Int
           /\ decode_string(s).used = find(s, ":") + FromChars(SubSeq(s, 1, find(s, ":") - 1))
           /\ decode_string(s).used \in 0 .. Len(s)
<1>1. find(s, ":") # 0 /\ IsInteger(SubSeq(s, 1, find(s, ":") - 1))
  BY DEF decode_string, IsDecoded, Nullopt
<1>2. find(s, ":") \in 1 .. Len(s)
  BY <1>1, FindFirst DEF Documents
<1>3. FromChars(SubSeq(s, 1, find(s, ":") - 1)) \in Int
  BY <1>1, IntegerMaxAssumption DEF IsInteger, FromChars
<1>4. /\ decode_string(s).used = find(s, ":") + FromChars(SubSeq(s, 1, find(s, ":") - 1))
      /\ decode_string(s).used \in 0 .. Len(s)
  BY <1>1 DEF decode_string, Decoded, IsDecoded, Nullopt
<1> QED BY <1>1, <1>2, <1>3, <1>4

\* A string that begins with a digit has a length that is not negative.
LEMMA DigitStringFits ==
    ASSUME NEW s \in Documents, s # << >>, Head(s) \in DOMAIN Digit, IsDecoded(decode_string(s))
    PROVE  /\ decode_string(s).used \in 1 .. Len(s)
           /\ FromChars(SubSeq(s, 1, find(s, ":") - 1)) \in Nat
<1> DEFINE len == SubSeq(s, 1, find(s, ":") - 1)
<1>1. s[1] # ":" /\ s[1] # "-" /\ Len(s) > 0
  BY DEF Digit, Documents
<1>2. find(s, ":") > 1
  BY <1>1, StringFits, FindFirst
<1>3. len # << >> /\ Head(len) = s[1]
  BY <1>2, StringFits DEF Documents
<1>4. ~StartsWith(len, "-")
  BY <1>1, <1>3 DEF StartsWith
<1>5. FromChars(len) \in Nat
  BY <1>4, StringFits DEF FromChars, IsInteger
<1> QED BY <1>2, <1>5, StringFits

\* What is not decoded as an integer or as a string is nullopt.
LEMMA LeavesEnd ==
    ASSUME NEW s
    PROVE  /\ ~IsDecoded(decode_integer(s)) => decode_integer(s) = Nullopt
           /\ ~IsDecoded(decode_string(s)) => decode_string(s) = Nullopt
BY DEF decode_integer, decode_string, Decoded, IsDecoded

\* The fields of a decoded value.
LEMMA DecodedFields ==
    \A used, v : /\ IsDecoded(Decoded(used, v)) /\ Decoded(used, v).used = used
                 /\ Decoded(used, v).value = v
BY DEF Decoded, IsDecoded

\* The result of a call depends on the results of smaller ones only.
LEMMA CallsOfCall ==
    ASSUME NEW c \in Calls, NEW g, NEW h,
           \A e \in Below(Measure(c)) : g[e] = h[e] /\ InRange(g[e], e.s)
    PROVE  CallResult(g, c) = CallResult(h, c) /\ InRange(CallResult(g, c), c.s)
<1> DEFINE s == c.s
<1>0. /\ s \in Documents /\ c.of \in {"value", "items", "entries"} /\ Len(s) \in Nat
      /\ c.s = s
  BY DEF Calls, Documents
<1> HIDE DEF s
<1> SUFFICES CallResult(g, c) = CallResult(h, c) /\ InRange(CallResult(g, c), s)
  BY <1>0
<1>1. ASSUME NEW n \in 0 .. Len(s), NEW of \in {"value", "items", "entries"},
             n > 0 \/ (of = "value" /\ c.of # "value")
      PROVE  /\ g[Call(of, Drop(s, n))] = h[Call(of, Drop(s, n))]
             /\ IsDecoded(g[Call(of, Drop(s, n))]) =>
                  g[Call(of, Drop(s, n))].used \in 1 .. Len(s) - n
             /\ ~IsDecoded(g[Call(of, Drop(s, n))]) =>
                  g[Call(of, Drop(s, n))] \in {Nullopt, Throws}
  <2> DEFINE e == Call(of, Drop(s, n))
  <2>1. e \in Calls /\ Len(e.s) = Len(s) - n /\ e.of = of
    BY <1>0, DropDocument DEF Calls, Call
  <2> HIDE DEF e
  <2>2. Measure(e) \in Nat /\ Measure(e) < Measure(c)
    <3>1. CASE n > 0
      BY <1>0, <2>1, <3>1 DEF Measure
    <3>2. CASE of = "value" /\ c.of # "value"
      BY <1>0, <2>1, <3>2 DEF Measure
    <3> QED
      BY <1>1, <3>1, <3>2
  <2>3. e \in Below(Measure(c))
    BY <2>1, <2>2 DEF Below
  <2>4. /\ g[e] = h[e] /\ (IsDecoded(g[e]) => g[e].used \in 1 .. Len(e.s))
        /\ ~IsDecoded(g[e]) => g[e] \in {Nullopt, Throws}
    BY <2>3 DEF InRange
  <2> QED
    BY <2>1, <2>4 DEF e
<1>2. CASE c.of = "value"
  <2>1. CallResult(g, c) = ValueCall(g, s) /\ CallResult(h, c) = ValueCall(h, s)
    BY <1>0, <1>2 DEF CallResult
  <2>2. CASE s = << >>
    BY <2>1, <2>2 DEF ValueCall, InRange, IsDecoded, Nullopt
  <2>3. CASE s # << >> /\ Head(s) = "i"
    <3>1. ValueCall(g, s) = decode_integer(s) /\ ValueCall(h, s) = decode_integer(s)
      BY <2>3 DEF ValueCall, Digit
    <3> QED
      BY <1>0, <2>1, <2>3, <3>1, IntegerFits, LeavesEnd DEF InRange
  <2>4. CASE s # << >> /\ Head(s) \in DOMAIN Digit
    <3>1. ValueCall(g, s) = decode_string(s) /\ ValueCall(h, s) = decode_string(s)
      BY <2>4 DEF ValueCall, Digit
    <3> QED
      BY <1>0, <2>1, <2>4, <3>1, DigitStringFits, LeavesEnd DEF InRange
  <2>5. ASSUME s # << >>, NEW of \in {"items", "entries"}
        PROVE  /\ Opened(g[Call(of, Drop(s, 1))]) = Opened(h[Call(of, Drop(s, 1))])
               /\ InRange(Opened(g[Call(of, Drop(s, 1))]), s)
    <3>1. Len(s) > 0
      BY <1>0, <2>5 DEF Documents
    <3>2. /\ g[Call(of, Drop(s, 1))] = h[Call(of, Drop(s, 1))]
          /\ IsDecoded(g[Call(of, Drop(s, 1))]) =>
                  g[Call(of, Drop(s, 1))].used \in 1 .. Len(s) - 1
          /\ ~IsDecoded(g[Call(of, Drop(s, 1))]) =>
                  g[Call(of, Drop(s, 1))] \in {Nullopt, Throws}
      BY <1>0, <1>1, <3>1
    <3>3. Opened(g[Call(of, Drop(s, 1))]) = Opened(h[Call(of, Drop(s, 1))])
      BY <3>1, <3>2
    <3>4. CASE ~IsDecoded(g[Call(of, Drop(s, 1))])
      BY <3>2, <3>3, <3>4 DEF Opened, InRange
    <3>5. CASE IsDecoded(g[Call(of, Drop(s, 1))])
      <4> DEFINE r == g[Call(of, Drop(s, 1))]
      <4>1. r.used \in 1 .. Len(s) - 1
        BY <3>1, <3>2, <3>5
      <4>2. IsDecoded(Opened(r)) /\ Opened(r).used = r.used + 1
        BY <3>5, DecodedFields DEF Opened
      <4> HIDE DEF r
      <4>3. Opened(r).used \in 1 .. Len(s)
        BY <1>0, <4>1, <4>2
      <4> QED
        BY <3>3, <4>2, <4>3 DEF InRange, r
    <3> QED
      BY <3>4, <3>5
  <2>6. CASE s # << >> /\ Head(s) = "l"
    <3>1. Head(s) # "i" /\ Head(s) \notin DOMAIN Digit
      BY <2>6 DEF Digit
    <3> QED
      BY <2>1, <2>5, <2>6, <3>1 DEF ValueCall, decode_bencoded_list
  <2>7. CASE s # << >> /\ Head(s) = "d"
    <3>1. Head(s) # "i" /\ Head(s) \notin DOMAIN Digit
      BY <2>7 DEF Digit
    <3> QED
      BY <2>1, <2>5, <2>7, <3>1 DEF ValueCall, decode_bencoded_dict
  <2>8. CASE s # << >> /\ Head(s) \notin {"i", "l", "d"} \cup DOMAIN Digit
    BY <2>1, <2>8 DEF ValueCall, InRange, IsDecoded, Nullopt
  <2> QED
    BY <2>2, <2>3, <2>4, <2>6, <2>7, <2>8
<1>3. CASE c.of = "items"
  <2> DEFINE item == g[Call("value", s)]
             rest == g[Call("items", Drop(s, item.used))]
  <2>1. CallResult(g, c) = ListLoop(g, s) /\ CallResult(h, c) = ListLoop(h, s)
    BY <1>0, <1>3 DEF CallResult
  <2>2. Drop(s, 0) = s
    BY <1>0 DEF Drop, Documents
  <2>3. /\ item = h[Call("value", s)] /\ (IsDecoded(item) => item.used \in 1 .. Len(s))
        /\ ~IsDecoded(item) => item \in {Nullopt, Throws}
    BY <1>0, <1>1, <1>3, <2>2
  <2>4. CASE StartsWith(s, "e")
    <3>1. Len(s) >= 1
      BY <1>0, <2>4 DEF StartsWith, Documents
    <3> QED
      BY <1>0, <2>1, <2>4, <3>1, DecodedFields DEF ListLoop, InRange
  <2>5. CASE ~StartsWith(s, "e") /\ ~IsDecoded(item)
    BY <2>1, <2>3, <2>5 DEF ListLoop, InRange
  <2>6. CASE ~StartsWith(s, "e") /\ IsDecoded(item)
    <3>1. /\ rest = h[Call("items", Drop(s, item.used))]
          /\ IsDecoded(rest) => rest.used \in 1 .. Len(s) - item.used
          /\ ~IsDecoded(rest) => rest \in {Nullopt, Throws}
      BY <1>0, <1>1, <2>3, <2>6
    <3>2. ListLoop(g, s) = ListLoop(h, s)
      BY <2>3, <2>6, <3>1 DEF ListLoop
    <3>3. InRange(ListLoop(g, s), s)
      <4>1. CASE ~IsDecoded(rest)
        BY <2>6, <3>1, <4>1 DEF ListLoop, InRange
      <4>2. CASE IsDecoded(rest)
        <5>1. IsDecoded(ListLoop(g, s)) /\ ListLoop(g, s).used = item.used + rest.used
          BY <2>6, <4>2, DecodedFields, Zenon DEF ListLoop
        <5> QED
          BY <1>0, <2>3, <2>6, <3>1, <4>2, <5>1 DEF InRange
      <4> QED
        BY <4>1, <4>2
    <3> QED
      BY <2>1, <3>2, <3>3
  <2> QED
    BY <2>4, <2>5, <2>6
<1>4. CASE c.of = "entries"
  <2> DEFINE key == decode_string(s)
             value == g[Call("value", Drop(s, key.used))]
             rest == g[Call("entries", Drop(s, key.used + value.used))]
  <2>1. CallResult(g, c) = DictLoop(g, s) /\ CallResult(h, c) = DictLoop(h, s)
    BY <1>0, <1>4 DEF CallResult
  <2>2. CASE StartsWith(s, "e")
    <3>1. Len(s) >= 1
      BY <1>0, <2>2 DEF StartsWith, Documents
    <3> QED
      BY <1>0, <2>1, <2>2, <3>1, DecodedFields DEF DictLoop, InRange
  <2>3. CASE ~StartsWith(s, "e") /\ ~IsDecoded(key)
    BY <2>1, <2>3 DEF DictLoop, InRange, IsDecoded, Nullopt
  <2>4. CASE ~StartsWith(s, "e") /\ IsDecoded(key)
    <3>1. key.used \in 0 .. Len(s)
      BY <1>0, <2>4, StringFits
    <3>2. /\ value = h[Call("value", Drop(s, key.used))]
          /\ IsDecoded(value) => value.used \in 1 .. Len(s) - key.used
          /\ ~IsDecoded(value) => value \in {Nullopt, Throws}
      BY <1>0, <1>1, <1>4, <3>1
    <3>3. CASE ~IsDecoded(value)
      BY <2>1, <2>4, <3>2, <3>3 DEF DictLoop, InRange
    <3>4. CASE IsDecoded(value) /\ "binary" \in DOMAIN key.value
      BY <2>1, <2>4, <3>2, <3>4 DEF DictLoop, InRange, IsDecoded, Throws
    <3>5. CASE IsDecoded(value) /\ "binary" \notin DOMAIN key.value
      <4>1. key.used + value.used \in 1 .. Len(s)
        BY <1>0, <3>1, <3>2, <3>5
      <4>2. /\ rest = h[Call("entries", Drop(s, key.used + value.used))]
            /\ IsDecoded(rest) => rest.used \in 1 .. Len(s) - (key.used + value.used)
            /\ ~IsDecoded(rest) => rest \in {Nullopt, Throws}
        BY <1>0, <1>1, <4>1
      <4>3. DictLoop(g, s) = DictLoop(h, s)
        BY <2>4, <3>2, <3>5, <4>2 DEF DictLoop
      <4>4. InRange(DictLoop(g, s), s)
        <5>1. CASE ~IsDecoded(rest)
          BY <2>4, <3>5, <4>2, <5>1, Zenon DEF DictLoop, InRange
        <5>2. CASE IsDecoded(rest)
          <6>1. /\ IsDecoded(DictLoop(g, s))
                /\ DictLoop(g, s).used = key.used + value.used + rest.used
            BY <2>4, <3>5, <5>2, DecodedFields, Zenon DEF DictLoop
          <6> QED
            BY <1>0, <3>1, <4>1, <4>2, <5>2, <6>1 DEF InRange
        <5> QED
          BY <5>1, <5>2
      <4> QED
        BY <2>1, <4>3, <4>4
    <3> QED
      BY <3>3, <3>4, <3>5
  <2> QED
    BY <2>2, <2>3, <2>4
<1> QED
  BY <1>0, <1>2, <1>3, <1>4

\* The results of calls are the same in all functions that have them.
LEMMA SolutionIsUnique ==
    ASSUME NEW g, NEW h, NEW n \in Nat, NEW m \in Nat, IsSolution(g, n), IsSolution(h, m),
           NEW c \in Below(n) \cap Below(m)
    PROVE  g[c] = h[c]
<1> DEFINE D == {d \in Below(n) \cap Below(m) : g[d] # h[d]}
<1>1. SUFFICES ASSUME g[c] # h[c] PROVE FALSE
  OBVIOUS
<1>2. D \in SUBSET Calls /\ D # {}
  BY <1>1 DEF Below
<1>3. PICK d \in D : \A e \in Below(Measure(d)) : e \notin D
  BY <1>2, LeastCall
<1>4. ASSUME NEW e \in Below(Measure(d)) PROVE g[e] = h[e] /\ InRange(g[e], e.s)
  <2>1. Measure(e) \in Nat /\ Measure(d) \in Nat /\ Measure(e) < Measure(d)
    BY MeasureIsNat DEF Below
  <2>2. e \in Below(n) \cap Below(m)
    BY <2>1 DEF Below
  <2> QED
    BY <1>3, <2>2 DEF IsSolution
<1>5. CallResult(g, d) = CallResult(h, d)
  BY <1>4, CallsOfCall DEF Below
<1> QED
  BY <1>3, <1>5 DEF IsSolution

\* There is a function with the results of the calls below any bound.
LEMMA SolutionExists == ASSUME NEW n \in Nat PROVE \E g : IsSolution(g, n)
<1> DEFINE T == {m \in Nat : ~ \E g : IsSolution(g, m)}
<1>1. SUFFICES ASSUME T # {} PROVE FALSE
  OBVIOUS
<1>2. PICK m \in T : \A j \in T : m <= j
  BY <1>1, LeastNat
<1>3. Below(0) = {}
  BY MeasureIsNat DEF Below
<1>4. m # 0
  BY <1>3 DEF IsSolution
<1>5. m - 1 \in Nat /\ m - 1 \notin T
  BY <1>2, <1>4
<1>6. PICK g : IsSolution(g, m - 1)
  BY <1>5
<1> DEFINE h == [c \in Below(m) |-> IF Measure(c) < m - 1 THEN g[c] ELSE CallResult(g, c)]
<1>7. ASSUME NEW c \in Below(m) PROVE h[c] = CallResult(h, c) /\ InRange(h[c], c.s)
  <2>1. c \in Calls /\ Measure(c) \in Nat /\ Measure(c) < m
    BY MeasureIsNat DEF Below
  <2>2. ASSUME NEW e \in Below(Measure(c)) PROVE g[e] = h[e] /\ InRange(g[e], e.s)
    <3>1. Measure(e) \in Nat /\ Measure(e) < Measure(c) /\ e \in Calls
      BY MeasureIsNat DEF Below
    <3>2. Measure(e) < m - 1 /\ Measure(e) < m
      BY <2>1, <3>1, <1>5
    <3>3. e \in Below(m - 1) /\ e \in Below(m)
      BY <3>1, <3>2 DEF Below
    <3> QED
      BY <1>6, <3>2, <3>3 DEF IsSolution
  <2>3. CallResult(g, c) = CallResult(h, c) /\ InRange(CallResult(g, c), c.s)
    BY <2>1, <2>2, CallsOfCall
  <2>4. h[c] = CallResult(g, c)
    <3>1. CASE Measure(c) < m - 1
      <4>1. c \in Below(m - 1)
        BY <2>1, <3>1 DEF Below
      <4> QED
        BY <1>6, <3>1, <4>1 DEF IsSolution
    <3>2. CASE ~(Measure(c) < m - 1)
      BY <3>2
    <3> QED
      BY <3>1, <3>2
  <2> HIDE DEF h
  <2> QED
    BY <2>3, <2>4
<1> HIDE DEF h
<1>8. IsSolution(h, m)
  BY <1>7 DEF IsSolution
<1> QED
  BY <1>8

\* There is a function with the results of all calls: decode is defined.
LEMMA DecodeExists == \E f : f = [c \in Calls |-> CallResult(f, c)]
<1> DEFINE G(c) == CHOOSE g : IsSolution(g, Measure(c) + 1)
           f == [c \in Calls |-> G(c)[c]]
<1>1. ASSUME NEW c \in Calls
      PROVE  IsSolution(G(c), Measure(c) + 1) /\ c \in Below(Measure(c) + 1)
  <2>1. Measure(c) \in Nat /\ Measure(c) + 1 \in Nat /\ Measure(c) < Measure(c) + 1
    BY MeasureIsNat
  <2>2. \E g : IsSolution(g, Measure(c) + 1)
    BY <2>1, SolutionExists
  <2> QED
    BY <2>1, <2>2 DEF Below
<1> HIDE DEF G
<1>2. ASSUME NEW c \in Calls PROVE f[c] = CallResult(f, c)
  <2>1. ASSUME NEW e \in Below(Measure(c))
        PROVE  G(c)[e] = f[e] /\ InRange(G(c)[e], e.s)
    <3>1. /\ Measure(e) \in Nat /\ Measure(c) \in Nat /\ Measure(e) < Measure(c)
          /\ e \in Calls
      BY MeasureIsNat DEF Below
    <3>2. e \in Below(Measure(c) + 1) /\ Measure(e) + 1 \in Nat /\ Measure(c) + 1 \in Nat
      BY <3>1 DEF Below
    <3>3. G(c)[e] = G(e)[e]
      BY <1>1, <3>1, <3>2, SolutionIsUnique
    <3> QED
      BY <1>1, <3>1, <3>2, <3>3 DEF IsSolution
  <2> HIDE DEF f
  <2>2. CallResult(G(c), c) = CallResult(f, c)
    BY <2>1, CallsOfCall
  <2>3. f[c] = G(c)[c]
    BY DEF f
  <2>4. G(c)[c] = CallResult(G(c), c)
    BY <1>1 DEF IsSolution
  <2> QED
    BY <2>2, <2>3, <2>4
<1>3. f = [c \in Calls |-> f[c]]
  OBVIOUS
<1> HIDE DEF f
<1>4. f = [c \in Calls |-> CallResult(f, c)]
  BY <1>2, <1>3
<1> QED BY <1>4

\* decode has the result of every call.
LEMMA DecodeCall == \A c \in Calls : decode[c] = CallResult(decode, c)
<1>1. decode = [c \in Calls |-> CallResult(decode, c)]
  BY DecodeExists DEF decode
<1> QED BY <1>1

\* What the three functions return.
LEMMA CallsAre ==
    ASSUME NEW s \in Documents
    PROVE  /\ decode[Call("value", s)] = ValueCall(decode, s)
           /\ decode[Call("items", s)] = ListLoop(decode, s)
           /\ decode[Call("entries", s)] = DictLoop(decode, s)
<1>1. ASSUME NEW of \in {"value", "items", "entries"} PROVE Call(of, s) \in Calls
  BY DEF Calls, Call
<1>2. ASSUME NEW of \in {"value", "items", "entries"}
      PROVE  decode[Call(of, s)] = CallResult(decode, Call(of, s))
  BY <1>1, DecodeCall
<1>3. \A of : Call(of, s).of = of /\ Call(of, s).s = s
  BY DEF Call
<1> HIDE DEF Call
<1> QED
  BY <1>2, <1>3 DEF CallResult

\* No call uses bytes behind the document, or none at all.
LEMMA DecodedInRange ==
    ASSUME NEW c \in Calls
    PROVE  InRange(decode[c], c.s)
<1> DEFINE D == {d \in Calls : ~InRange(decode[d], d.s)}
<1>1. SUFFICES ASSUME D # {} PROVE FALSE
  OBVIOUS
<1>2. PICK d \in D : \A e \in Below(Measure(d)) : e \notin D
  BY <1>1, LeastCall
<1>3. \A e \in Below(Measure(d)) : InRange(decode[e], e.s)
  BY <1>2 DEF Below
<1>4. InRange(CallResult(decode, d), d.s)
  BY <1>3, CallsOfCall
<1> QED
  BY <1>2, <1>4, DecodeCall

\* The same of a call by its name.
LEMMA UsedInRange ==
    ASSUME NEW s \in Documents, NEW of \in {"value", "items", "entries"},
           IsDecoded(decode[Call(of, s)])
    PROVE  decode[Call(of, s)].used \in 1 .. Len(s)
<1>1. Call(of, s) \in Calls /\ Call(of, s).s = s
  BY DEF Call, Calls
<1> QED
  BY <1>1, DecodedInRange DEF InRange

--------------------------------------------------------------------------------
(***************************************************************************)
(* Where values come from.                                                 *)
(***************************************************************************)
\* The value is what a call yields somewhere in the document.
DecodedIn(v, s) ==
    \E n \in 0 .. Len(s) :
      /\ IsDecoded(decode[Call("value", Drop(s, n))])
      /\ v = decode[Call("value", Drop(s, n))].value

\* Every entry of the dictionary is decoded in what the loop over entries is on.
EntriesDecodedIn(s) ==
    LET r == decode[Call("entries", s)]
    IN  IsDecoded(r) => /\ DOMAIN r.value = {"dict"}
                        /\ \A key \in DOMAIN r.value.dict : DecodedIn(r.value.dict[key], s)

\* What is decoded in the rest of a document is decoded in the document.
LEMMA DecodedInLater ==
    ASSUME NEW s \in Documents, NEW n \in 0 .. Len(s), NEW v, DecodedIn(v, Drop(s, n))
    PROVE  DecodedIn(v, s)
<1>1. PICK m \in 0 .. Len(Drop(s, n)) :
        /\ IsDecoded(decode[Call("value", Drop(Drop(s, n), m))])
        /\ v = decode[Call("value", Drop(Drop(s, n), m))].value
  BY DEF DecodedIn
<1>2. m \in 0 .. Len(s) - n /\ Len(s) \in Nat
  BY DropDocument DEF Documents
<1>3. Drop(Drop(s, n), m) = Drop(s, n + m) /\ n + m \in 0 .. Len(s)
  BY <1>2, DropDrop
<1> QED
  BY <1>1, <1>3 DEF DecodedIn

\* The entries of a dictionary are decoded in the document, if this is so of all
\* shorter documents.
LEMMA EntriesStep ==
    ASSUME NEW s \in Documents,
           \A t \in Documents : Len(t) < Len(s) => EntriesDecodedIn(t)
    PROVE  EntriesDecodedIn(s)
<1> DEFINE r == decode[Call("entries", s)]
           key == decode_string(s)
           value == decode[Call("value", Drop(s, key.used))]
           rest == decode[Call("entries", Drop(s, key.used + value.used))]
           dict == WithEntry(key.value.string, value.value, rest.value.dict)
<1>1. r = DictLoop(decode, s) /\ Len(s) \in Nat
  BY CallsAre DEF Documents
<1>2. SUFFICES ASSUME IsDecoded(r)
               PROVE  /\ DOMAIN r.value = {"dict"}
                      /\ \A k \in DOMAIN r.value.dict : DecodedIn(r.value.dict[k], s)
  BY DEF EntriesDecodedIn
<1>3. CASE StartsWith(s, "e")
  <2>1. r = Decoded(1, [dict |-> << >>])
    BY <1>1, <1>3 DEF DictLoop
  <2> QED
    BY <2>1 DEF Decoded
<1>4. CASE ~StartsWith(s, "e")
  <2>1. IsDecoded(key) /\ IsDecoded(value) /\ IsDecoded(rest)
    <3>1. IsDecoded(DictLoop(decode, s)) /\ ~IsDecoded(Nullopt) /\ ~IsDecoded(Throws)
      BY <1>1, <1>2 DEF IsDecoded, Nullopt, Throws
    <3> QED
      BY <1>4, <3>1 DEF DictLoop
  <2>2. r = Decoded(key.used + value.used + rest.used, [dict |-> dict])
    <3>1. IsDecoded(DictLoop(decode, s)) /\ ~IsDecoded(Throws)
      BY <1>1, <1>2 DEF IsDecoded, Throws
    <3> QED
      BY <1>1, <1>4, <2>1, <3>1, Zenon DEF DictLoop
  <2>3. key.used \in 0 .. Len(s)
    BY <2>1, StringFits
  <2>4. value.used \in 1 .. Len(s) - key.used
    BY <2>1, <2>3, DropDocument, UsedInRange
  <2>5. key.used + value.used \in 1 .. Len(s)
    BY <1>1, <2>3, <2>4
  <2>6. EntriesDecodedIn(Drop(s, key.used + value.used))
    BY <1>1, <2>5, DropDocument
  <2>7. \A k \in DOMAIN rest.value.dict : DecodedIn(rest.value.dict[k], s)
    <3> DEFINE m == key.used + value.used
    <3>1. \A k \in DOMAIN rest.value.dict : DecodedIn(rest.value.dict[k], Drop(s, m))
      BY <2>1, <2>6, Zenon DEF EntriesDecodedIn
    <3>2. m \in 0 .. Len(s)
      BY <1>1, <2>5
    <3> HIDE DEF m, rest
    <3> QED
      BY <3>1, <3>2, DecodedInLater
  <2>8. DecodedIn(value.value, s)
    BY <2>1, <2>3 DEF DecodedIn
  <2>9. r.value.dict = dict /\ DOMAIN r.value = {"dict"}
    BY <2>2 DEF Decoded
  <2>10. \A k \in DOMAIN dict :
           \/ dict[k] = value.value
           \/ k \in DOMAIN rest.value.dict /\ dict[k] = rest.value.dict[k]
    BY Zenon DEF WithEntry
  <2> HIDE DEF dict, r, rest, value
  <2> QED
    BY <2>7, <2>8, <2>9, <2>10
<1> QED
  BY <1>3, <1>4

\* The entries of a dictionary are decoded in the document.
LEMMA EntriesAreDecoded ==
    ASSUME NEW s \in Documents
    PROVE  EntriesDecodedIn(s)
<1> DEFINE D == {d \in Calls : d.of = "entries" /\ ~EntriesDecodedIn(d.s)}
<1>1. ASSUME NEW t \in Documents, ~EntriesDecodedIn(t)
      PROVE  Call("entries", t) \in D /\ Measure(Call("entries", t)) = 2 * Len(t) + 1
  BY <1>1 DEF Calls, Call, Measure
<1>2. SUFFICES ASSUME D # {} PROVE FALSE
  BY <1>1
<1>3. PICK d \in D : \A e \in Below(Measure(d)) : e \notin D
  BY <1>2, LeastCall
<1>4. d.s \in Documents /\ Len(d.s) \in Nat /\ Measure(d) = 2 * Len(d.s) + 1
  BY DEF Calls, Documents, Measure
<1>5. ASSUME NEW t \in Documents, Len(t) < Len(d.s) PROVE EntriesDecodedIn(t)
  <2>1. SUFFICES ASSUME ~EntriesDecodedIn(t) PROVE FALSE
    OBVIOUS
  <2> DEFINE e == Call("entries", t)
  <2>2. e \in D /\ e \in Calls /\ Measure(e) = 2 * Len(t) + 1 /\ Len(t) \in Nat
    BY <1>1, <2>1 DEF Documents
  <2> HIDE DEF e, D
  <2>3. Measure(e) < Measure(d)
    BY <1>4, <1>5, <2>2
  <2> QED
    BY <1>3, <2>2, <2>3 DEF Below
<1>6. EntriesDecodedIn(d.s)
  BY <1>4, <1>5, EntriesStep
<1> QED
  BY <1>6

\* What stands as a string in the rest of a document stands in the document.
LEMMA StandsLater ==
    ASSUME NEW s \in Documents, NEW n \in 0 .. Len(s), NEW bytes \in Documents,
           StandsAsString(bytes, Drop(s, n))
    PROVE  StandsAsString(bytes, s)
<1> DEFINE t == Drop(s, n)
<1>1. /\ t \in Documents /\ Len(t) = Len(s) - n /\ Len(s) \in Nat /\ Len(bytes) \in Nat
      /\ n \in Nat
  <2>1. Len(s) \in Nat /\ Len(bytes) \in Nat
    BY DEF Documents
  <2> QED
    BY <2>1, DropDocument
<1>2. /\ \A k \in 1 .. Len(s) - n : t[k] = s[n + k]
      /\ \A i \in 1 .. Len(s) - n + 1 : \A j \in i - 1 .. Len(s) - n :
           SubSeq(t, i, j) = SubSeq(s, n + i, n + j)
  <2>1. \A i \in 1 .. Len(s) - n + 1 : \A j \in i - 1 .. Len(s) - n :
          SubSeq(Drop(s, n), i, j) = SubSeq(s, n + i, n + j)
    BY SubSeqDrop, ZenonT(60)
  <2> QED
    BY <2>1, DropDocument
<1> HIDE DEF t
<1>3. PICK first \in DOMAIN t, colon \in DOMAIN t :
        /\ IsInteger(SubSeq(t, first, colon - 1))
        /\ FromChars(SubSeq(t, first, colon - 1)) = Len(bytes)
        /\ t[colon] = ":"
        /\ colon + Len(bytes) <= Len(t)
        /\ SubSeq(t, colon + 1, colon + Len(bytes)) = bytes
  BY DEF StandsAsString, t
<1>4. first \in 1 .. Len(s) - n /\ colon \in 1 .. Len(s) - n
  BY <1>1 DEF Documents
<1>5. /\ colon + Len(bytes) <= Len(s) - n /\ t[colon] = s[n + colon]
      /\ n \in Nat /\ colon \in Nat /\ Len(s) \in Nat /\ Len(bytes) \in Nat
  <2>1. colon + Len(bytes) <= Len(t) /\ Len(t) = Len(s) - n
    BY <1>1, <1>3
  <2>2. n \in Nat /\ colon \in Nat /\ Len(s) \in Nat /\ Len(bytes) \in Nat
    BY <1>1, <1>4
  <2>3. t[colon] = s[n + colon]
    BY <1>2, <1>4
  <2> QED
    BY <2>1, <2>2, <2>3
<1>6. first <= colon - 1
  <2>1. SubSeq(t, first, colon - 1) # << >>
    BY <1>3 DEF IsInteger, Unsigned, StartsWith
  <2>2. first \in Int /\ colon - 1 \in Int
    BY <1>4
  <2>3. colon - 1 < first => SubSeq(t, first, colon - 1) = << >>
    BY <1>1, <2>2, SubSeqEmpty
  <2> QED
    BY <2>1, <2>2, <2>3
<1>7. n + first \in DOMAIN s /\ n + colon \in DOMAIN s
  BY <1>1, <1>4 DEF Documents
<1>8. /\ SubSeq(t, first, colon - 1) = SubSeq(s, n + first, (n + colon) - 1)
      /\ SubSeq(t, colon + 1, colon + Len(bytes))
           = SubSeq(s, (n + colon) + 1, (n + colon) + Len(bytes))
  <2>1. first \in 1 .. Len(s) - n + 1 /\ colon - 1 \in first - 1 .. Len(s) - n
    BY <1>1, <1>4, <1>6
  <2>2. colon + 1 \in 1 .. Len(s) - n + 1 /\ colon + Len(bytes) \in (colon + 1) - 1 .. Len(s) - n
    <3>1. colon \in 1 .. Len(s) - n /\ colon + Len(bytes) <= Len(s) - n
      BY <1>4, <1>5
    <3>2. n \in Nat /\ Len(s) \in Nat /\ Len(bytes) \in Nat
      BY <1>5
    <3> QED
      BY <3>1, <3>2
  <2>3. /\ n + (colon - 1) = (n + colon) - 1 /\ n + (colon + 1) = (n + colon) + 1
        /\ n + (colon + Len(bytes)) = (n + colon) + Len(bytes)
    BY <1>1, <1>4
  <2>4. SubSeq(t, first, colon - 1) = SubSeq(s, n + first, n + (colon - 1))
    BY <1>2, <2>1
  <2>5. SubSeq(t, colon + 1, colon + Len(bytes))
          = SubSeq(s, n + (colon + 1), n + (colon + Len(bytes)))
    BY <1>2, <2>2
  <2> QED
    BY <2>3, <2>4, <2>5
<1>9. s[n + colon] = ":" /\ (n + colon) + Len(bytes) <= Len(s)
  <2>1. s[n + colon] = ":"
    BY <1>3, <1>5
  <2>2. (n + colon) + Len(bytes) <= Len(s)
    BY <1>5
  <2> QED
    BY <2>1, <2>2
<1> QED
  BY <1>3, <1>7, <1>8, <1>9 DEF StandsAsString

\* The loop over items yields a list.
LEMMA ItemsKind ==
    ASSUME NEW s \in Documents, IsDecoded(decode[Call("items", s)])
    PROVE  DOMAIN decode[Call("items", s)].value = {"list"}
<1>1. decode[Call("items", s)] = ListLoop(decode, s)
  BY CallsAre
<1>2. PICK used, list : decode[Call("items", s)] = Decoded(used, [list |-> list])
  BY <1>1, Zenon DEF ListLoop
<1> QED
  BY <1>2 DEF Decoded

\* What is decoded as a string stands in the document as one.
LEMMA DecodedString ==
    ASSUME NEW s \in Documents, s # << >>, Head(s) \in DOMAIN Digit, IsDecoded(decode_string(s))
    PROVE  \E bytes \in Documents :
             /\ decode_string(s).value = StringValue(bytes)
             /\ StandsAsString(bytes, s)
<1> DEFINE colon == find(s, ":")
           number == SubSeq(s, 1, colon - 1)
           last == colon + FromChars(number)
           bytes == SubSeq(s, colon + 1, last)
<1>1. /\ colon \in 1 .. Len(s) /\ IsInteger(number) /\ FromChars(number) \in Nat
      /\ last \in 0 .. Len(s) /\ Len(s) \in Nat /\ DOMAIN s = 1 .. Len(s)
  BY StringFits, DigitStringFits DEF Documents
<1>2. s[colon] = ":"
  BY <1>1, FindFirst
<1>3. decode_string(s).value = StringValue(bytes)
  BY <1>1 DEF decode_string, Decoded
<1> HIDE DEF colon
<1>4. bytes \in Documents /\ Len(bytes) = FromChars(number)
  BY <1>1 DEF Documents
<1>5. 1 \in DOMAIN s /\ colon \in DOMAIN s /\ colon + Len(bytes) = last
  BY <1>1, <1>4
<1> HIDE DEF number, last, bytes
<1>6. StandsAsString(bytes, s)
  <2>1. /\ IsInteger(SubSeq(s, 1, colon - 1)) /\ FromChars(SubSeq(s, 1, colon - 1)) = Len(bytes)
        /\ SubSeq(s, colon + 1, colon + Len(bytes)) = bytes
    BY <1>1, <1>4, <1>5 DEF number, bytes
  <2>2. colon + Len(bytes) <= Len(s)
    BY <1>1, <1>5
  <2> QED
    BY <1>2, <1>5, <2>1, <2>2 DEF StandsAsString
<1> QED
  BY <1>3, <1>4, <1>6

\* A decoded value is an integer, a list, a dictionary whose entries are decoded
\* in the document, or a string that stands in it.
LEMMA DecodedKinds ==
    ASSUME NEW s \in Documents, IsDecoded(decode[Call("value", s)])
    PROVE  LET value == decode[Call("value", s)].value
           IN  \/ DOMAIN value \in {{"integer"}, {"list"}}
               \/ /\ DOMAIN value = {"dict"}
                  /\ \A k \in DOMAIN value.dict : DecodedIn(value.dict[k], s)
               \/ \E bytes \in Documents : value = StringValue(bytes) /\ StandsAsString(bytes, s)
<1> DEFINE r == decode[Call("value", s)]
<1>1. r = ValueCall(decode, s) /\ Len(s) \in Nat
  BY CallsAre DEF Documents
<1>2. s # << >> /\ Head(s) \in {"i", "l", "d"} \cup DOMAIN Digit
  BY <1>1 DEF ValueCall, IsDecoded, Nullopt
<1>3. Len(s) > 0 /\ 1 \in 0 .. Len(s)
  BY <1>1, <1>2 DEF Documents
<1>4. Drop(s, 1) \in Documents
  BY <1>3, DropDocument
<1>5. CASE Head(s) = "i"
  <2>1. r = decode_integer(s)
    BY <1>1, <1>2, <1>5 DEF ValueCall, Digit
  <2> QED
    BY <2>1 DEF decode_integer, Decoded, IsDecoded, Nullopt
<1>6. CASE Head(s) \in DOMAIN Digit
  <2>1. r = decode_string(s)
    BY <1>1, <1>2, <1>6 DEF ValueCall, Digit
  <2> QED
    BY <1>2, <1>6, <2>1, DecodedString
<1>7. CASE Head(s) = "l"
  <2>1. r = Opened(decode[Call("items", Drop(s, 1))])
    BY <1>1, <1>2, <1>7 DEF ValueCall, Digit, decode_bencoded_list
  <2>2. /\ IsDecoded(decode[Call("items", Drop(s, 1))])
        /\ r.value = decode[Call("items", Drop(s, 1))].value
    BY <2>1 DEF Opened, Decoded
  <2> QED
    BY <1>4, <2>2, ItemsKind
<1>8. CASE Head(s) = "d"
  <2>1. r = Opened(decode[Call("entries", Drop(s, 1))])
    BY <1>1, <1>2, <1>8 DEF ValueCall, Digit, decode_bencoded_dict
  <2>2. /\ IsDecoded(decode[Call("entries", Drop(s, 1))])
        /\ r.value = decode[Call("entries", Drop(s, 1))].value
    BY <2>1 DEF Opened, Decoded
  <2>3. EntriesDecodedIn(Drop(s, 1))
    BY <1>4, EntriesAreDecoded
  <2> QED
    BY <1>3, <2>2, <2>3, DecodedInLater DEF EntriesDecodedIn
<1> QED
  BY <1>2, <1>5, <1>6, <1>7, <1>8

\* A binary value is not empty, and stands as a string in the document.
LEMMA BinaryDecodedIn ==
    ASSUME NEW s \in Documents, NEW v, DecodedIn(v, s), "binary" \in DOMAIN v
    PROVE  /\ v.binary \in Documents /\ ~IsText(v.binary) /\ Len(v.binary) > 0
           /\ StandsAsString(v.binary, s)
<1>1. PICK n \in 0 .. Len(s) :
        /\ IsDecoded(decode[Call("value", Drop(s, n))])
        /\ v = decode[Call("value", Drop(s, n))].value
  BY DEF DecodedIn
<1>2. Drop(s, n) \in Documents
  BY DropDocument
<1>3. PICK bytes \in Documents : v = StringValue(bytes) /\ StandsAsString(bytes, Drop(s, n))
  BY <1>1, <1>2, DecodedKinds
<1>4. ~IsText(bytes) /\ v.binary = bytes
  BY <1>3 DEF StringValue
<1>5. Len(bytes) > 0
  BY <1>4 DEF IsText, ToSet, Documents
<1>6. StandsAsString(bytes, s)
  BY <1>3, StandsLater
<1> QED
  BY <1>4, <1>5, <1>6

\* An entry of the document, or of a value decoded in it, is decoded in it.
LEMMA EntryDecodedIn ==
    ASSUME NEW s \in Documents, NEW v, NEW key, contains(v, key),
           \/ IsDecoded(decode[Call("value", s)]) /\ v = decode[Call("value", s)].value
           \/ DecodedIn(v, s)
    PROVE  DecodedIn(v.dict[key], s)
<1>1. ASSUME NEW n \in 0 .. Len(s), IsDecoded(decode[Call("value", Drop(s, n))]),
             v = decode[Call("value", Drop(s, n))].value
      PROVE  DecodedIn(v.dict[key], s)
  <2>1. Drop(s, n) \in Documents
    BY DropDocument
  <2>2. "dict" \in DOMAIN v /\ key \in DOMAIN v.dict
    BY DEF contains, IsObject
  <2>3. ~\E bytes : v = StringValue(bytes)
    BY <2>2 DEF StringValue
  <2>4. DecodedIn(v.dict[key], Drop(s, n))
    BY <1>1, <2>1, <2>2, <2>3, DecodedKinds
  <2> QED
    BY <2>4, DecodedInLater
<1>2. Drop(s, 0) = s /\ 0 \in 0 .. Len(s)
  BY SubSeqFull DEF Drop, Documents
<1> QED
  BY <1>1, <1>2 DEF DecodedIn

\* Chunks of equal length in a row are the bytes they were cut from.
LEMMA ChunksInARow ==
    ASSUME NEW bytes \in Documents, NEW n \in Nat \ {0}, Len(bytes) % n = 0
    PROVE  /\ Chunks(bytes, n) \in Seq(Documents)
           /\ Len(Chunks(bytes, n)) = Len(bytes) \div n
           /\ \A k \in 1 .. Len(bytes) \div n : Len(Chunks(bytes, n)[k]) = n
           /\ InARow(Chunks(bytes, n), n) = bytes
<1> DEFINE m == Len(bytes) \div n
           chunks == Chunks(bytes, n)
<1>1. Len(bytes) \in Nat /\ m \in Nat /\ Len(bytes) = n * m
  BY DEF Documents
<1>2. ASSUME NEW k \in 1 .. m
      PROVE  /\ SubSeq(bytes, (k - 1) * n + 1, k * n) \in Documents
             /\ Len(SubSeq(bytes, (k - 1) * n + 1, k * n)) = n
             /\ \A i \in 1 .. n : SubSeq(bytes, (k - 1) * n + 1, k * n)[i] = bytes[(k - 1) * n + i]
  <2>1. (k - 1) * n \in Nat /\ k * n = (k - 1) * n + n /\ k * n <= n * m
    BY <1>1
  <2> DEFINE p == (k - 1) * n + 1
             q == k * n
  <2>2. p \in 1 .. Len(bytes) + 1 /\ q \in p - 1 .. Len(bytes) /\ q - p + 1 = n
    BY <1>1, <2>1
  <2>3. \A i \in 1 .. n : p + i - 1 = (k - 1) * n + i
    BY <2>1
  <2> HIDE DEF p, q
  <2>4. /\ SubSeq(bytes, p, q) \in Documents /\ Len(SubSeq(bytes, p, q)) = q - p + 1
        /\ \A i \in 1 .. q - p + 1 : SubSeq(bytes, p, q)[i] = bytes[p + i - 1]
    BY <2>2, PartOf
  <2>5. \A i \in 1 .. n : SubSeq(bytes, p, q)[i] = bytes[(k - 1) * n + i]
    <3> DEFINE part == SubSeq(bytes, p, q)
    <3>1. \A i \in 1 .. n : part[i] = bytes[p + i - 1]
      BY <2>2, <2>4
    <3> HIDE DEF part
    <3> QED
      BY <2>3, <3>1 DEF part
  <2> QED
    BY <2>2, <2>4, <2>5 DEF p, q
<1> DEFINE part(k) == SubSeq(bytes, (k - 1) * n + 1, k * n)
<1>3. chunks = [k \in 1 .. m |-> part(k)] /\ \A k \in 1 .. m : part(k) \in Documents
  BY <1>2 DEF Chunks
<1>4. chunks \in Seq(Documents) /\ Len(chunks) = m
  <2> HIDE DEF part, chunks, m
  <2> QED
    BY <1>1, <1>3
<1>5. \A k \in 1 .. m : /\ Len(chunks[k]) = n
                        /\ \A i \in 1 .. n : chunks[k][i] = bytes[(k - 1) * n + i]
  BY <1>2, <1>3
<1>6. ASSUME NEW b \in 1 .. Len(bytes)
      PROVE  chunks[((b - 1) \div n) + 1][((b - 1) % n) + 1] = bytes[b]
  <2> DEFINE k == ((b - 1) \div n) + 1
             i == ((b - 1) % n) + 1
  <2>1. k \in 1 .. m /\ i \in 1 .. n /\ (k - 1) * n + i = b
    BY <1>1
  <2> HIDE DEF k, i
  <2>2. chunks[k][i] = bytes[b]
    BY <1>5, <2>1
  <2> QED
    BY <2>2 DEF k, i
<1> HIDE DEF m, chunks
<1>7. InARow(chunks, n) = [b \in 1 .. Len(bytes) |-> bytes[b]]
  BY <1>1, <1>4, <1>6 DEF InARow
<1>8. bytes = [b \in 1 .. Len(bytes) |-> bytes[b]]
  BY DEF Documents
<1> QED
  BY <1>4, <1>5, <1>7, <1>8 DEF chunks, m

--------------------------------------------------------------------------------
(***************************************************************************)
(* Files and answers.                                                      *)
(***************************************************************************)
\* The result is that of the document, which has no other bytes than Bytes.
DecodingInv ==
    /\ document \in Documents
    /\ result = decode_bencoded_value(document)

\* DecodingInv is an invariant.
LEMMA DecodingInvariant == Spec => []DecodingInv
<1>1. Init => DecodingInv
  BY TokensAssumption DEF Init, DecodingInv
<1>2. DecodingInv /\ [AppendToken]_vars => DecodingInv'
  <2> SUFFICES ASSUME DecodingInv, [AppendToken]_vars PROVE DecodingInv'
    OBVIOUS
  <2>1. CASE AppendToken
    BY <2>1, TokensAssumption DEF AppendToken, DecodingInv, Documents
  <2>2. CASE UNCHANGED vars
    BY <2>2 DEF vars, DecodingInv
  <2> QED
    BY <2>1, <2>2
<1> QED
  BY <1>1, <1>2, PTL DEF Spec

\* The hashes of the pieces are those in the torrent file, all of them, in order,
\* each of full length (Metainfo::pieces).
THEOREM PiecesFromFile == Spec => []PiecesAreOfFile
<1>1. ASSUME DecodingInv PROVE PiecesAreOfFile
  <2> DEFINE meta == from_file(result)
             info_json == meta.raw.dict[info]
             bytes == info_json.dict[pieces_key].binary
  <2>1. SUFFICES ASSUME meta.status = "metainfo", pieces(meta).status = "pieces"
                 PROVE  /\ \A k \in DOMAIN pieces(meta).pieces :
                             Len(pieces(meta).pieces[k]) = PieceHashLength
                        /\ pieces(meta).pieces # << >> =>
                             StandsAsString(InARow(pieces(meta).pieces, PieceHashLength), document)
    BY DEF PiecesAreOfFile
  <2>2. /\ IsDecoded(result) /\ meta.raw = result.value
        /\ contains(result.value, info)
    <3>1. IsDecoded(result) \/ result \in {Nullopt, Throws}
      BY <1>1, DecodedInRange DEF DecodingInv, decode_bencoded_value, Calls, Call, InRange
    <3> QED
      BY <2>1, <3>1 DEF from_file, Throws, Nullopt
  <2>3. DecodedIn(info_json, document)
    BY <1>1, <2>2, EntryDecodedIn DEF DecodingInv, decode_bencoded_value
  <2>4. CASE ~contains(info_json, pieces_key)
    <3>1. ValueOr(info_json, pieces_key, NoBytes) = NoBytes
      BY <2>4 DEF ValueOr
    <3>2. pieces(meta).pieces = Chunks(<< >>, PieceHashLength)
      BY <2>1, <3>1 DEF pieces, NoBytes, Throws
    <3>3. Chunks(<< >>, PieceHashLength) = << >>
      BY LengthsAssumption DEF Chunks
    <3> QED
      BY <3>2, <3>3
  <2>5. CASE contains(info_json, pieces_key)
    <3>1. ValueOr(info_json, pieces_key, NoBytes) = info_json.dict[pieces_key]
      BY <2>5 DEF ValueOr
    <3>2. /\ "binary" \in DOMAIN info_json.dict[pieces_key]
          /\ Len(bytes) % PieceHashLength = 0
          /\ pieces(meta).pieces = Chunks(bytes, PieceHashLength)
      BY <2>1, <3>1 DEF pieces, Throws
    <3>3. DecodedIn(info_json.dict[pieces_key], document)
      BY <1>1, <2>3, <2>5, EntryDecodedIn DEF DecodingInv
    <3>4. bytes \in Documents /\ StandsAsString(bytes, document)
      BY <1>1, <3>2, <3>3, BinaryDecodedIn DEF DecodingInv
    <3>5. /\ Chunks(bytes, PieceHashLength) \in Seq(Documents)
          /\ Len(Chunks(bytes, PieceHashLength)) = Len(bytes) \div PieceHashLength
          /\ \A k \in 1 .. Len(bytes) \div PieceHashLength :
               Len(Chunks(bytes, PieceHashLength)[k]) = PieceHashLength
          /\ InARow(Chunks(bytes, PieceHashLength), PieceHashLength) = bytes
      BY <3>2, <3>4, ChunksInARow, LengthsAssumption, ZenonT(60)
    <3>6. DOMAIN Chunks(bytes, PieceHashLength) = 1 .. Len(bytes) \div PieceHashLength
      BY DEF Chunks
    <3> HIDE DEF meta, bytes
    <3> QED
      BY <3>2, <3>4, <3>5, <3>6
  <2> QED
    BY <2>4, <2>5
<1> QED
  BY <1>1, DecodingInvariant, PTL


\* A byte has a number, of one byte.
LEMMA BytesNumbered ==
    ASSUME NEW c \in ToSet(Bytes)
    PROVE  /\ ByteOf[c] \in 1 .. Len(Bytes) /\ Bytes[ByteOf[c]] = c
           /\ ByteOf[c] \in 0 .. 255
<1>1. Len(Bytes) = 18 /\ DOMAIN Bytes = 1 .. Len(Bytes)
  BY DEF Bytes
<1>2. ByteOf[c] = CHOOSE b \in DOMAIN Bytes : Bytes[b] = c
  BY DEF ByteOf
<1>3. \E b \in DOMAIN Bytes : Bytes[b] = c
  BY DEF ToSet
<1>4. ByteOf[c] \in DOMAIN Bytes /\ Bytes[ByteOf[c]] = c
  BY <1>2, <1>3
<1> QED
  BY <1>1, <1>4

\* A number of two bytes, taken apart.
LEMMA TwoBytes ==
    ASSUME NEW high \in 0 .. 255, NEW low \in 0 .. 255
    PROVE  (256 * high + low) \div 256 = high /\ (256 * high + low) % 256 = low
OBVIOUS

\* The bytes of a peer can be had from it again (decode_ip_port_binary).
LEMMA PeerPacksAgain ==
    ASSUME NEW bytes \in Documents, Len(bytes) = PeerBytes
    PROVE  LET byte(n) == CHOOSE c \in ToSet(Bytes) : ByteOf[c] = n
               packed(p) == p.ip \o << byte(p.port \div 256), byte(p.port % 256) >>
           IN  packed(decode_ip_port_binary(bytes)) = bytes
<1> DEFINE byte(n) == CHOOSE c \in ToSet(Bytes) : ByteOf[c] = n
           p == decode_ip_port_binary(bytes)
           high == bytes[PeerBytes - 1]
           low == bytes[PeerBytes]
<1>1. PeerBytes \in Nat /\ PeerBytes > 2
  BY LengthsAssumption
<1>2. high \in ToSet(Bytes) /\ low \in ToSet(Bytes)
  BY <1>1 DEF Documents
<1>3. ASSUME NEW c \in ToSet(Bytes) PROVE byte(ByteOf[c]) = c
  <2>1. byte(ByteOf[c]) \in ToSet(Bytes) /\ ByteOf[byte(ByteOf[c])] = ByteOf[c]
    OBVIOUS
  <2> HIDE DEF byte
  <2> QED
    BY <2>1, BytesNumbered
<1>4. /\ p.ip = SubSeq(bytes, 1, PeerBytes - 2)
      /\ p.port = 256 * ByteOf[high] + ByteOf[low]
  BY DEF decode_ip_port_binary
<1>5. p.port \div 256 = ByteOf[high] /\ p.port % 256 = ByteOf[low]
  <2>1. ByteOf[high] \in 0 .. 255 /\ ByteOf[low] \in 0 .. 255
    BY <1>2, BytesNumbered, ZenonT(60)
  <2> HIDE DEF high, low, p
  <2> QED
    <3> DEFINE a == ByteOf[high]
               b == ByteOf[low]
    <3>1. a \in 0 .. 255 /\ b \in 0 .. 255
      BY <2>1
    <3> HIDE DEF a, b
    <3>2. (256 * a + b) \div 256 = a /\ (256 * a + b) % 256 = b
      BY <3>1, TwoBytes
    <3>3. p.port = 256 * a + b
      BY <1>4 DEF a, b
    <3> QED
      BY <3>2, <3>3, Zenon DEF a, b
<1>6. byte(p.port \div 256) = high /\ byte(p.port % 256) = low
  <2> HIDE DEF byte, high, low, p
  <2> QED
    BY <1>2, <1>3, <1>5
<1>7. p.ip \o << high, low >> = bytes
  BY <1>1, <1>4 DEF Documents
<1> QED
  BY <1>6, <1>7

\* Where the peers of an answer come from.
LEMMA PeersFromBytes ==
    ASSUME DecodingInv, get_peers(result).status = "peers"
    PROVE  /\ ~contains(result.value, peers_key) => get_peers(result).peers = << >>
           /\ contains(result.value, peers_key) =>
                LET bytes == result.value.dict[peers_key].binary
                    chunks == Chunks(bytes, PeerBytes)
                IN  /\ bytes \in Documents /\ StandsAsString(bytes, document)
                    /\ Len(bytes) % PeerBytes = 0
                    /\ get_peers(result).peers =
                         [k \in DOMAIN chunks |-> decode_ip_port_binary(chunks[k])]
<1> DEFINE peers == ValueOr(result.value, peers_key, NoBytes)
<1>1. /\ IsDecoded(result) /\ "binary" \in DOMAIN peers
      /\ get_peers(result) = decode_peers(peers.binary)
  BY DEF get_peers, RuntimeError, Throws
<1>2. LET chunks == Chunks(peers.binary, PeerBytes)
      IN  /\ Len(peers.binary) % PeerBytes = 0
          /\ get_peers(result).peers = [k \in DOMAIN chunks |-> decode_ip_port_binary(chunks[k])]
  <2> HIDE DEF peers
  <2> QED
    BY <1>1 DEF decode_peers, RuntimeError
<1>3. ASSUME ~contains(result.value, peers_key) PROVE get_peers(result).peers = << >>
  <2>1. peers.binary = << >>
    BY <1>3 DEF ValueOr, NoBytes
  <2>2. Chunks(<< >>, PeerBytes) = << >>
    BY LengthsAssumption DEF Chunks
  <2> QED
    BY <1>2, <2>1, <2>2
<1>4. ASSUME contains(result.value, peers_key)
      PROVE  peers = result.value.dict[peers_key] /\ DecodedIn(peers, document)
  <2>1. peers = result.value.dict[peers_key]
    BY <1>4 DEF ValueOr
  <2>2. DecodedIn(result.value.dict[peers_key], document)
    BY <1>1, <1>4, EntryDecodedIn DEF DecodingInv, decode_bencoded_value
  <2> QED
    BY <2>1, <2>2
<1>5. ASSUME contains(result.value, peers_key)
      PROVE  /\ peers.binary \in Documents
             /\ StandsAsString(peers.binary, document)
  <2> HIDE DEF peers
  <2> QED
    BY <1>1, <1>4, <1>5, BinaryDecodedIn DEF DecodingInv
<1> QED
  BY <1>2, <1>3, <1>4, <1>5

\* The peers are those in the answer of the tracker, all of them, in order, with
\* their ports (get_peers).
THEOREM PeersFromAnswer == Spec => []PeersAreOfAnswer
<1>1. ASSUME DecodingInv, get_peers(result).status = "peers"
      PROVE  PeersAreOfAnswer
  <2> DEFINE byte(n) == CHOOSE c \in ToSet(Bytes) : ByteOf[c] = n
             packed(p) == p.ip \o << byte(p.port \div 256), byte(p.port % 256) >>
             peers == get_peers(result).peers
             bytes == result.value.dict[peers_key].binary
             chunks == Chunks(bytes, PeerBytes)
  <2>1. CASE ~contains(result.value, peers_key)
    BY <1>1, <2>1, PeersFromBytes DEF PeersAreOfAnswer, HasPeers
  <2>2. CASE contains(result.value, peers_key)
    <3>1. /\ bytes \in Documents /\ StandsAsString(bytes, document)
          /\ Len(bytes) % PeerBytes = 0
          /\ peers = [k \in DOMAIN chunks |-> decode_ip_port_binary(chunks[k])]
      BY <1>1, <2>2, PeersFromBytes
    <3>2. PeerBytes \in Nat \ {0}
      BY LengthsAssumption
    <3> HIDE DEF bytes, peers
    <3>3. /\ chunks \in Seq(Documents) /\ Len(chunks) = Len(bytes) \div PeerBytes
          /\ \A k \in 1 .. Len(bytes) \div PeerBytes : Len(chunks[k]) = PeerBytes
          /\ InARow(chunks, PeerBytes) = bytes
      BY <3>1, <3>2, ChunksInARow
    <3> HIDE DEF chunks
    <3>4. \A k \in DOMAIN chunks : packed(peers[k]) = chunks[k]
      <4>1. ASSUME NEW k \in DOMAIN chunks
            PROVE  packed(decode_ip_port_binary(chunks[k])) = chunks[k]
        <5>1. chunks[k] \in Documents /\ Len(chunks[k]) = PeerBytes
          BY <3>3
        <5> QED
          BY <5>1, PeerPacksAgain
      <4> HIDE DEF packed
      <4> QED
        BY <3>1, <4>1
    <3>5. [k \in DOMAIN peers |-> packed(peers[k])] = chunks
      <4> HIDE DEF packed
      <4>1. DOMAIN peers = DOMAIN chunks
        BY <3>1
      <4>2. [k \in DOMAIN peers |-> packed(peers[k])] = [k \in DOMAIN chunks |-> chunks[k]]
        BY <3>4, <4>1
      <4> QED
        BY <3>3, <4>2
    <3> QED
      BY <3>1, <3>3, <3>5 DEF PeersAreOfAnswer, peers
  <2> QED
    BY <2>1, <2>2
<1>2. ASSUME DecodingInv PROVE PeersAreOfAnswer
  <2>1. CASE get_peers(result).status = "peers"
    BY <1>1, <1>2, <2>1
  <2>2. CASE get_peers(result).status # "peers"
    BY <2>2 DEF PeersAreOfAnswer, HasPeers
  <2> QED
    BY <2>1, <2>2
<1> QED
  BY <1>2, DecodingInvariant, PTL

\* Unpacking a document as a message of a peer loses none of its bytes.
THEOREM UnpackingDocuments == Spec => []UnpackedIsPacked
<1>1. ASSUME DecodingInv PROVE UnpackedIsPacked
  <2> DEFINE msg == [k \in DOMAIN document |-> ByteOf[document[k]] - 1]
  <2>1. /\ Len(Bytes) = 18 /\ Radix \in Nat /\ Radix >= 18
    BY BytesAssumption, RadixAssumption DEF Bytes
  <2>2. DOMAIN document = 1 .. Len(document) /\ Len(document) \in Nat
        /\ \A k \in DOMAIN document : document[k] \in ToSet(Bytes)
    BY <1>1 DEF DecodingInv, Documents
  <2>3. \A k \in DOMAIN document : ByteOf[document[k]] - 1 \in Byte
    <3>1. SUFFICES ASSUME NEW k \in DOMAIN document PROVE ByteOf[document[k]] - 1 \in Byte
      OBVIOUS
    <3>2. ByteOf[document[k]] \in 1 .. 18
      BY <2>1, <2>2, BytesNumbered
    <3> QED
      BY <2>1, <3>2 DEF Byte
  <2>4. msg \in Seq(Byte)
    BY <2>2, <2>3
  <2>5. Have \in Byte
    BY <2>1 DEF Have, Byte
  <2> HIDE DEF msg
  <2>6. PackedAgain(msg)
    BY <2>4, <2>5, UnpackingLosesNothing
  <2> QED
    BY <2>6 DEF UnpackedIsPacked, msg
<1> QED
  BY <1>1, DecodingInvariant, PTL

--------------------------------------------------------------------------------
(***************************************************************************)
(* What follows a value.                                                   *)
(***************************************************************************)
\* s and t begin with the same n bytes.
Agree(s, t, n) ==
    /\ n \in 0 .. Len(s) /\ n \in 0 .. Len(t)
    /\ \A k \in 1 .. n : s[k] = t[k]

\* A negative length is among the first n bytes.
Negative(s, n) ==
    \E first, colon \in 1 .. n :
      /\ IsInteger(SubSeq(s, first, colon - 1))
      /\ FromChars(SubSeq(s, first, colon - 1)) < 0
      /\ s[colon] = ":"

\* Documents that agree have the same parts.
LEMMA AgreeOnPart ==
    ASSUME NEW s \in Documents, NEW t \in Documents, NEW n, Agree(s, t, n),
           NEW i \in 1 .. n + 1, NEW j \in 0 .. n
    PROVE  SubSeq(s, i, j) = SubSeq(t, i, j)
<1>1. Len(s) \in Nat /\ Len(t) \in Nat /\ n \in 0 .. Len(s) /\ n \in 0 .. Len(t)
  BY DEF Documents, Agree
<1>2. CASE j < i
  BY <1>1, <1>2, SubSeqEmpty
<1>3. CASE j >= i
  <2> DEFINE a == SubSeq(s, i, j)
             b == SubSeq(t, i, j)
  <2>1. i \in 1 .. Len(s) + 1 /\ j \in i - 1 .. Len(s)
    BY <1>1, <1>3
  <2>2. i \in 1 .. Len(t) + 1 /\ j \in i - 1 .. Len(t)
    BY <1>1, <1>3
  <2>3. /\ a \in Documents /\ Len(a) = j - i + 1
        /\ \A k \in 1 .. j - i + 1 : a[k] = s[i + k - 1]
    BY <2>1, PartOf
  <2>4. /\ b \in Documents /\ Len(b) = j - i + 1
        /\ \A k \in 1 .. j - i + 1 : b[k] = t[i + k - 1]
    BY <2>2, PartOf
  <2> HIDE DEF a, b
  <2>5. ASSUME NEW k \in 1 .. Len(a) PROVE a[k] = b[k]
    <3>1. k \in 1 .. j - i + 1 /\ i + k - 1 \in 1 .. n
      BY <1>1, <1>3, <2>3
    <3>2. s[i + k - 1] = t[i + k - 1]
      BY <3>1 DEF Agree
    <3> QED
      BY <2>3, <2>4, <3>1, <3>2
  <2>6. a = b
    BY <2>3, <2>4, <2>5, SeqEqual DEF Documents
  <2> QED
    BY <2>6 DEF a, b
<1> QED
  BY <1>1, <1>2, <1>3

\* Documents that agree on n bytes agree on fewer.
LEMMA AgreeLess ==
    ASSUME NEW s \in Documents, NEW t \in Documents, NEW n, Agree(s, t, n), NEW m \in 0 .. n
    PROVE  Agree(s, t, m)
BY DEF Agree, Documents

\* What remains of documents that agree.
LEMMA AgreeDrop ==
    ASSUME NEW s \in Documents, NEW t \in Documents, NEW n, Agree(s, t, n), NEW m \in 0 .. n
    PROVE  Agree(Drop(s, m), Drop(t, m), n - m)
<1>1. /\ Len(s) \in Nat /\ Len(t) \in Nat /\ n \in 0 .. Len(s) /\ n \in 0 .. Len(t)
      /\ m \in 0 .. Len(s) /\ m \in 0 .. Len(t)
  BY DEF Documents, Agree
<1>2. /\ Len(Drop(s, m)) = Len(s) - m
      /\ \A k \in 1 .. Len(s) - m : Drop(s, m)[k] = s[m + k]
  BY <1>1, DropDocument
<1>3. /\ Len(Drop(t, m)) = Len(t) - m
      /\ \A k \in 1 .. Len(t) - m : Drop(t, m)[k] = t[m + k]
  BY <1>1, DropDocument
<1>4. n - m \in 0 .. Len(s) - m /\ n - m \in 0 .. Len(t) - m
  BY <1>1
<1>5. ASSUME NEW k \in 1 .. n - m PROVE Drop(s, m)[k] = Drop(t, m)[k]
  <2>1. k \in 1 .. Len(s) - m /\ k \in 1 .. Len(t) - m /\ m + k \in 1 .. n
    BY <1>1, <1>4
  <2>2. s[m + k] = t[m + k]
    BY <2>1 DEF Agree
  <2> QED
    BY <1>2, <1>3, <2>1, <2>2
<1> QED
  BY <1>2, <1>3, <1>4, <1>5 DEF Agree

\* A byte among those that agree is found at the same place.
LEMMA FindAgrees ==
    ASSUME NEW s \in Documents, NEW t \in Documents, NEW n, Agree(s, t, n), NEW c,
           find(s, c) \in 1 .. n
    PROVE  find(t, c) = find(s, c)
<1>1. /\ Len(s) \in Nat /\ Len(t) \in Nat /\ n \in 0 .. Len(s) /\ n \in 0 .. Len(t)
      /\ DOMAIN s = 1 .. Len(s) /\ DOMAIN t = 1 .. Len(t)
  BY DEF Documents, Agree
<1>2. s[find(s, c)] = c /\ \A k \in DOMAIN s : k < find(s, c) => s[k] # c
  BY FindFirst
<1>3. t[find(s, c)] = c /\ find(s, c) \in DOMAIN t
  BY <1>1, <1>2 DEF Agree
<1>4. /\ find(t, c) \in DOMAIN t /\ t[find(t, c)] = c
      /\ \A k \in DOMAIN t : k < find(t, c) => t[k] # c
  BY <1>3, FindFirst
<1>5. ~(find(s, c) < find(t, c))
  BY <1>3, <1>4
<1>6. ~(find(t, c) < find(s, c))
  <2>1. SUFFICES ASSUME find(t, c) < find(s, c) PROVE FALSE
    OBVIOUS
  <2>2. find(t, c) \in 1 .. n /\ find(t, c) \in DOMAIN s
    BY <1>1, <1>4, <2>1
  <2>3. s[find(t, c)] = c
    BY <1>4, <2>2 DEF Agree
  <2> QED
    BY <1>2, <2>1, <2>2, <2>3
<1> QED
  BY <1>1, <1>4, <1>5, <1>6

\* A negative length among the first bytes is among more of them.
LEMMA NegativeLess ==
    ASSUME NEW s, NEW n \in Nat, NEW m \in 0 .. n, Negative(s, m)
    PROVE  Negative(s, n)
<1>1. \A k \in 1 .. m : k \in 1 .. n
  OBVIOUS
<1> QED
  BY <1>1 DEF Negative

\* A negative length in the rest of a document is one in the document.
LEMMA NegativeLater ==
    ASSUME NEW s \in Documents, NEW n \in 0 .. Len(s), NEW m \in 0 .. Len(s) - n,
           Negative(Drop(s, n), m)
    PROVE  Negative(s, n + m)
<1> DEFINE t == Drop(s, n)
<1>1. t \in Documents /\ Len(t) = Len(s) - n /\ Len(s) \in Nat
  <2>1. Len(s) \in Nat
    BY DEF Documents
  <2> QED
    BY <2>1, DropDocument
<1>2. /\ \A k \in 1 .. Len(s) - n : t[k] = s[n + k]
      /\ \A i \in 1 .. Len(s) - n + 1 : \A j \in i - 1 .. Len(s) - n :
           SubSeq(t, i, j) = SubSeq(s, n + i, n + j)
  <2>1. \A i \in 1 .. Len(s) - n + 1 : \A j \in i - 1 .. Len(s) - n :
          SubSeq(Drop(s, n), i, j) = SubSeq(s, n + i, n + j)
    BY SubSeqDrop, ZenonT(60)
  <2> QED
    BY <2>1, DropDocument
<1>3. PICK first \in 1 .. m, colon \in 1 .. m :
        /\ IsInteger(SubSeq(t, first, colon - 1))
        /\ FromChars(SubSeq(t, first, colon - 1)) < 0
        /\ t[colon] = ":"
  BY DEF Negative
<1> HIDE DEF t
<1>4. first <= colon - 1
  <2>1. SubSeq(t, first, colon - 1) # << >>
    BY <1>3 DEF IsInteger, Unsigned, StartsWith
  <2>2. colon - 1 < first => SubSeq(t, first, colon - 1) = << >>
    BY <1>1, SubSeqEmpty
  <2> QED
    BY <1>1, <2>1, <2>2
<1>5. SubSeq(t, first, colon - 1) = SubSeq(s, n + first, (n + colon) - 1)
  <2>1. first \in 1 .. Len(s) - n + 1 /\ colon - 1 \in first - 1 .. Len(s) - n
    BY <1>1, <1>4
  <2>2. n + (colon - 1) = (n + colon) - 1
    BY <1>1
  <2> QED
    BY <1>2, <2>1, <2>2
<1>6. s[n + colon] = ":"
  <2>1. colon \in 1 .. Len(s) - n
    BY <1>1
  <2> QED
    BY <1>2, <1>3, <2>1
<1>7. n + first \in 1 .. n + m /\ n + colon \in 1 .. n + m
  BY <1>1
<1>8. /\ IsInteger(SubSeq(s, n + first, (n + colon) - 1))
      /\ FromChars(SubSeq(s, n + first, (n + colon) - 1)) < 0
  BY <1>3, <1>5
<1> QED
  BY <1>6, <1>7, <1>8 DEF Negative

\* An integer is decided by its bytes.
LEMMA IntegerAgrees ==
    ASSUME NEW s \in Documents, NEW t \in Documents, IsDecoded(decode_integer(s)),
           Agree(s, t, decode_integer(s).used)
    PROVE  decode_integer(t) = decode_integer(s)
<1> DEFINE end == find(s, "e")
<1>1. end \in 1 .. Len(s) /\ Len(s) \in Nat
  <2>1. end # 0
    BY DEF decode_integer, IsDecoded, Nullopt
  <2> QED
    BY <2>1, FindFirst DEF Documents
<1>2. decode_integer(s).used = end
  BY DEF decode_integer, Decoded, IsDecoded, Nullopt
<1>3. find(t, "e") = end
  BY <1>1, <1>2, FindAgrees
<1>4. SubSeq(s, 2, end - 1) = SubSeq(t, 2, end - 1)
  <2> HIDE DEF end
  <2>1. 2 \in 1 .. end + 1 /\ end - 1 \in 0 .. end
    BY <1>1
  <2> QED
    BY <1>2, <2>1, AgreeOnPart
<1> QED
  BY <1>3, <1>4 DEF decode_integer

\* A string is decided by its bytes, unless its length is negative.
LEMMA StringAgrees ==
    ASSUME NEW s \in Documents, NEW t \in Documents, IsDecoded(decode_string(s)),
           FromChars(SubSeq(s, 1, find(s, ":") - 1)) \in Nat,
           NEW n, n >= decode_string(s).used, Agree(s, t, n)
    PROVE  decode_string(t) = decode_string(s)
<1> DEFINE colon == find(s, ":")
           number == SubSeq(s, 1, colon - 1)
           last == colon + FromChars(number)
<1>1. /\ colon \in 1 .. Len(s) /\ IsInteger(number) /\ FromChars(number) \in Nat
      /\ last \in 0 .. Len(s) /\ last = decode_string(s).used
      /\ Len(s) \in Nat /\ Len(t) \in Nat /\ n \in 0 .. Len(s) /\ n \in 0 .. Len(t)
  BY StringFits DEF Documents, Agree
<1>2. colon \in 1 .. n /\ last \in 0 .. n /\ last \in 0 .. Len(t)
  <2> HIDE DEF colon, number
  <2> QED
    BY <1>1
<1>3. find(t, ":") = colon
  BY <1>2, FindAgrees
<1>4. SubSeq(t, 1, colon - 1) = number
  <2>1. 1 \in 1 .. n + 1 /\ colon - 1 \in 0 .. n
    BY <1>1, <1>2
  <2> QED
    BY <2>1, AgreeOnPart
<1>5. SubSeq(t, colon + 1, last) = SubSeq(s, colon + 1, last)
  <2>1. colon + 1 \in 1 .. n + 1
    BY <1>1, <1>2
  <2> HIDE DEF colon, last
  <2> QED
    BY <1>2, <2>1, AgreeOnPart
<1> HIDE DEF colon, number
<1>6. decode_string(s) = Decoded(last, StringValue(SubSeq(s, colon + 1, last)))
  BY <1>1 DEF decode_string, colon, number
<1>7. decode_string(t) = Decoded(last, StringValue(SubSeq(t, colon + 1, last)))
  <2>1. /\ find(t, ":") = colon /\ SubSeq(t, 1, find(t, ":") - 1) = number
        /\ colon + FromChars(number) = last
    BY <1>3, <1>4
  <2>2. colon # 0 /\ IsInteger(number) /\ last \in 0 .. Len(t) /\ ~(FromChars(number) < 0)
    BY <1>1, <1>2
  <2> HIDE DEF last
  <2> QED
    BY <2>1, <2>2 DEF decode_string
<1> QED
  BY <1>5, <1>6, <1>7

\* A key with a negative length begins before its colon again; what is decoded
\* there as its value is a string that ends behind the same colon.
LEMMA NegativeKey ==
    ASSUME NEW s \in Documents, IsDecoded(decode_string(s)),
           FromChars(SubSeq(s, 1, find(s, ":") - 1)) < 0,
           IsDecoded(decode[Call("value", Drop(s, decode_string(s).used))])
    PROVE  Negative(s, decode_string(s).used
                         + decode[Call("value", Drop(s, decode_string(s).used))].used)
<1> DEFINE colon == find(s, ":")
           number == SubSeq(s, 1, colon - 1)
           p == decode_string(s).used
           d == Drop(s, p)
           value == decode[Call("value", d)]
<1>1. /\ colon \in 1 .. Len(s) /\ IsInteger(number) /\ FromChars(number) \in Int
      /\ p = colon + FromChars(number) /\ p \in 0 .. Len(s)
      /\ Len(s) \in Nat /\ DOMAIN s = 1 .. Len(s)
  BY StringFits DEF Documents
<1>2. /\ s[colon] = ":"
      /\ \A k \in DOMAIN s : k < colon => s[k] # ":"
  <2>1. \/ colon = 0 /\ \A k \in DOMAIN s : s[k] # ":"
        \/ /\ colon \in DOMAIN s /\ s[colon] = ":"
           /\ \A k \in DOMAIN s : k < colon => s[k] # ":"
    BY FindFirst
  <2> HIDE DEF colon
  <2> QED
    BY <1>1, <2>1
<1>3. FromChars(number) < 0
  OBVIOUS
<1> HIDE DEF colon, p, value
<1>4. p + 1 \in 1 .. colon /\ p + 1 \in 1 .. Len(s)
  <2> HIDE DEF number
  <2> QED
    BY <1>1, <1>3
<1>5. /\ number \in Documents /\ Len(number) = colon - 1
      /\ \A k \in 1 .. colon - 1 : number[k] = s[k]
  <2>1. 1 \in 1 .. Len(s) + 1 /\ colon - 1 \in 1 - 1 .. Len(s)
    BY <1>1
  <2>2. /\ SubSeq(s, 1, colon - 1) \in Documents
        /\ Len(SubSeq(s, 1, colon - 1)) = (colon - 1) - 1 + 1
        /\ \A k \in 1 .. (colon - 1) - 1 + 1 : SubSeq(s, 1, colon - 1)[k] = s[1 + k - 1]
    BY <2>1, PartOf
  <2>3. (colon - 1) - 1 + 1 = colon - 1 /\ \A k \in 1 .. colon - 1 : 1 + k - 1 = k
    BY <1>1
  <2> QED
    BY <2>2, <2>3
<1>6. StartsWith(number, "-")
  <2> HIDE DEF number
  <2> QED
    BY <1>1, <1>3, IntegerMaxAssumption DEF FromChars, IsInteger
<1>7. /\ s[1] = "-"
      /\ \A k \in 2 .. colon - 1 : s[k] \in DOMAIN Digit
  <2> HIDE DEF number
  <2>1. number # << >> /\ Head(number) = "-"
    BY <1>6 DEF StartsWith
  <2>2. Len(number) >= 1 /\ number[1] = "-"
    BY <1>5, <2>1 DEF Documents
  <2>3. s[1] = "-"
    BY <1>1, <1>5, <2>2
  <2>4. Unsigned(number) = Tail(number) /\ ToSet(Tail(number)) \subseteq DOMAIN Digit
    BY <1>1, <1>6 DEF IsInteger, Unsigned
  <2>5. ASSUME NEW k \in 2 .. colon - 1 PROVE s[k] \in DOMAIN Digit
    <3>1. k - 1 \in DOMAIN Tail(number) /\ Tail(number)[k - 1] = number[k]
      BY <1>1, <1>5, <2>2 DEF Documents
    <3>2. Tail(number)[k - 1] \in ToSet(Tail(number))
      BY <3>1 DEF ToSet
    <3>3. number[k] = s[k]
      BY <1>1, <1>5
    <3> QED
      BY <2>4, <3>1, <3>2, <3>3
  <2> QED
    BY <2>3, <2>5
<1>8. /\ d \in Documents /\ Len(d) = Len(s) - p
      /\ \A k \in 1 .. Len(s) - p : d[k] = s[p + k]
  BY <1>1, DropDocument
<1>9. IsDecoded(value) /\ value = ValueCall(decode, d)
  <2>1. decode[Call("value", d)] = ValueCall(decode, d)
    BY <1>8, CallsAre
  <2> QED
    BY <2>1 DEF value, p
<1> HIDE DEF d, number
<1>10. d # << >> /\ Head(d) = s[p + 1]
  <2>1. Len(d) >= 1 /\ 1 \in 1 .. Len(s) - p
    BY <1>1, <1>4, <1>8
  <2> QED
    BY <1>8, <2>1 DEF Documents
<1>11. Head(d) \in DOMAIN Digit
  <2>1. Head(d) \in {"i", "l", "d"} \cup DOMAIN Digit
    BY <1>9, <1>10 DEF ValueCall, IsDecoded, Nullopt
  <2>2. p + 1 # 1 /\ p + 1 # colon
    BY <1>2, <1>7, <1>10, <2>1 DEF Digit
  <2>3. p + 1 \in 2 .. colon - 1
    BY <1>1, <1>4, <2>2
  <2> QED
    BY <1>7, <1>10, <2>3
<1>12. value = decode_string(d)
  BY <1>9, <1>10, <1>11 DEF ValueCall, Digit
<1>13. find(d, ":") \in 1 .. Len(d) /\ value.used \in Int /\ value.used >= find(d, ":")
  <2> DEFINE len == FromChars(SubSeq(d, 1, find(d, ":") - 1))
  <2>1. len \in Nat /\ find(d, ":") \in 1 .. Len(d) /\ value.used = find(d, ":") + len
    BY <1>8, <1>9, <1>10, <1>11, <1>12, StringFits, DigitStringFits
  <2> HIDE DEF len
  <2> QED
    BY <2>1
<1>14. d[find(d, ":")] = ":"
  <2>1. find(d, ":") # 0
    BY <1>13
  <2> QED
    BY <1>8, <2>1, FindFirst
<1> DEFINE q == find(d, ":")
<1> HIDE DEF q
<1>15. s[p + q] = ":" /\ p + q \in DOMAIN s /\ q \in Nat
  <2>1. q \in 1 .. Len(s) - p
    BY <1>8, <1>13 DEF q
  <2>2. d[q] = s[p + q]
    BY <1>8, <2>1
  <2>3. p + q \in 1 .. Len(s)
    BY <1>1, <2>1
  <2> QED
    BY <1>1, <1>14, <2>1, <2>2, <2>3 DEF q
<1>16. ~(p + q < colon)
  BY <1>2, <1>15
<1>17. colon \in 1 .. p + value.used /\ 1 \in 1 .. p + value.used
  <2>1. p \in Nat /\ colon \in Nat /\ colon > 0
    BY <1>1
  <2>2. value.used \in Int /\ value.used >= q
    BY <1>13 DEF q
  <2> QED
    BY <1>15, <1>16, <2>1, <2>2
<1>18. Negative(s, p + value.used)
  <2>1. IsInteger(SubSeq(s, 1, colon - 1)) /\ FromChars(SubSeq(s, 1, colon - 1)) < 0
    BY <1>1, <1>3 DEF number
  <2> QED
    BY <1>2, <1>17, <2>1 DEF Negative
<1> QED
  BY <1>18 DEF p, value, d

\* The call is decided by the bytes it uses: a document that begins with the same
\* bytes gives the same.
Decides(c) ==
    LET r == decode[c]
    IN  IsDecoded(r) /\ ~Negative(c.s, r.used) =>
          \A t \in Documents : Agree(c.s, t, r.used) => decode[Call(c.of, t)] = r

\* A call is decided by the bytes it uses, if the calls it makes are.
LEMMA DecidesStep ==
    ASSUME NEW c \in Calls, \A e \in Below(Measure(c)) : Decides(e)
    PROVE  Decides(c)
<1> DEFINE s == c.s
           r == decode[c]
<1>1. /\ s \in Documents /\ Len(s) \in Nat /\ c.of \in {"value", "items", "entries"}
      /\ c = Call(c.of, s) /\ c.s = s
  BY DEF Calls, Call, Documents
<1> HIDE DEF s
<1>2. SUFFICES ASSUME IsDecoded(r), ~Negative(s, r.used),
                      NEW t \in Documents, Agree(s, t, r.used)
               PROVE  decode[Call(c.of, t)] = r
  BY <1>1 DEF Decides
<1> DEFINE n == r.used
<1>3. n \in 1 .. Len(s) /\ n \in Nat /\ n \in 0 .. Len(t) /\ Len(t) \in Nat
  <2>1. n \in 1 .. Len(s)
    BY <1>1, <1>2, UsedInRange
  <2> QED
    BY <1>1, <1>2, <2>1 DEF Agree, Documents
<1> HIDE DEF n
\* The calls this one makes, on what is left of s after its first m bytes
<1>4. ASSUME NEW m \in 0 .. Len(s), NEW of \in {"value", "items", "entries"},
             m > 0 \/ (of = "value" /\ c.of # "value"),
             IsDecoded(decode[Call(of, Drop(s, m))]),
             m + decode[Call(of, Drop(s, m))].used <= n
      PROVE  decode[Call(of, Drop(t, m))] = decode[Call(of, Drop(s, m))]
  <2> DEFINE e == Call(of, Drop(s, m))
             u == decode[e].used
  <2>1. e \in Calls /\ Len(e.s) = Len(s) - m /\ e.of = of /\ e.s = Drop(s, m)
    BY <1>1, DropDocument DEF Calls, Call
  <2>2. u \in 1 .. Len(s) - m
    BY <1>1, <1>4, DropDocument, UsedInRange
  <2>3. m + u <= n
    BY <1>4
  <2> HIDE DEF e, u
  <2>4. Measure(e) \in Nat /\ Measure(e) < Measure(c)
    <3>1. CASE m > 0
      BY <1>1, <2>1, <3>1 DEF Measure
    <3>2. CASE of = "value" /\ c.of # "value"
      BY <1>1, <2>1, <3>2 DEF Measure
    <3> QED
      BY <1>4, <3>1, <3>2
  <2>5. Decides(e)
    BY <2>1, <2>4 DEF Below
  <2>6. m + u \in 0 .. n /\ u \in 0 .. Len(s) - m /\ m \in 0 .. n /\ m \in 0 .. m + u
    BY <1>1, <1>3, <2>2, <2>3
  <2>7. ~Negative(Drop(s, m), u)
    <3>1. SUFFICES ASSUME Negative(Drop(s, m), u) PROVE FALSE
      OBVIOUS
    <3>2. Negative(s, m + u)
      BY <1>1, <2>6, <3>1, NegativeLater
    <3>3. Negative(s, n)
      BY <1>3, <2>6, <3>2, NegativeLess
    <3> QED
      BY <1>2, <3>3 DEF n
  <2>8. Agree(Drop(s, m), Drop(t, m), u)
    <3>1. Agree(s, t, m + u)
      BY <1>1, <1>2, <2>6, AgreeLess DEF n
    <3>2. Agree(Drop(s, m), Drop(t, m), (m + u) - m)
      BY <1>1, <2>6, <3>1, AgreeDrop
    <3>3. (m + u) - m = u
      BY <1>1, <2>2
    <3> QED
      BY <3>2, <3>3
  <2>9. Drop(t, m) \in Documents
    BY <1>3, <2>6, DropDocument
  <2>10. decode[Call(e.of, Drop(t, m))] = decode[e]
    BY <1>4, <2>1, <2>5, <2>7, <2>8, <2>9 DEF Decides, u, e
  <2> QED
    BY <2>1, <2>10 DEF e
<1>5. s # << >> /\ t # << >> /\ Head(t) = Head(s)
  <2>1. Len(s) >= 1 /\ Len(t) >= 1 /\ 1 \in 1 .. n
    BY <1>1, <1>2, <1>3 DEF Agree, n
  <2>2. s[1] = t[1]
    BY <1>2, <2>1 DEF Agree, n
  <2> QED
    BY <1>1, <2>1, <2>2 DEF Documents
<1>6. StartsWith(t, "e") <=> StartsWith(s, "e")
  BY <1>5 DEF StartsWith
<1>7. CASE c.of = "value"
  <2>1. r = ValueCall(decode, s) /\ decode[Call("value", t)] = ValueCall(decode, t)
    BY <1>1, <1>7, CallsAre
  <2>2. Head(s) \in {"i", "l", "d"} \cup DOMAIN Digit
    BY <1>2, <1>5, <2>1 DEF ValueCall, IsDecoded, Nullopt
  <2>3. CASE Head(s) = "i"
    <3>1. ValueCall(decode, s) = decode_integer(s) /\ ValueCall(decode, t) = decode_integer(t)
      BY <1>5, <2>3 DEF ValueCall, Digit
    <3>2. decode_integer(t) = decode_integer(s)
      BY <1>1, <1>2, <2>1, <3>1, IntegerAgrees
    <3> QED
      BY <1>7, <2>1, <3>1, <3>2
  <2>4. CASE Head(s) \in DOMAIN Digit
    <3>1. ValueCall(decode, s) = decode_string(s) /\ ValueCall(decode, t) = decode_string(t)
      BY <1>5, <2>4 DEF ValueCall, Digit
    <3>2. IsDecoded(decode_string(s)) /\ n = decode_string(s).used
      BY <1>2, <2>1, <3>1 DEF n
    <3>3. FromChars(SubSeq(s, 1, find(s, ":") - 1)) \in Nat
      BY <1>1, <1>5, <2>4, <3>2, DigitStringFits
    <3>4. Agree(s, t, n) /\ n >= decode_string(s).used
      BY <1>2, <1>3, <3>2 DEF n
    <3>5. decode_string(t) = decode_string(s)
      BY <1>1, <3>2, <3>3, <3>4, StringAgrees
    <3> QED
      BY <1>7, <2>1, <3>1, <3>5
  <2>5. ASSUME NEW of \in {"items", "entries"}, r = Opened(decode[Call(of, Drop(s, 1))])
        PROVE  Opened(decode[Call(of, Drop(t, 1))]) = r
    <3>1. IsDecoded(decode[Call(of, Drop(s, 1))])
      BY <1>2, <2>5 DEF Opened
    <3>2. n = decode[Call(of, Drop(s, 1))].used + 1
      BY <2>5, <3>1, DecodedFields DEF Opened, n
    <3>3. /\ 1 \in 0 .. Len(s) /\ 1 > 0 /\ of \in {"value", "items", "entries"}
          /\ 1 + decode[Call(of, Drop(s, 1))].used <= n
      <4>1. 1 \in 0 .. Len(s)
        BY <1>1, <1>3
      <4>2. decode[Call(of, Drop(s, 1))].used \in 1 .. Len(s) - 1
        BY <1>1, <3>1, <4>1, DropDocument, UsedInRange
      <4> QED
        BY <3>2, <4>1, <4>2
    <3>4. decode[Call(of, Drop(t, 1))] = decode[Call(of, Drop(s, 1))]
      BY <1>4, <3>1, <3>3
    <3> QED
      BY <2>5, <3>4
  <2>6. CASE Head(s) = "l"
    <3>1. /\ ValueCall(decode, s) = Opened(decode[Call("items", Drop(s, 1))])
          /\ ValueCall(decode, t) = Opened(decode[Call("items", Drop(t, 1))])
      BY <1>5, <2>6 DEF ValueCall, Digit, decode_bencoded_list
    <3> QED
      BY <1>7, <2>1, <2>5, <3>1
  <2>7. CASE Head(s) = "d"
    <3>1. /\ ValueCall(decode, s) = Opened(decode[Call("entries", Drop(s, 1))])
          /\ ValueCall(decode, t) = Opened(decode[Call("entries", Drop(t, 1))])
      BY <1>5, <2>7 DEF ValueCall, Digit, decode_bencoded_dict
    <3> QED
      BY <1>7, <2>1, <2>5, <3>1
  <2> QED
    BY <2>2, <2>3, <2>4, <2>6, <2>7
<1>8. CASE c.of = "items"
  <2> DEFINE item == decode[Call("value", s)]
             rest == decode[Call("items", Drop(s, item.used))]
  <2>1. r = ListLoop(decode, s) /\ decode[Call("items", t)] = ListLoop(decode, t)
    BY <1>1, <1>8, CallsAre
  <2>2. CASE StartsWith(s, "e")
    BY <1>6, <1>8, <2>1, <2>2, Zenon DEF ListLoop
  <2>3. CASE ~StartsWith(s, "e")
    <3>1. IsDecoded(item) /\ IsDecoded(rest)
      BY <1>2, <2>1, <2>3, Zenon DEF ListLoop
    <3>2. n = item.used + rest.used
      <4>1. ListLoop(decode, s)
              = Decoded(item.used + rest.used, [list |-> << item.value >> \o rest.value.list])
        BY <2>3, <3>1 DEF ListLoop
      <4> HIDE DEF item, rest
      <4> QED
        BY <2>1, <4>1, DecodedFields DEF n
    <3>3. item.used \in 1 .. Len(s)
      BY <1>1, <3>1, UsedInRange
    <3>4. rest.used \in 1 .. Len(s) - item.used
      <4>1. item.used \in 0 .. Len(s)
        BY <3>3
      <4>2. Drop(s, item.used) \in Documents /\ Len(Drop(s, item.used)) = Len(s) - item.used
        BY <1>1, <4>1, DropDocument
      <4> QED
        BY <3>1, <4>2, UsedInRange
    <3>5. Drop(s, 0) = s /\ Drop(t, 0) = t /\ 0 \in 0 .. Len(s)
      BY <1>1 DEF Drop, Documents
    <3>6. 0 + item.used <= n /\ item.used + rest.used <= n /\ item.used > 0
      BY <1>1, <3>2, <3>3, <3>4
    <3>7. decode[Call("value", t)] = item
      BY <1>4, <1>8, <3>1, <3>5, <3>6
    <3>8. decode[Call("items", Drop(t, item.used))] = rest
      BY <1>1, <1>4, <3>1, <3>3, <3>6
    <3> HIDE DEF item, rest
    <3>9. ListLoop(decode, t) = ListLoop(decode, s)
      BY <1>6, <2>3, <3>7, <3>8, Zenon DEF ListLoop, item, rest
    <3> QED
      BY <1>8, <2>1, <3>9
  <2> QED
    BY <2>2, <2>3
<1>9. CASE c.of = "entries"
  <2> DEFINE key == decode_string(s)
             value == decode[Call("value", Drop(s, key.used))]
             rest == decode[Call("entries", Drop(s, key.used + value.used))]
  <2>1. r = DictLoop(decode, s) /\ decode[Call("entries", t)] = DictLoop(decode, t)
    BY <1>1, <1>9, CallsAre
  <2>2. CASE StartsWith(s, "e")
    BY <1>6, <1>9, <2>1, <2>2 DEF DictLoop
  <2>3. CASE ~StartsWith(s, "e")
    <3>1. /\ IsDecoded(key) /\ IsDecoded(value) /\ IsDecoded(rest)
          /\ "binary" \notin DOMAIN key.value
      <4>1. IsDecoded(DictLoop(decode, s)) /\ ~IsDecoded(Nullopt) /\ ~IsDecoded(Throws)
        BY <1>2, <2>1 DEF IsDecoded, Nullopt, Throws
      <4> QED
        BY <2>3, <4>1 DEF DictLoop
    <3>2. n = key.used + value.used + rest.used
      <4>1. DictLoop(decode, s)
              = Decoded(key.used + value.used + rest.used,
                        [dict |-> WithEntry(key.value.string, value.value, rest.value.dict)])
        BY <2>3, <3>1 DEF DictLoop
      <4> HIDE DEF key, value, rest
      <4> QED
        BY <2>1, <4>1, DecodedFields DEF n
    <3>3. key.used \in 0 .. Len(s)
      BY <1>1, <3>1, StringFits
    <3>4. value.used \in 1 .. Len(s) - key.used
      BY <1>1, <3>1, <3>3, DropDocument, UsedInRange
    <3>5. key.used + value.used \in 1 .. Len(s)
      BY <1>1, <3>3, <3>4
    <3>6. rest.used \in 1 .. Len(s) - (key.used + value.used)
      <4> DEFINE m == key.used + value.used
      <4>1. m \in 0 .. Len(s)
        BY <1>1, <3>5
      <4>2. Drop(s, m) \in Documents /\ Len(Drop(s, m)) = Len(s) - m
        BY <1>1, <4>1, DropDocument
      <4> QED
        BY <3>1, <4>2, UsedInRange
    <3>7. /\ key.used + value.used <= n /\ key.used + value.used + rest.used <= n
          /\ n >= key.used /\ key.used + value.used > 0 /\ key.used + value.used \in 0 .. n
      <4> DEFINE k == key.used
                 v == value.used
                 u == rest.used
      <4>1. /\ k \in 0 .. Len(s) /\ v \in 1 .. Len(s) - k /\ u \in 1 .. Len(s) - (k + v)
            /\ n = k + v + u
        BY <3>2, <3>3, <3>4, <3>6
      <4> HIDE DEF k, v, u
      <4>2. /\ k + v <= n /\ k + v + u <= n /\ n >= k /\ k + v > 0 /\ k + v \in 0 .. n
        BY <1>1, <4>1
      <4> QED
        BY <4>2 DEF k, v, u
    <3>8. FromChars(SubSeq(s, 1, find(s, ":") - 1)) \in Nat
      <4>1. FromChars(SubSeq(s, 1, find(s, ":") - 1)) \in Int
        BY <1>1, <3>1, StringFits
      <4>2. ~(FromChars(SubSeq(s, 1, find(s, ":") - 1)) < 0)
        <5>1. SUFFICES ASSUME FromChars(SubSeq(s, 1, find(s, ":") - 1)) < 0 PROVE FALSE
          OBVIOUS
        <5>2. Negative(s, key.used + value.used)
          BY <1>1, <3>1, <5>1, NegativeKey
        <5>3. Negative(s, n)
          BY <1>3, <3>7, <5>2, NegativeLess
        <5> QED
          BY <1>2, <5>3 DEF n
      <4> HIDE DEF key
      <4> QED
        BY <4>1, <4>2
    <3>9. decode_string(t) = key
      BY <1>1, <1>2, <3>1, <3>7, <3>8, StringAgrees DEF n
    <3>10. decode[Call("value", Drop(t, key.used))] = value
      BY <1>1, <1>4, <1>9, <3>1, <3>3, <3>7
    <3>11. decode[Call("entries", Drop(t, key.used + value.used))] = rest
      <4>1. key.used + value.used \in 0 .. Len(s)
        BY <3>5
      <4> QED
        BY <1>1, <1>4, <3>1, <3>7, <4>1
    <3> HIDE DEF key, value, rest
    <3>12. DictLoop(decode, t) = DictLoop(decode, s)
      BY <1>6, <2>3, <3>9, <3>10, <3>11 DEF DictLoop, key, value, rest
    <3> QED
      BY <1>9, <2>1, <3>12
  <2> QED
    BY <2>2, <2>3
<1> QED
  BY <1>1, <1>7, <1>8, <1>9

\* Every call is decided by the bytes it uses.
LEMMA CallsAreDecided ==
    ASSUME NEW c \in Calls
    PROVE  Decides(c)
<1> DEFINE D == {d \in Calls : ~Decides(d)}
<1>1. SUFFICES ASSUME D # {} PROVE FALSE
  OBVIOUS
<1>2. PICK d \in D : \A e \in Below(Measure(d)) : e \notin D
  BY <1>1, LeastCall
<1>3. \A e \in Below(Measure(d)) : Decides(e)
  BY <1>2 DEF Below
<1> QED
  BY <1>2, <1>3, DecidesStep

\* decode_bencoded_value is decided by the bytes it uses: what follows them has no
\* influence, unless a key has a negative length.
THEOREM ConsumedDecidesResult == Spec => []ConsumedDecides
<1>1. ASSUME DecodingInv PROVE ConsumedDecides
  <2>1. SUFFICES ASSUME IsDecoded(result), ~HasNegativeLength(consumed)
                 PROVE  decode_bencoded_value(consumed) = result
    BY DEF ConsumedDecides
  <2> DEFINE c == Call("value", document)
             n == result.used
  <2>2. c \in Calls /\ c.of = "value" /\ c.s = document /\ decode[c] = result
    BY <1>1 DEF DecodingInv, decode_bencoded_value, Calls, Call
  <2> HIDE DEF c
  <2>3. n \in 1 .. Len(document) /\ Len(document) \in Nat
    BY <1>1, <2>1, UsedInRange DEF DecodingInv, decode_bencoded_value, Documents
  <2> HIDE DEF n
  <2>4. /\ consumed \in Documents /\ Len(consumed) = n
        /\ \A k \in 1 .. n : consumed[k] = document[k]
    <3>1. /\ SubSeq(document, 1, n) \in Documents /\ Len(SubSeq(document, 1, n)) = n - 1 + 1
          /\ \A k \in 1 .. n - 1 + 1 : SubSeq(document, 1, n)[k] = document[1 + k - 1]
      BY <1>1, <2>3, PartOf DEF DecodingInv
    <3>2. n - 1 + 1 = n /\ \A k \in 1 .. n : 1 + k - 1 = k
      BY <2>3
    <3> QED
      BY <3>1, <3>2 DEF consumed, n
  <2>5. Agree(document, consumed, n)
    BY <2>3, <2>4 DEF Agree
  <2>6. ~Negative(document, n)
    <3>1. SUFFICES ASSUME NEW first \in 1 .. n, NEW colon \in 1 .. n,
                          IsInteger(SubSeq(document, first, colon - 1)),
                          FromChars(SubSeq(document, first, colon - 1)) < 0,
                          document[colon] = ":"
                   PROVE  FALSE
      BY DEF Negative
    <3>2. SubSeq(document, first, colon - 1) = SubSeq(consumed, first, colon - 1)
      <4>1. first \in 1 .. n + 1 /\ colon - 1 \in 0 .. n
        BY <2>3
      <4> QED
        BY <1>1, <2>4, <2>5, <4>1, AgreeOnPart DEF DecodingInv
    <3>3. first \in DOMAIN consumed /\ colon \in DOMAIN consumed /\ consumed[colon] = ":"
      BY <2>4, <3>1 DEF Documents
    <3> QED
      BY <2>1, <3>1, <3>2, <3>3 DEF HasNegativeLength
  <2>7. Decides(c)
    BY <2>2, CallsAreDecided
  <2> QED
    BY <2>1, <2>2, <2>4, <2>5, <2>6, <2>7 DEF Decides, decode_bencoded_value, n
<1> QED
  BY <1>1, DecodingInvariant, PTL

================================================================================
