--------------------------- MODULE NCTransferProofs ---------------------------
(***************************************************************************)
(* What NCTransfer promises holds for every Base, message, key, length and *)
(* byte order: the two hosts understand each other exactly if they share   *)
(* the key, and the connection is the one NCNetwork takes it for.          *)
(*                                                                         *)
(* First numbers and their bytes, then what decoding makes of what was     *)
(* encoded, then the bytes on the wire.                                    *)
(***************************************************************************)
EXTENDS NCTransfer, SequenceTheorems, TLAPS

-----------------------------------------------------------------------------
(* Numbers and their bytes *)

Low(v) == v % Base
High(v) == v \div Base
Uint32 == 0 .. UINT32_MAX
Bytes4 == [1 .. 4 -> Byte]

LEMMA DivMod ==
  ASSUME NEW v \in Nat
  PROVE  High(v) \in Nat /\ Low(v) \in Byte /\ v = High(v) * Base + Low(v)
<1>1. v = Base * (v \div Base) + (v % Base)
  BY BaseAssumption
<1>2. (v \div Base) \in Nat /\ (v % Base) \in 0 .. Base - 1
  BY BaseAssumption
<1>. QED BY <1>1, <1>2, BaseAssumption DEF High, Low, Byte

LEMMA HighBelow ==
  ASSUME NEW v \in Nat, NEW c \in Nat, v < c * Base
  PROVE  High(v) < c
BY BaseAssumption DEF High

LEMMA HighLow ==
  ASSUME NEW q \in Nat, NEW d \in Byte
  PROVE  High(q * Base + d) = q /\ Low(q * Base + d) = d
<1>1. (q * Base + d) \div Base = q
  BY BaseAssumption DEF Byte
<1>2. (q * Base + d) % Base = d
  BY BaseAssumption DEF Byte
<1>. QED BY <1>1, <1>2 DEF High, Low

LEMMA Powers ==
  /\ Base \in Nat /\ Base * Base \in Nat /\ Base * Base * Base \in Nat
  /\ Base * Base * Base * Base \in Nat \ {0}
  /\ UINT32_MAX \in Nat
BY BaseAssumption DEF UINT32_MAX

\* The digits of a number, the lowest first.
LEMMA FourDigits ==
  ASSUME NEW v \in Uint32
  PROVE  /\ v \in Nat /\ High(v) \in Nat /\ High(High(v)) \in Nat
         /\ High(High(High(v))) \in Byte
         /\ Low(High(High(High(v)))) = High(High(High(v)))
<1>1. v \in Nat /\ v < Base * Base * Base * Base
  BY Powers DEF Uint32, UINT32_MAX
<1>2. High(v) \in Nat /\ High(v) < Base * Base * Base
  BY <1>1, Powers, DivMod, HighBelow
<1>3. High(High(v)) \in Nat /\ High(High(v)) < Base * Base
  BY <1>2, Powers, DivMod, HighBelow
<1>4. High(High(High(v))) \in Nat /\ High(High(High(v))) < Base
  BY <1>3, Powers, DivMod, HighBelow
<1>5. High(High(High(v))) \in Byte
  BY <1>4, Powers DEF Byte
<1>6. ASSUME NEW d \in Byte PROVE Low(d) = d
  <2>1. d \in Nat /\ d < Base /\ Base \in Nat
    BY Powers DEF Byte
  <2>2. d % Base = d
    BY <2>1
  <2>. QED BY <2>2 DEF Low
<1>. QED BY <1>1, <1>2, <1>3, <1>5, <1>6

LEMMA BytesOf ==
  ASSUME NEW v \in Uint32, NEW e \in Endian
  PROVE  LET b == ToMemory(v, e) IN
         /\ b \in Bytes4
         /\ e = "little" => /\ b[1] = Low(v) /\ b[2] = Low(High(v))
                            /\ b[3] = Low(High(High(v))) /\ b[4] = High(High(High(v)))
         /\ e = "big" => /\ b[4] = Low(v) /\ b[3] = Low(High(v))
                         /\ b[2] = Low(High(High(v))) /\ b[1] = High(High(High(v)))
<1>. DEFINE digit == <<Low(v), Low(High(v)), Low(High(High(v))), Low(High(High(High(v))))>>
<1>1. digit \in [1 .. 4 -> Byte]
  BY FourDigits, DivMod
<1>2. ToMemory(v, e) = [i \in 1 .. 4 |-> digit[IF e = "little" THEN i ELSE 5 - i]]
  BY DEF ToMemory, High, Low
<1>3. ToMemory(v, e) \in Bytes4
  BY <1>1, <1>2 DEF Bytes4
<1>. QED BY <1>2, <1>3, FourDigits DEF Endian

Value(d1, d2, d3, d4) == ((d1 * Base + d2) * Base + d3) * Base + d4

LEMMA FromDigits ==
  ASSUME NEW b, NEW e \in Endian
  PROVE  FromMemory(b, e) = IF e = "little" THEN Value(b[4], b[3], b[2], b[1])
                            ELSE Value(b[1], b[2], b[3], b[4])
BY DEF FromMemory, Value, Endian

LEMMA ValueBounded ==
  ASSUME NEW d1 \in Byte, NEW d2 \in Byte, NEW d3 \in Byte, NEW d4 \in Byte
  PROVE  Value(d1, d2, d3, d4) \in Uint32
<1>1. ASSUME NEW q \in Nat, NEW c \in Nat, q < c, NEW d \in Byte
      PROVE  q * Base + d \in Nat /\ q * Base + d < c * Base
  BY <1>1, BaseAssumption DEF Byte
<1>2. d1 \in Nat /\ d1 < Base
  BY Powers DEF Byte
<1>3. d1 * Base + d2 \in Nat /\ d1 * Base + d2 < Base * Base
  BY <1>1, <1>2, Powers
<1>4. (d1 * Base + d2) * Base + d3 \in Nat /\ (d1 * Base + d2) * Base + d3 < Base * Base * Base
  BY <1>1, <1>3, Powers
<1>5. Value(d1, d2, d3, d4) \in Nat /\ Value(d1, d2, d3, d4) < Base * Base * Base * Base
  BY <1>1, <1>4, Powers DEF Value
<1>. QED BY <1>5, Powers DEF Uint32, UINT32_MAX

LEMMA ValueDigits ==
  ASSUME NEW d1 \in Byte, NEW d2 \in Byte, NEW d3 \in Byte, NEW d4 \in Byte
  PROVE  LET v == Value(d1, d2, d3, d4) IN
         /\ Low(v) = d4 /\ Low(High(v)) = d3 /\ Low(High(High(v))) = d2
         /\ High(High(High(v))) = d1
<1>1. d1 \in Nat /\ d1 * Base + d2 \in Nat /\ (d1 * Base + d2) * Base + d3 \in Nat
  BY BaseAssumption DEF Byte
<1>. QED BY <1>1, HighLow DEF Value

\* Copying a number into four bytes and back on one host is the identity.
LEMMA CopiedBack ==
  ASSUME NEW v \in Uint32, NEW e \in Endian
  PROVE  FromMemory(ToMemory(v, e), e) = v
<1>1. FromMemory(ToMemory(v, e), e)
        = Value(High(High(High(v))), Low(High(High(v))), Low(High(v)), Low(v))
  BY BytesOf, FromDigits DEF Endian
<1>2. /\ High(High(v)) = High(High(High(v))) * Base + Low(High(High(v)))
      /\ High(v) = High(High(v)) * Base + Low(High(v))
      /\ v = High(v) * Base + Low(v)
  BY FourDigits, DivMod
<1>. QED BY <1>1, <1>2 DEF Value

LEMMA CopiedForth ==
  ASSUME NEW b \in Bytes4, NEW e \in Endian
  PROVE  /\ FromMemory(b, e) \in Uint32
         /\ ToMemory(FromMemory(b, e), e) = b
<1>. /\ b[1] \in Byte /\ b[2] \in Byte /\ b[3] \in Byte /\ b[4] \in Byte
  BY DEF Bytes4
<1>1. FromMemory(b, e) \in Uint32
  BY FromDigits, ValueBounded
<1>. DEFINE c == ToMemory(FromMemory(b, e), e)
<1>2. c \in Bytes4
  BY <1>1, BytesOf
<1>3. c[1] = b[1] /\ c[2] = b[2] /\ c[3] = b[3] /\ c[4] = b[4]
  BY <1>1, BytesOf, FromDigits, ValueDigits DEF Endian
<1>4. c = b
  <2>1. \A i \in 1 .. 4 : c[i] = b[i]
    <3>1. \A i \in 1 .. 4 : i = 1 \/ i = 2 \/ i = 3 \/ i = 4
      OBVIOUS
    <3>. QED BY <1>3, <3>1
  <2>. HIDE DEF c
  <2>. QED BY <1>2, <2>1 DEF Bytes4
<1>. QED BY <1>1, <1>4

Reversed(b) == [i \in 1 .. 4 |-> b[5 - i]]

\* The other byte order is the same bytes read from the other end.
LEMMA OtherOrder ==
  /\ \A v \in Uint32 : ToMemory(v, "big") = Reversed(ToMemory(v, "little"))
  /\ \A b \in Bytes4 : /\ Reversed(b) \in Bytes4 /\ Reversed(Reversed(b)) = b
                       /\ FromMemory(b, "little") = FromMemory(Reversed(b), "big")
                       /\ FromMemory(b, "big") = FromMemory(Reversed(b), "little")
<1>1. ASSUME NEW b \in Bytes4
      PROVE  /\ Reversed(b) \in Bytes4 /\ Reversed(Reversed(b)) = b
             /\ FromMemory(b, "little") = FromMemory(Reversed(b), "big")
             /\ FromMemory(b, "big") = FromMemory(Reversed(b), "little")
  <2>1. Reversed(b) \in Bytes4 /\ Reversed(Reversed(b)) = b
    BY DEF Reversed, Bytes4
  <2>2. /\ Reversed(b)[1] = b[4] /\ Reversed(b)[2] = b[3]
        /\ Reversed(b)[3] = b[2] /\ Reversed(b)[4] = b[1]
    BY DEF Reversed
  <2>. QED BY <2>1, <2>2, FromDigits DEF Endian
<1>2. ASSUME NEW v \in Uint32 PROVE ToMemory(v, "big") = Reversed(ToMemory(v, "little"))
  BY DEF ToMemory, Reversed
<1>. QED BY <1>1, <1>2

LEMMA Byteswapped ==
  ASSUME NEW v \in Uint32
  PROVE  /\ byteswap(v) \in Uint32
         /\ ToMemory(byteswap(v), "little") = ToMemory(v, "big")
<1>. DEFINE b == ToMemory(v, "little")
<1>1. b \in Bytes4
  BY BytesOf DEF Endian
<1>2. byteswap(v) = FromMemory(Reversed(b), "little")
  BY <1>1, OtherOrder DEF byteswap
<1>. QED BY <1>1, <1>2, OtherOrder, CopiedForth DEF Endian

\* A size is sent in the same four bytes by every host and read back as it was
\* (nc_to_big_endian_bytes and nc_from_big_endian_bytes, nc_util.cpp).
LEMMA SizeBytes ==
  ASSUME NEW v \in Uint32, NEW e \in Endian
  PROVE  /\ nc_to_big_endian_bytes(v, e) = ToMemory(v, "big")
         /\ nc_to_big_endian_bytes(v, e) \in Bytes4
BY Byteswapped, BytesOf DEF nc_to_big_endian_bytes, Endian

LEMMA SizeReadBack ==
  ASSUME NEW v \in Uint32, NEW e1 \in Endian, NEW e2 \in Endian
  PROVE  nc_from_big_endian_bytes(nc_to_big_endian_bytes(v, e1), e2) = v
<1>. DEFINE b == ToMemory(v, "big")
<1>1. b \in Bytes4 /\ nc_to_big_endian_bytes(v, e1) = b /\ FromMemory(b, "big") = v
  BY SizeBytes, CopiedBack DEF Endian
<1>2. FromMemory(b, "little") \in Uint32 /\ ToMemory(FromMemory(b, "little"), "little") = b
  BY <1>1, CopiedForth DEF Endian
<1>3. nc_from_big_endian_bytes(b, e2)
        = IF e2 = "little" THEN FromMemory(ToMemory(FromMemory(b, "little"), "little"), "big")
          ELSE FromMemory(b, "big")
  BY DEF nc_from_big_endian_bytes, byteswap, Endian
<1>. QED BY <1>1, <1>2, <1>3

-----------------------------------------------------------------------------
(* What decoding makes of what was encoded *)

LEMMA Whole ==
  ASSUME NEW X, NEW s \in Seq(X)
  PROVE  Before(s, Len(s) + 1) = s
<1>1. SubSeq(s, 1, Len(s)) = s
  OBVIOUS
<1>2. Len(s) + 1 - 1 = Len(s)
  OBVIOUS
<1>. QED BY <1>1, <1>2 DEF Before

LEMMA Concatenated ==
  ASSUME NEW X, NEW s \in Seq(X), NEW t \in Seq(X)
  PROVE  /\ s \o t \in Seq(X) /\ Len(s \o t) = Len(s) + Len(t)
         /\ Len(s) \in Nat /\ Len(t) \in Nat
         /\ \A i \in 1 .. Len(s) : (s \o t)[i] = s[i]
         /\ Before(s \o t, Len(s) + 1) = s
         /\ From(s \o t, Len(s) + 1) = t
<1>1. s \o t \in Seq(X) /\ Len(s \o t) = Len(s) + Len(t) /\ Len(s) \in Nat /\ Len(t) \in Nat
  OBVIOUS
<1>2. SubSeq(s \o t, 1, Len(s)) = s
  OBVIOUS
<1>3. SubSeq(s \o t, Len(s) + 1, Len(s) + Len(t)) = t
  OBVIOUS
<1>4. \A i \in 1 .. Len(s) : (s \o t)[i] = s[i]
  OBVIOUS
<1>5. Len(s) + 1 - 1 = Len(s)
  BY <1>1
<1>. QED BY <1>1, <1>2, <1>3, <1>4, <1>5 DEF Before, From

\* x is s, t and u, one after the other.
InThreeParts(X, x, s, t, u) ==
  /\ x \in Seq(X) /\ Len(x) = Len(s) + Len(t) + Len(u)
  /\ \A k \in 1 .. Len(s) : x[k] = s[k]
  /\ SubSeq(x, 1, Len(s)) = s
  /\ SubSeq(x, Len(s) + 1, Len(s) + Len(t)) = t
  /\ From(x, Len(s) + Len(t) + 1) = u

LEMMA ThreeParts ==
  ASSUME NEW X, NEW s \in Seq(X), NEW t \in Seq(X), NEW u \in Seq(X)
  PROVE  InThreeParts(X, (s \o t) \o u, s, t, u)
<1>. DEFINE w == s \o t
            x == w \o u
<1>1. /\ w \in Seq(X) /\ Len(w) = Len(s) + Len(t)
      /\ Len(s) \in Nat /\ Len(t) \in Nat /\ Len(u) \in Nat
      /\ SubSeq(w, 1, Len(s)) = s /\ SubSeq(w, Len(s) + 1, Len(s) + Len(t)) = t
  OBVIOUS
<1>. HIDE DEF w
<1>2. x \in Seq(X) /\ Len(x) = Len(w) + Len(u) /\ From(x, Len(w) + 1) = u
  <2>1. w \o u \in Seq(X) /\ Len(w \o u) = Len(w) + Len(u)
    BY <1>1, Concatenated, Zenon
  <2>2. From(w \o u, Len(w) + 1) = u
    BY <1>1, Concatenated, Zenon
  <2>. QED BY <2>1, <2>2
<1>3. \A k \in 1 .. Len(w) : x[k] = w[k]
  BY <1>1, Concatenated
<1>. HIDE DEF x
<1>4. SubSeq(x, 1, Len(s)) = SubSeq(w, 1, Len(s))
  BY <1>1, <1>2, <1>3
<1>5. SubSeq(x, Len(s) + 1, Len(s) + Len(t)) = SubSeq(w, Len(s) + 1, Len(s) + Len(t))
  BY <1>1, <1>2, <1>3
<1>6. ASSUME NEW k \in 1 .. Len(s) PROVE x[k] = s[k]
  <2>1. k \in 1 .. Len(w)
    BY <1>1
  <2>2. w[k] = s[k]
    BY Concatenated, Zenon DEF w
  <2>. QED BY <1>3, <2>1, <2>2
<1>. QED BY <1>1, <1>2, <1>4, <1>5, <1>6 DEF w, x, InThreeParts

LEMMA TableIsSeq ==
  ASSUME NEW X, NEW n \in Nat, NEW f \in [1 .. n -> X]
  PROVE  f \in Seq(X) /\ Len(f) = n
<1>1. f \in Seq(X)
  BY SeqDef
<1>. QED BY <1>1, LenProperties

\* Compressed data are the four bytes of the size and the data.
LEMMA Compressed ==
  ASSUME NEW data \in Seq(Byte), NEW e \in Endian, NEW c \in nc_compress_message(data, e)
  PROVE  /\ Len(data) \in Uint32
         /\ c = nc_to_big_endian_bytes(Len(data), e) \o data
         /\ c \in Seq(Byte) /\ Len(c) = 4 + Len(data)
         /\ Before(c, 5) = nc_to_big_endian_bytes(Len(data), e) /\ From(c, 5) = data
<1>. DEFINE size == nc_to_big_endian_bytes(Len(data), e)
<1>1. c = size \o data /\ Len(data) <= LZ4_MAX_INPUT_SIZE
  <2>1. Len(data) \in Nat /\ ~(Len(data) > LZ4_MAX_INPUT_SIZE)
    BY DEF nc_compress_message
  <2>2. c = size \o data
    BY <2>1 DEF nc_compress_message
  <2>. QED BY <2>1, <2>2, LengthAssumption
<1>2. Len(data) \in Uint32
  BY <1>1, LengthAssumption, Powers DEF Uint32
<1>3. size \in Bytes4
  BY <1>2, SizeBytes
<1>. HIDE DEF size
<1>4. size \in Seq(Byte) /\ Len(size) = 4
  <2>1. size \in [1 .. 4 -> Byte] /\ 4 \in Nat
    BY <1>3 DEF Bytes4
  <2>2. size \in Seq(Byte)
    BY <2>1, SeqDef
  <2>3. DOMAIN size = 1 .. 4 /\ DOMAIN size = 1 .. Len(size) /\ Len(size) \in Nat
    BY <2>1, <2>2, LenProperties
  <2>. QED BY <2>2, <2>3
<1>5. Len(size) + 1 = 5
  BY <1>4
<1>6. /\ size \o data \in Seq(Byte) /\ Len(size \o data) = Len(size) + Len(data)
      /\ Before(size \o data, Len(size) + 1) = size /\ From(size \o data, Len(size) + 1) = data
  BY <1>4, Concatenated
<1>7. /\ size \o data \in Seq(Byte) /\ Len(size \o data) = 4 + Len(data)
      /\ Before(size \o data, 5) = size /\ From(size \o data, 5) = data
  BY <1>4, <1>5, <1>6
<1>. QED BY <1>1, <1>2, <1>7 DEF size

LEMMA Decompressed ==
  ASSUME NEW data \in Seq(Byte), data # <<>>, NEW e1 \in Endian, NEW e2 \in Endian,
         NEW c \in nc_compress_message(data, e1)
  PROVE  nc_decompress_message(c, e2) = {data}
<1>1. nc_from_big_endian_bytes(Before(c, 5), e2) = Len(data) /\ From(c, 5) = data
  BY Compressed, SizeReadBack
<1>2. data = [i \in 1 .. Len(data) |-> data[i]]
  OBVIOUS
<1>3. nc_decompress_message(c, e2)
        = {[i \in 1 .. Len(data) |-> IF i <= Len(data) THEN data[i] ELSE 0]}
  BY <1>1 DEF nc_decompress_message
<1>4. [i \in 1 .. Len(data) |-> IF i <= Len(data) THEN data[i] ELSE 0]
        = [i \in 1 .. Len(data) |-> data[i]]
  OBVIOUS
<1>. QED BY <1>2, <1>3, <1>4

\* What encryption leaves to read are nonce, tag and ciphertext of known lengths.
LEMMA Encrypted ==
  ASSUME NEW c \in Seq(Byte), NEW key, NEW nonce
  PROVE  LET e == nc_encrypt_message(c, key, nonce)
             x == e.nonce \o e.tag \o e.data
         IN  /\ Len(x) = NC_NONCE_LENGTH + NC_GCM_TAG_LENGTH + Len(c)
             /\ SubSeq(x, 1, NC_NONCE_LENGTH) = e.nonce
             /\ SubSeq(x, NC_NONCE_LENGTH + 1, NC_NONCE_LENGTH + NC_GCM_TAG_LENGTH) = e.tag
             /\ From(x, NC_NONCE_LENGTH + NC_GCM_TAG_LENGTH + 1) = e.data
             /\ \E X : x \in Seq(X)
<1>. DEFINE e == nc_encrypt_message(c, key, nonce)
            n == NC_NONCE_LENGTH
            t == NC_GCM_TAG_LENGTH
            X == {e.nonce[i] : i \in 1 .. n} \cup {e.tag[i] : i \in 1 .. t}
                   \cup {e.data[i] : i \in 1 .. Len(c)}
            x == (e.nonce \o e.tag) \o e.data
<1>1. n \in Nat /\ t \in Nat /\ Len(c) \in Nat
  BY LengthAssumption
<1>2. /\ e.nonce = [i \in 1 .. n |-> e.nonce[i]]
      /\ e.tag = [i \in 1 .. t |-> e.tag[i]]
      /\ e.data = [i \in 1 .. Len(c) |-> e.data[i]]
  BY DEF nc_encrypt_message, NonceBytes, TagBytes
<1>. HIDE DEF e
<1>3. e.nonce \in [1 .. n -> X] /\ e.tag \in [1 .. t -> X] /\ e.data \in [1 .. Len(c) -> X]
  BY <1>2
<1>. HIDE DEF X
<1>4. /\ e.nonce \in Seq(X) /\ Len(e.nonce) = n
      /\ e.tag \in Seq(X) /\ Len(e.tag) = t
      /\ e.data \in Seq(X) /\ Len(e.data) = Len(c)
  BY <1>1, <1>3, TableIsSeq
<1>5. /\ x \in Seq(X) /\ Len(x) = n + t + Len(c)
      /\ SubSeq(x, 1, n) = e.nonce /\ SubSeq(x, n + 1, n + t) = e.tag
      /\ From(x, n + t + 1) = e.data
  <2>1. /\ x \in Seq(X) /\ Len(x) = Len(e.nonce) + Len(e.tag) + Len(e.data)
        /\ SubSeq(x, 1, Len(e.nonce)) = e.nonce
        /\ SubSeq(x, Len(e.nonce) + 1, Len(e.nonce) + Len(e.tag)) = e.tag
        /\ From(x, Len(e.nonce) + Len(e.tag) + 1) = e.data
    <3>1. InThreeParts(X, (e.nonce \o e.tag) \o e.data, e.nonce, e.tag, e.data)
      BY <1>4, ThreeParts, Zenon
    <3>. QED BY <3>1 DEF InThreeParts
  <2>. HIDE DEF x
  <2>. QED BY <1>4, <2>1
<1>. QED BY <1>5 DEF e

\* The tag verifies under the key it was made with and no other.
LEMMA Decrypted ==
  ASSUME NEW c \in Seq(Byte), NEW key, NEW nonce, NEW other
  PROVE  nc_decrypt_message(nc_encrypt_message(c, key, nonce), other)
           = IF other = key THEN {c} ELSE {}
<1>. DEFINE e == nc_encrypt_message(c, key, nonce)
<1>1. e.tag = TagBytes(key, e.nonce, e.data)
  BY DEF nc_encrypt_message
<1>2. 1 \in 1 .. NC_GCM_TAG_LENGTH
  BY LengthAssumption
<1>3. ASSUME NEW k PROVE TagBytes(k, e.nonce, e.data)[1] = <<"tag", k, e.nonce, e.data, 1>>
  BY <1>2 DEF TagBytes
<1>4. e.tag = TagBytes(other, e.nonce, e.data) <=> other = key
  BY <1>1, <1>3
<1>5. Len(e.data) = Len(c) /\ \A i \in 1 .. Len(c) : e.data[i][5] = c[i]
  <2>1. e.data = [i \in 1 .. Len(c) |-> <<"cipher", key, NonceBytes(nonce), i, c[i]>>]
    BY DEF nc_encrypt_message
  <2>. QED BY <2>1
<1>6. [i \in 1 .. Len(e.data) |-> e.data[i][5]] = [i \in 1 .. Len(c) |-> c[i]]
  BY <1>5
<1>7. c = [i \in 1 .. Len(c) |-> c[i]]
  OBVIOUS
<1>. QED BY <1>4, <1>6, <1>7 DEF nc_decrypt_message

\* nc_decode undoes nc_encode for a host with the same key, and throws for another.
LEMMA Decoded ==
  ASSUME NEW data \in Seq(Byte), data # <<>>, NEW e1 \in Endian, NEW e2 \in Endian,
         NEW key, NEW nonce, NEW other, NEW x \in nc_encode(data, key, nonce, e1)
  PROVE  /\ \E X : x \in Seq(X)
         /\ Len(x) \in Uint32 /\ Len(x) > 0
         /\ nc_decode(x, other, e2) = IF other = key THEN {data} ELSE {}
<1>1. PICK c \in nc_compress_message(data, e1) :
           x = LET e == nc_encrypt_message(c, key, nonce) IN e.nonce \o e.tag \o e.data
  BY DEF nc_encode
<1>. DEFINE e == nc_encrypt_message(c, key, nonce)
<1>2. c \in Seq(Byte) /\ Len(c) = 4 + Len(data)
  BY Compressed
<1>3. /\ x = e.nonce \o e.tag \o e.data
      /\ \E X : x \in Seq(X)
      /\ Len(x) = NC_NONCE_LENGTH + NC_GCM_TAG_LENGTH + Len(c)
      /\ SubSeq(x, 1, NC_NONCE_LENGTH) = e.nonce
      /\ SubSeq(x, NC_NONCE_LENGTH + 1, NC_NONCE_LENGTH + NC_GCM_TAG_LENGTH) = e.tag
      /\ From(x, NC_NONCE_LENGTH + NC_GCM_TAG_LENGTH + 1) = e.data
  BY <1>1, <1>2, Encrypted
<1>4. Len(x) \in Uint32 /\ Len(x) > 0
  <2>1. Len(data) \in Nat /\ Len(data) <= LZ4_MAX_INPUT_SIZE
    <3>1. Len(data) \in Nat
      OBVIOUS
    <3>. QED BY <3>1, LengthAssumption DEF nc_compress_message
  <2>. QED BY <1>2, <1>3, <2>1, LengthAssumption, Powers DEF Uint32
<1>5. [nonce |-> e.nonce, tag |-> e.tag, data |-> e.data] = e
  BY DEF nc_encrypt_message
<1>6. nc_decode(x, other, e2)
        = UNION {nc_decompress_message(d, e2) : d \in nc_decrypt_message(e, other)}
  BY <1>3, <1>5 DEF nc_decode
<1>7. nc_decrypt_message(e, other) = IF other = key THEN {c} ELSE {}
  BY <1>2, Decrypted
<1>8. nc_decompress_message(c, e2) = {data}
  BY Decompressed
<1>. HIDE DEF e
<1>. QED BY <1>3, <1>4, <1>6, <1>7, <1>8

LEMMA MessageType ==
  ASSUME NEW m \in Messages
  PROVE  /\ m.msg_type \in Byte /\ m.node_id \in Seq(Byte) /\ m.data \in Seq(Byte)
         /\ m = [msg_type |-> m.msg_type, node_id |-> m.node_id, data |-> m.data]
         /\ m \in ToServer => Len(m.node_id) = NC_NODEID_LENGTH
         /\ m \notin ToServer => Len(m.node_id) = 0
<1>1. CASE m \in ToServer
  <2>1. m \in [msg_type : Byte, node_id : [1 .. NC_NODEID_LENGTH -> Byte], data : Seq(Byte)]
    BY <1>1, MessageAssumption
  <2>2. m.node_id \in Seq(Byte) /\ Len(m.node_id) = NC_NODEID_LENGTH
    BY <2>1, TableIsSeq, LengthAssumption
  <2>. QED BY <1>1, <2>1, <2>2
<1>2. CASE m \notin ToServer
  <2>1. m \in [msg_type : Byte, node_id : {<<>>}, data : Seq(Byte)]
    BY <1>2, MessageAssumption DEF Messages
  <2>2. m.node_id = <<>>
    BY <2>1
  <2>3. <<>> \in Seq(Byte) /\ Len(<<>>) = 0
    OBVIOUS
  <2>. QED BY <1>2, <2>1, <2>2, <2>3
<1>. QED BY <1>1, <1>2

\* How many bytes of id nc_decode_message_from_node and
\* nc_decode_message_from_server expect of a message.
IdLengthOf(m) == IF m \in ToServer THEN NC_NODEID_LENGTH ELSE 0

\* A host with the key decodes the message that was encoded, whatever the two
\* byte orders, and a host with another key throws.
LEMMA MessageDecoded ==
  ASSUME NEW m \in Messages, NEW e1 \in Endian, NEW e2 \in Endian,
         NEW key, NEW nonce, NEW other, NEW x \in Encode(m, key, nonce, e1)
  PROVE  /\ \E X : x \in Seq(X)
         /\ Len(x) \in Uint32 /\ Len(x) > 0
         /\ Decode(x, IdLengthOf(m), other, e2) = IF other = key THEN {m} ELSE {}
<1>. DEFINE d == (<<m.msg_type>> \o m.node_id) \o m.data
            n == IdLengthOf(m)
<1>1. /\ m.msg_type \in Byte /\ m.node_id \in Seq(Byte) /\ m.data \in Seq(Byte)
      /\ m = [msg_type |-> m.msg_type, node_id |-> m.node_id, data |-> m.data]
      /\ Len(m.node_id) = n /\ n \in Nat
  BY MessageType, LengthAssumption DEF IdLengthOf
<1>2. PICK s \in Seq(Byte), t \in Seq(Byte), u \in Seq(Byte) :
           /\ s = <<m.msg_type>> /\ t = m.node_id /\ u = m.data
           /\ Len(s) = 1 /\ Len(t) = n
  <2>1. <<m.msg_type>> \in Seq(Byte) /\ Len(<<m.msg_type>>) = 1
    BY <1>1
  <2>. HIDE DEF n
  <2>. QED BY <1>1, <2>1, Zenon
<1>3. d = (s \o t) \o u
  BY <1>2
<1>. HIDE DEF d, n
<1>4. /\ d \in Seq(Byte) /\ Len(d) = Len(s) + Len(t) + Len(u)
      /\ \A k \in 1 .. Len(s) : d[k] = s[k]
      /\ SubSeq(d, Len(s) + 1, Len(s) + Len(t)) = t
      /\ From(d, Len(s) + Len(t) + 1) = u
  <2>1. InThreeParts(Byte, (s \o t) \o u, s, t, u)
    BY ThreeParts, Zenon
  <2>. QED BY <1>3, <2>1 DEF InThreeParts
<1>5. d # <<>> /\ d[1] = m.msg_type
  <2>1. 1 \in 1 .. Len(s) /\ s[1] = m.msg_type
    BY <1>2
  <2>2. d[1] = s[1]
    BY <1>4, <2>1
  <2>3. Len(t) \in Nat /\ Len(u) \in Nat
    OBVIOUS
  <2>4. Len(d) # 0
    BY <1>2, <1>4, <2>3
  <2>. QED BY <2>1, <2>2, <2>4
<1>6. SubSeq(d, 2, n + 1) = m.node_id /\ From(d, n + 2) = m.data
  <2>1. Len(s) + 1 = 2 /\ Len(s) + Len(t) = n + 1 /\ Len(s) + Len(t) + 1 = n + 2
    BY <1>1, <1>2
  <2>. QED BY <1>2, <1>4, <2>1
<1>7. x \in nc_encode(d, key, nonce, e1)
  BY DEF Encode, d
<1>8. /\ \E X : x \in Seq(X)
      /\ Len(x) \in Uint32 /\ Len(x) > 0
      /\ nc_decode(x, other, e2) = IF other = key THEN {d} ELSE {}
  BY <1>4, <1>5, <1>7, Decoded
<1>9. Decode(x, n, other, e2)
        = {[msg_type |-> r[1], node_id |-> SubSeq(r, 2, n + 1), data |-> From(r, n + 2)] :
             r \in nc_decode(x, other, e2)}
  BY DEF Decode
<1>. QED BY <1>1, <1>5, <1>6, <1>8, <1>9 DEF n

-----------------------------------------------------------------------------
(* The bytes on the wire *)

Header == nc_to_big_endian_bytes(Len(encoded), sender.endian)

Announced == \E m \in Messages, nonce \in Nonce :
               /\ sent = {m}
               /\ encoded \in Encode(m, sender.key, nonce, sender.endian)

SenderInv ==
  /\ sender \in Host /\ receiver \in Host
  /\ sender_pc = "encode" => sent = {}
  /\ sender_pc \in {"header", "body", "done"} \/ wire # <<>> => Announced
  /\ sender_pc \in {"encode", "header"} => wire = <<>>
  /\ sender_pc = "body" => wire = Header
  /\ sender_pc = "done" => wire = Header \o encoded
  /\ sender_pc = "threw" => wire \in {<<>>, Header, Header \o encoded}
  /\ sender_pc \in SenderPC

\* What is read is what was written: the size that was announced, then exactly
\* the bytes that belong to it.
ReceiverInv ==
  /\ receiver_pc \in ReceiverPC
  /\ arrived \in Nat /\ arrived <= Len(wire)
  /\ receiver_pc = "body" => arrived >= 4
  /\ receiver_pc = "decode" => wire # <<>> /\ message = encoded
  /\ receiver_pc = "done" => wire # <<>> /\ received = sent /\ sender.key = receiver.key
  /\ receiver_pc # "done" => received = {}
  /\ receiver_pc = "threw" => link = "reset" \/ sender_pc = "threw" \/ sender.key # receiver.key

WireInv == SenderInv /\ ReceiverInv

LEMMA WireBytes ==
  ASSUME Announced, sender \in Host
  PROVE  /\ Len(encoded) \in Nat /\ Len(encoded) > 0
         /\ Len(Header) = 4 /\ Header # <<>> /\ Header \o encoded # <<>>
         /\ Len(Header \o encoded) = 4 + Len(encoded)
         /\ Before(Header, 5) = Header /\ Before(Header \o encoded, 5) = Header
         /\ SubSeq(Header \o encoded, 5, 4 + Len(encoded)) = encoded
         /\ \A e \in Endian : nc_from_big_endian_bytes(Header, e) = Len(encoded)
<1>1. sender.endian \in Endian
  BY DEF Host
<1>2. PICK X : encoded \in Seq(X) /\ Len(encoded) \in Uint32 /\ Len(encoded) > 0
  BY <1>1, MessageDecoded DEF Announced
<1>3. Header \in Bytes4 /\ \A e \in Endian : nc_from_big_endian_bytes(Header, e) = Len(encoded)
  BY <1>1, <1>2, SizeBytes, SizeReadBack DEF Header
<1>. DEFINE Y == X \cup Byte
<1>4. Header \in [1 .. 4 -> Y]
  BY <1>3 DEF Bytes4
<1>5. encoded \in Seq(Y)
  BY <1>2
<1>. HIDE DEF Y
<1>6. Header \in Seq(Y) /\ Len(Header) = 4
  BY <1>4, TableIsSeq
<1>. HIDE DEF Header
<1>7. Header # <<>> /\ Before(Header, 5) = Header
  <2>1. Header # <<>>
    <3>1. Len(<<>>) # 4
      OBVIOUS
    <3>. QED BY <1>6, <3>1, Zenon
  <2>2. Before(Header, Len(Header) + 1) = Header
    BY <1>6, Whole, Zenon
  <2>3. Len(Header) + 1 = 5
    BY <1>6
  <2>. QED BY <2>1, <2>2, <2>3
<1>8. /\ Header \o encoded \in Seq(Y) /\ Len(Header \o encoded) = 4 + Len(encoded)
      /\ Before(Header \o encoded, 5) = Header /\ From(Header \o encoded, 5) = encoded
  <2>1. Len(Header) + 1 = 5
    BY <1>6
  <2>2. /\ Header \o encoded \in Seq(Y) /\ Len(Header \o encoded) = Len(Header) + Len(encoded)
        /\ Before(Header \o encoded, Len(Header) + 1) = Header
        /\ From(Header \o encoded, Len(Header) + 1) = encoded
    BY <1>5, <1>6, Concatenated
  <2>. QED BY <1>6, <2>1, <2>2
<1>9. Header \o encoded # <<>>
  BY <1>2, <1>8, Powers DEF Uint32
<1>. QED BY <1>2, <1>3, <1>6, <1>7, <1>8, <1>9, Powers DEF Uint32, From

\* How long the second read waits: for all of the message and nothing more.
LEMMA SecondRead ==
  ASSUME WireInv, receiver_pc = "body"
  PROVE  /\ Announced /\ Needed = 4 + Len(encoded) /\ Len(wire) <= Needed
         /\ arrived >= Needed => wire = Header \o encoded /\ SubSeq(wire, 5, Needed) = encoded
         /\ sender_pc = "done" => Len(wire) = Needed
<1>1. wire # <<>>
  <2>1. Len(<<>>) = 0
    OBVIOUS
  <2>. QED BY <2>1 DEF WireInv, ReceiverInv
<1>2. Announced /\ sender \in Host
  BY <1>1 DEF WireInv, SenderInv
<1>3. wire = Header \/ wire = Header \o encoded
  BY <1>1 DEF WireInv, SenderInv, SenderPC
<1>4. Needed = 4 + Len(encoded)
  <2>1. Needed = 4 + nc_from_big_endian_bytes(Before(wire, 5), receiver.endian)
    BY DEF Needed
  <2>2. receiver.endian \in Endian
    BY DEF WireInv, SenderInv, Host
  <2>. QED BY <1>2, <1>3, <2>1, <2>2, WireBytes
<1>5. wire = Header => Len(wire) < Needed
  BY <1>2, <1>4, WireBytes
<1>6. wire = Header \o encoded => Len(wire) = Needed
  BY <1>2, <1>4, WireBytes
<1>7. arrived \in Nat /\ arrived <= Len(wire)
  BY DEF WireInv, ReceiverInv
<1>8. Len(encoded) \in Nat
  BY <1>2, WireBytes
<1>9. Len(wire) <= Needed
  BY <1>2, <1>3, <1>4, <1>8, WireBytes
<1>10. arrived >= Needed => wire = Header \o encoded /\ SubSeq(wire, 5, Needed) = encoded
  <2>1. ~(wire = Header /\ arrived >= Needed)
    BY <1>2, <1>4, <1>7, <1>8, WireBytes
  <2>2. wire = Header \o encoded => SubSeq(wire, 5, Needed) = encoded
    BY <1>2, <1>4, WireBytes
  <2>. QED BY <1>3, <2>1, <2>2
<1>11. sender_pc = "done" => wire = Header \o encoded
  BY DEF WireInv, SenderInv
<1>. QED BY <1>2, <1>4, <1>6, <1>9, <1>10, <1>11

LEMMA DecodedAsSent ==
  ASSUME WireInv, DecodeMessage
  PROVE  \E m \in Messages : /\ sent = {m}
                             /\ received' = IF receiver.key = sender.key THEN {m} ELSE {}
<1>1. Announced /\ message = encoded /\ sender.endian \in Endian /\ receiver.endian \in Endian
  BY DEF WireInv, SenderInv, ReceiverInv, DecodeMessage, Host
<1>2. PICK m \in Messages, nonce \in Nonce :
           sent = {m} /\ encoded \in Encode(m, sender.key, nonce, sender.endian)
  BY <1>1 DEF Announced
<1>3. IdLength = IdLengthOf(m)
  BY <1>2 DEF IdLength, IdLengthOf
<1>4. received' = Decode(encoded, IdLengthOf(m), receiver.key, receiver.endian)
  BY <1>1, <1>3 DEF DecodeMessage
<1>. QED BY <1>1, <1>2, <1>4, MessageDecoded

LEMMA WireBegins == Init => WireInv
<1>. SUFFICES ASSUME Init PROVE WireInv
  OBVIOUS
<1>1. Len(<<>>) = 0
  OBVIOUS
<1>. QED BY <1>1 DEF Init, WireInv, SenderInv, ReceiverInv, SenderPC, ReceiverPC

LEMMA WireKept ==
  ASSUME WireInv, [Next]_vars PROVE WireInv'
<1>. USE DEF hostVars, senderVars, netVars, receiverVars
<1>1. CASE EncodeMessage
  <2>1. PICK m \in Messages, nonce \in Nonce :
          /\ sent' = {m}
          /\ \/ sender_pc' = "threw" /\ UNCHANGED encoded
             \/ encoded' \in Encode(m, sender.key, nonce, sender.endian) /\ sender_pc' = "header"
    BY <1>1 DEF EncodeMessage
  <2>2. wire = <<>> /\ UNCHANGED <<hostVars, netVars, receiverVars>> /\ sender_pc = "encode"
    BY <1>1 DEF EncodeMessage, WireInv, SenderInv
  <2>3. SenderInv'
    BY <2>1, <2>2 DEF WireInv, SenderInv, Announced, SenderPC
  <2>4. ReceiverInv'
    BY <2>2 DEF WireInv, ReceiverInv
  <2>. QED BY <2>3, <2>4 DEF WireInv
<1>2. CASE WriteHeader
  <2>1. Announced /\ sender \in Host /\ wire = <<>> /\ wire' = Header /\ sender_pc = "header"
    BY <1>2 DEF WriteHeader, WireInv, SenderInv, Header
  <2>2. UNCHANGED <<hostVars, sent, encoded, Header, Announced>> /\ sender_pc' = "body"
    BY <1>2 DEF WriteHeader, Header, Announced
  <2>3. SenderInv'
    BY <2>1, <2>2 DEF WireInv, SenderInv, SenderPC
  <2>4. Len(wire) = 0 /\ Len(wire') = 4 /\ wire' # <<>>
    BY <2>1, WireBytes
  <2>5. ReceiverInv'
    BY <1>2, <2>1, <2>4 DEF WriteHeader, WireInv, ReceiverInv
  <2>. QED BY <2>3, <2>5 DEF WireInv
<1>3. CASE WriteBody
  <2>1. Announced /\ sender \in Host /\ wire = Header /\ wire' = Header \o encoded /\ sender_pc = "body"
    BY <1>3 DEF WriteBody, WireInv, SenderInv
  <2>2. UNCHANGED <<hostVars, sent, encoded, Header, Announced>> /\ sender_pc' = "done"
    BY <1>3 DEF WriteBody, Header, Announced
  <2>3. SenderInv'
    BY <2>1, <2>2 DEF WireInv, SenderInv, SenderPC
  <2>4. Len(wire) = 4 /\ Len(wire') = 4 + Len(encoded) /\ wire' # <<>> /\ Len(encoded) \in Nat
    BY <2>1, WireBytes
  <2>5. ReceiverInv'
    BY <1>3, <2>1, <2>4 DEF WriteBody, WireInv, ReceiverInv
  <2>. QED BY <2>3, <2>5 DEF WireInv
<1>4. CASE WriteThrows
  <2>1. UNCHANGED <<hostVars, sent, encoded, netVars, receiverVars, Header, Announced>>
    BY <1>4 DEF WriteThrows, Header, Announced
  <2>2. SenderInv'
    BY <1>4, <2>1 DEF WriteThrows, WireInv, SenderInv, SenderPC
  <2>3. ReceiverInv'
    BY <1>4, <2>1 DEF WriteThrows, WireInv, ReceiverInv
  <2>. QED BY <2>2, <2>3 DEF WireInv
<1>5. CASE Arrive \/ Break
  <2>1. UNCHANGED <<hostVars, senderVars, wire, receiverVars, Header, Announced>>
    BY <1>5 DEF Arrive, Break, Header, Announced
  <2>2. SenderInv'
    BY <2>1 DEF WireInv, SenderInv
  <2>3. Len(wire) \in Nat
    <3>1. wire \in {<<>>, Header, Header \o encoded} /\ sender \in Host
      BY DEF WireInv, SenderInv, SenderPC
    <3>2. wire # <<>> => Announced
      BY DEF WireInv, SenderInv
    <3>3. Len(<<>>) = 0
      OBVIOUS
    <3>. QED BY <3>1, <3>2, <3>3, WireBytes
  <2>4. arrived' \in Nat /\ arrived' <= Len(wire) /\ arrived' >= arrived /\ (link = "reset" => link' = "reset")
    BY <1>5, <2>3 DEF Arrive, Break, WireInv, ReceiverInv
  <2>5. ReceiverInv'
    BY <2>1, <2>4 DEF WireInv, ReceiverInv
  <2>. QED BY <2>2, <2>5 DEF WireInv
<1>6. ASSUME UNCHANGED <<hostVars, senderVars, netVars>> PROVE SenderInv'
  <2>1. UNCHANGED <<Header, Announced>>
    BY <1>6 DEF Header, Announced
  <2>. QED BY <1>6, <2>1 DEF WireInv, SenderInv
<1>7. CASE ReadHeader
  <2>1. arrived >= 4
    BY <1>7 DEF ReadHeader, Needed
  <2>2. ReceiverInv'
    BY <1>7, <2>1 DEF ReadHeader, WireInv, ReceiverInv, ReceiverPC
  <2>. QED BY <1>6, <1>7, <2>2 DEF ReadHeader, WireInv
<1>8. CASE ReadBody
  <2>1. wire = Header \o encoded /\ message' = encoded /\ wire # <<>>
    BY <1>8, SecondRead, WireBytes DEF ReadBody, WireInv, SenderInv
  <2>2. ReceiverInv'
    BY <1>8, <2>1 DEF ReadBody, WireInv, ReceiverInv, ReceiverPC
  <2>. QED BY <1>6, <1>8, <2>2 DEF ReadBody, WireInv
<1>9. CASE ReadThrows
  <2>1. link = "reset" \/ sender_pc = "threw"
    <3>1. ASSUME receiver_pc = "header", sender_pc = "done", arrived = Len(wire), arrived < Needed
          PROVE  FALSE
      <4>1. Needed = 4 /\ Announced /\ sender \in Host /\ wire = Header \o encoded
        BY <3>1 DEF Needed, WireInv, SenderInv
      <4>2. Len(wire) = 4 + Len(encoded) /\ Len(encoded) \in Nat
        BY <4>1, WireBytes
      <4>. QED BY <3>1, <4>1, <4>2
    <3>2. ASSUME receiver_pc = "body", sender_pc = "done", arrived = Len(wire), arrived < Needed
          PROVE  FALSE
      <4>1. Needed = Len(wire) /\ arrived \in Nat
        BY <3>2, SecondRead DEF WireInv, ReceiverInv
      <4>. QED BY <3>2, <4>1
    <3>. QED BY <1>9, <3>1, <3>2 DEF ReadThrows
  <2>2. ReceiverInv'
    BY <1>9, <2>1 DEF ReadThrows, WireInv, ReceiverInv, ReceiverPC
  <2>. QED BY <1>6, <1>9, <2>2 DEF ReadThrows, WireInv
<1>10. CASE DecodeMessage
  <2>1. PICK m \in Messages :
          sent = {m} /\ received' = IF receiver.key = sender.key THEN {m} ELSE {}
    BY <1>10, DecodedAsSent
  <2>2. ReceiverInv'
    BY <1>10, <2>1 DEF DecodeMessage, WireInv, ReceiverInv, ReceiverPC
  <2>. QED BY <1>6, <1>10, <2>2 DEF DecodeMessage, WireInv
<1>11. CASE UNCHANGED vars
  BY <1>6, <1>11 DEF vars, WireInv, ReceiverInv
<1>. QED BY <1>1, <1>2, <1>3, <1>4, <1>5, <1>7, <1>8, <1>9, <1>10, <1>11 DEF Next

LEMMA WireInvariant == Spec => []WireInv
BY WireBegins, WireKept, PTL DEF Spec

-----------------------------------------------------------------------------
(* The theorems *)

\* What nc_receive_data and the codec give the receiver is what the sender gave
\* the codec (nc_network.cpp, nc_message.cpp), and without a reset of the
\* connection the receiver gets an exception only from a key that is not the sender's or
\* because the sender could not send: for every message, split of its bytes and
\* pair of byte orders.
THEOREM SentAndReceived == Spec => []RoundTrip
<1>1. WireInv => RoundTrip
  BY DEF WireInv, ReceiverInv, RoundTrip
<1>. QED BY <1>1, WireInvariant, PTL

\* A connection with codec and framing is the one NCNetwork takes it for: every
\* step delivers the message that was sent, once, or fails, or shows nothing.
THEOREM RefinesChannel == Spec => ImplementsChannel
<1>1. Init => Channel!Init
  BY DEF Init, Channel!Init
<1>2. ASSUME WireInv, [Next]_vars PROVE [Channel!Next]_(Channel!channel)
  <2>. USE DEF hostVars, senderVars, netVars, receiverVars
  <2>1. CASE EncodeMessage
    <3>1. PICK m \in Messages : sent' = {m}
      BY <2>1 DEF EncodeMessage
    <3>2. sent = {} /\ UNCHANGED <<received, receiver_pc>>
      BY <1>2, <2>1 DEF EncodeMessage, WireInv, SenderInv
    <3>3. Channel!Send(m)
      BY <3>1, <3>2 DEF Channel!Send
    <3>. QED BY <3>3 DEF Channel!Next
  <2>2. CASE \/ WriteHeader \/ WriteBody \/ WriteThrows \/ Arrive \/ Break
             \/ ReadHeader \/ ReadBody \/ UNCHANGED vars
    <3>1. UNCHANGED <<sent, received>> /\ (receiver_pc' = "threw" <=> receiver_pc = "threw")
      BY <2>2 DEF WriteHeader, WriteBody, WriteThrows, Arrive, Break, ReadHeader, ReadBody, vars
    <3>. QED BY <3>1 DEF Channel!channel
  <2>3. CASE ReadThrows
    <3>1. /\ received = {} /\ UNCHANGED <<sent, received>>
          /\ receiver_pc # "threw" /\ receiver_pc' = "threw"
      BY <1>2, <2>3 DEF ReadThrows, WireInv, ReceiverInv
    <3>2. Channel!Fail
      BY <3>1 DEF Channel!Fail
    <3>. QED BY <3>2 DEF Channel!Next
  <2>4. CASE DecodeMessage
    <3>1. PICK m \in Messages :
            sent = {m} /\ received' = IF receiver.key = sender.key THEN {m} ELSE {}
      BY <1>2, <2>4, DecodedAsSent
    <3>2. /\ received = {} /\ receiver_pc = "decode" /\ UNCHANGED sent
          /\ receiver_pc' = IF received' = {} THEN "threw" ELSE "done"
      BY <1>2, <2>4 DEF DecodeMessage, WireInv, ReceiverInv
    <3>3. CASE received' = {m}
      <4>1. Channel!Deliver
        BY <3>1, <3>2, <3>3 DEF Channel!Deliver
      <4>. QED BY <4>1 DEF Channel!Next
    <3>4. CASE received' = {}
      <4>1. Channel!Fail
        BY <3>2, <3>4 DEF Channel!Fail
      <4>. QED BY <4>1 DEF Channel!Next
    <3>. QED BY <3>1, <3>3, <3>4
  <2>. QED BY <1>2, <2>1, <2>2, <2>3, <2>4 DEF Next
<1>. QED BY <1>1, <1>2, WireInvariant, PTL DEF Spec, ImplementsChannel, Channel!Spec

\* The row index of the mandel example is copied into its message, and out of
\* it, in the order of the host (util.cpp:100, util.cpp:108).  README.md:40
\* promises a job on different kinds of hardware; a node with another byte order
\* than the server computes the row it was given only if the four bytes of its
\* index read the same both ways: exactly for those indexes the promise holds.
THEOREM IndexMisread ==
  ASSUME NEW i \in Uint32, NEW server \in Endian, NEW node \in Endian
  PROVE  FromMemory(u32_to_vec_u8(i, server), node) = i <=> server = node \/ byteswap(i) = i
<1>1. CASE server = node
  BY <1>1, CopiedBack DEF u32_to_vec_u8
<1>2. CASE server = "little" /\ node = "big"
  BY <1>2 DEF u32_to_vec_u8, byteswap
<1>3. CASE server = "big" /\ node = "little"
  <2>1. ToMemory(i, "little") \in Bytes4
    BY BytesOf DEF Endian
  <2>2. FromMemory(ToMemory(i, "big"), "little") = byteswap(i)
    BY <2>1, OtherOrder DEF byteswap
  <2>. QED BY <1>3, <2>2 DEF u32_to_vec_u8
<1>. QED BY <1>1, <1>2, <1>3 DEF Endian
=============================================================================
