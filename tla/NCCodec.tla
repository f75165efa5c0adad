------------------------------- MODULE NCCodec -------------------------------
(***************************************************************************)
(* What nc_message.cpp, nc_compression.cpp, nc_encryption.cpp and the      *)
(* byte-order helpers of nc_util.cpp do to a message: encode, compress,    *)
(* encrypt, lay out, and back.  An operation that can throw returns a set: *)
(* its one result, or none.                                                *)
(*                                                                         *)
(* A byte is a number below Base (256 in the code).  LZ4 is represented by *)
(* its contract only: a block stands for the bytes packed into it, which   *)
(* is also what NCNonCompressor does.  Encryption is symbolic: a byte of   *)
(* ciphertext names the key, the nonce and the byte it hides, and a tag    *)
(* names what it authenticates.                                            *)
(***************************************************************************)
EXTENDS Naturals, Sequences

CONSTANTS Base,               \* number of values of a uint8_t
          NC_NODEID_LENGTH,
          NC_NONCE_LENGTH,
          NC_GCM_TAG_LENGTH,
          LZ4_MAX_INPUT_SIZE  \* the most bytes LZ4_compressBound accepts

UINT32_MAX == Base * Base * Base * Base - 1

ASSUME BaseAssumption == Base \in Nat \ {0, 1}
ASSUME LengthAssumption ==
  /\ NC_NODEID_LENGTH \in Nat /\ NC_NONCE_LENGTH \in Nat /\ NC_GCM_TAG_LENGTH \in Nat \ {0}
  \* every encoded message fits into the uint32_t that announces its size
  /\ LZ4_MAX_INPUT_SIZE \in Nat
  /\ NC_NONCE_LENGTH + NC_GCM_TAG_LENGTH + 4 + LZ4_MAX_INPUT_SIZE <= UINT32_MAX

Byte == 0 .. Base - 1
Endian == {"little", "big"}

\* The elements of s from position i on, and before it.
From(s, i) == SubSeq(s, i, Len(s))
Before(s, i) == SubSeq(s, 1, i - 1)

-----------------------------------------------------------------------------
(* Numbers *)

\* std::memcpy of a uint32_t to its four bytes and back, on a host of the given endianness
ToMemory(v, endian) ==
  LET v1 == v \div Base  v2 == v1 \div Base  v3 == v2 \div Base
      digit == <<v % Base, v1 % Base, v2 % Base, v3 % Base>>
  IN  [i \in 1 .. 4 |-> digit[IF endian = "little" THEN i ELSE 5 - i]]
FromMemory(b, endian) ==
  LET digit(i) == IF endian = "little" THEN b[5 - i] ELSE b[i]
  IN  ((digit(1) * Base + digit(2)) * Base + digit(3)) * Base + digit(4)

byteswap(v) == FromMemory(ToMemory(v, "little"), "big")

\* Mutant of the next definition: no byteswap.
SizeInMemoryOrder(v, endian) == ToMemory(v, endian)

nc_to_big_endian_bytes(v, endian) ==
  ToMemory(IF endian = "little" THEN byteswap(v) ELSE v, endian)

nc_from_big_endian_bytes(b, endian) ==
  LET v == FromMemory(b, endian) IN IF endian = "little" THEN byteswap(v) ELSE v

\* The example's own conversion of a row index, without byteswap.
u32_to_vec_u8(v, endian) == ToMemory(v, endian)

-----------------------------------------------------------------------------
(* Compression: the size of the original, then the block *)

\* LZ4_compressBound gives no room for more than LZ4_MAX_INPUT_SIZE bytes.
nc_compress_message(data, endian) ==
  IF Len(data) > LZ4_MAX_INPUT_SIZE THEN {}
  ELSE {nc_to_big_endian_bytes(Len(data), endian) \o data}

\* The vector has the announced size, whatever the block unpacks to; LZ4 refuses
\* to unpack more than that.
nc_decompress_message(data, endian) ==
  LET size == nc_from_big_endian_bytes(Before(data, 5), endian)
      block == From(data, 5)
  IN  IF block = <<>> \/ Len(block) > size THEN {}
      ELSE {[i \in 1 .. size |-> IF i <= Len(block) THEN block[i] ELSE 0]}

-----------------------------------------------------------------------------
(* Encryption: ChaCha20-Poly1305 of OpenSSL *)

NonceBytes(nonce) == [i \in 1 .. NC_NONCE_LENGTH |-> <<"nonce", nonce, i>>]
TagBytes(key, nonceBytes, data) ==
  [i \in 1 .. NC_GCM_TAG_LENGTH |-> <<"tag", key, nonceBytes, data, i>>]

nc_encrypt_message(data, key, nonce) ==
  LET nonceBytes == NonceBytes(nonce)
      cipher == [i \in 1 .. Len(data) |-> <<"cipher", key, nonceBytes, i, data[i]>>]
  IN  [nonce |-> nonceBytes, tag |-> TagBytes(key, nonceBytes, cipher), data |-> cipher]

\* EVP_DecryptFinal_ex verifies the tag.
nc_decrypt_message(e, key) ==
  IF e.tag = TagBytes(key, e.nonce, e.data) THEN {[i \in 1 .. Len(e.data) |-> e.data[i][5]]}
  ELSE {}

-----------------------------------------------------------------------------
(* NCMessageCodecBase *)

nc_encode(data, key, nonce, endian) ==
  {LET e == nc_encrypt_message(c, key, nonce) IN e.nonce \o e.tag \o e.data :
     c \in nc_compress_message(data, endian)}

nc_decode(message, key, endian) ==
  LET e == [nonce |-> SubSeq(message, 1, NC_NONCE_LENGTH),
            tag |-> SubSeq(message, NC_NONCE_LENGTH + 1, NC_NONCE_LENGTH + NC_GCM_TAG_LENGTH),
            data |-> From(message, NC_NONCE_LENGTH + NC_GCM_TAG_LENGTH + 1)]
  IN  UNION {nc_decompress_message(c, endian) : c \in nc_decrypt_message(e, key)}

-----------------------------------------------------------------------------
(* NCMessageCodecNode and NCMessageCodecServer: a message has a type, an id of *)
(* length NC_NODEID_LENGTH if it goes to the server (none, to a node) and data *)

Encode(m, key, nonce, endian) ==
  nc_encode(<<m.msg_type>> \o m.node_id \o m.data, key, nonce, endian)

\* Mutant of the next definition: the data is taken to begin before the id ends.
DecodeWithinId(message, idLength, key, endian) ==
  {[msg_type |-> d[1], node_id |-> SubSeq(d, 2, idLength + 1), data |-> From(d, idLength + 1)] :
     d \in nc_decode(message, key, endian)}

\* idLength: NC_NODEID_LENGTH in nc_decode_message_from_node, 0 in nc_decode_message_from_server
Decode(message, idLength, key, endian) ==
  {[msg_type |-> d[1], node_id |-> SubSeq(d, 2, idLength + 1), data |-> From(d, idLength + 2)] :
     d \in nc_decode(message, key, endian)}
=============================================================================
