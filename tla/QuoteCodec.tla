----------------------------- MODULE QuoteCodec -----------------------------
(***************************************************************************)
(* What is signed: the byte encoding of a quote, once in Rust and once in  *)
(* TypeScript, and the message whose SHA-256 is the digest.  SHA-256 is    *)
(* taken to be free of collisions, so a digest is the message itself.      *)
(***************************************************************************)
EXTENDS Integers, Sequences, Digits, Verdict

CONSTANTS
  BYTE,                \* 256, the number of values of a byte
  KEY_LEN,             \* 32, the bytes of a key or hash
  INT_LEN,             \* 8, the bytes of an integer
  MESSAGE_DOMAIN_TAG   \* "AiFinPay-Solana-v1.4"

ASSUME CodecAssumption ==
  /\ BYTE \in Nat \ {0, 1} /\ KEY_LEN \in Nat \ {0} /\ INT_LEN \in Nat \ {0}
  /\ MESSAGE_DOMAIN_TAG \in Seq(0 .. BYTE - 1)

Bytes == 0 .. BYTE - 1
Keys == [1 .. KEY_LEN -> Bytes]
WORD == Power(BYTE)[INT_LEN]
Unsigned == 0 .. WORD - 1
Signed == -(WORD \div 2) .. WORD \div 2 - 1

(* state.rs: a Quote as the program receives it. *)
Quote ==
  [payer : Keys, merchant : Keys, token : Keys, gross_amount : Unsigned,
   ip_creator : Keys, valid_until : Signed, order_id_hash : Keys, nonce : Unsigned,
   route_id : Keys]

(* The low INT_LEN bytes of n, negative numbers in two's complement. *)
ToLeBytes(n) == [i \in 1 .. INT_LEN |-> Digit(n, BYTE, i - 1)]

QUOTE_ENCODED_LEN == 6 * KEY_LEN + 3 * INT_LEN

-----------------------------------------------------------------------------
Field(bytes, width) == [bytes |-> bytes, width |-> width]

(* bytes copied into out behind offset o, as far as out reaches. *)
Put(out, o, bytes) ==
  [i \in DOMAIN out |-> IF i - o \in DOMAIN bytes THEN bytes[i - o] ELSE out[i]]

(* let o = 0, and a buffer of zeros. *)
Blank == [o |-> 0, out |-> [i \in 1 .. QUOTE_ENCODED_LEN |-> 0]]

(* Writing a field at o, then o += its width. *)
cursor ++ field ==
  [o |-> cursor.o + field.width, out |-> Put(cursor.out, cursor.o, field.bytes)]

(* utils.rs: encode_quote *)
RustEncoding(q) ==
  (Blank ++ Field(q.payer, KEY_LEN) ++ Field(q.merchant, KEY_LEN) ++ Field(q.token, KEY_LEN)
     ++ Field(ToLeBytes(q.gross_amount), INT_LEN) ++ Field(q.ip_creator, KEY_LEN)
     ++ Field(ToLeBytes(q.valid_until), INT_LEN) ++ Field(q.order_id_hash, KEY_LEN)
     ++ Field(ToLeBytes(q.nonce), INT_LEN) ++ Field(q.route_id, KEY_LEN)).out

(* Mutant: the program id is left as zeros. *)
RustMessage_AnyProgram(program_id, q) ==
  MESSAGE_DOMAIN_TAG \o [i \in 1 .. KEY_LEN |-> 0] \o RustEncoding(q)

(* utils.rs: quote_message_hash *)
RustMessage(program_id, q) == MESSAGE_DOMAIN_TAG \o program_id \o RustEncoding(q)

-----------------------------------------------------------------------------
(* The signer's Quote holds byte arrays of any length and integers of any  *)
(* size; what does not fit is refused.                                     *)
RequireLen(bytes) == Check(Len(bytes) = KEY_LEN, "WrongLength")

(* writeBigUInt64LE, writeBigInt64LE *)
RequireRange(n, range) == Check(n \in range, "OutOfRange")

EncodeQuoteVerdict(q) ==
     RequireLen(q.payer) ?? RequireLen(q.merchant) ?? RequireLen(q.token)
  ?? RequireLen(q.ip_creator) ?? RequireLen(q.order_id_hash) ?? RequireLen(q.route_id)
  ?? RequireRange(q.gross_amount, Unsigned) ?? RequireRange(q.valid_until, Signed)
  ?? RequireRange(q.nonce, Unsigned)

(* Mutant: two fields exchanged that are both zero in the pinned fixture.  *)
TsEncoding_Swapped(q) ==
  (Blank ++ Field(q.payer, KEY_LEN) ++ Field(q.merchant, KEY_LEN) ++ Field(q.ip_creator, KEY_LEN)
     ++ Field(ToLeBytes(q.gross_amount), INT_LEN) ++ Field(q.token, KEY_LEN)
     ++ Field(ToLeBytes(q.valid_until), INT_LEN) ++ Field(q.order_id_hash, KEY_LEN)
     ++ Field(ToLeBytes(q.nonce), INT_LEN) ++ Field(q.route_id, KEY_LEN)).out

(* quote.ts: encodeQuote *)
TsEncoding(q) ==
  (Blank ++ Field(q.payer, KEY_LEN) ++ Field(q.merchant, KEY_LEN) ++ Field(q.token, KEY_LEN)
     ++ Field(ToLeBytes(q.gross_amount), INT_LEN) ++ Field(q.ip_creator, KEY_LEN)
     ++ Field(ToLeBytes(q.valid_until), INT_LEN) ++ Field(q.order_id_hash, KEY_LEN)
     ++ Field(ToLeBytes(q.nonce), INT_LEN) ++ Field(q.route_id, KEY_LEN)).out

ComputeDigestVerdict(program_id, q) == RequireLen(program_id) ?? EncodeQuoteVerdict(q)

(* quote.ts: the bytes computeDigest hashes. *)
TsMessage(program_id, q) == MESSAGE_DOMAIN_TAG \o program_id \o TsEncoding(q)
=============================================================================
