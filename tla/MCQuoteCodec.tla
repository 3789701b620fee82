---------------------------- MODULE MCQuoteCodec ----------------------------
(***************************************************************************)
(* The two encoders, the signer and the two verifiers called on small      *)
(* inputs: bytes of two values and integers of two bytes, a group of prime *)
(* order N, every key, digest, nonce and signature.                        *)
(***************************************************************************)
EXTENDS QuoteCodec, QuoteSignature, Calls

CONSTANTS
  Programs,       \* program ids messages are made for
  GivenQuotes,    \* quotes they are made of, whatever the caller puts into them
  RecoveryBytes   \* last bytes of the signatures that are verified

ASSUME CodecCallsAssumption ==
  /\ Programs \subseteq Seq(Bytes)
  /\ GivenQuotes \subseteq
       [payer : Seq(Bytes), merchant : Seq(Bytes), token : Seq(Bytes), gross_amount : Int,
        ip_creator : Seq(Bytes), valid_until : Int, order_id_hash : Seq(Bytes), nonce : Int,
        route_id : Seq(Bytes)]
  /\ RecoveryBytes \subseteq Nat

Tag == <<1, 0, 1>>
SomePrograms == {<<0, 1>>, <<1, 0>>, <<1>>}
SomeRecoveryBytes == 26 .. 29

(* Keys that are not palindromes, so that order shows. *)
SomeKeys == {<<0, 1>>, <<1, 0>>}

(* Every quote over these keys, its integers from one below the smallest   *)
(* value to one above the largest; then one key of another length.         *)
FittingKeys ==
  [payer : SomeKeys, merchant : SomeKeys, token : SomeKeys, gross_amount : {1},
   ip_creator : SomeKeys, valid_until : {-2}, order_id_hash : SomeKeys, nonce : {2},
   route_id : SomeKeys]

AnyIntegers ==
  [payer : {<<0, 1>>}, merchant : {<<1, 0>>}, token : {<<0, 0>>}, gross_amount : -1 .. WORD,
   ip_creator : {<<1, 1>>}, valid_until : -(WORD \div 2) - 1 .. WORD \div 2,
   order_id_hash : {<<0, 1>>}, nonce : -1 .. WORD, route_id : {<<1, 0>>}]

KeyFields == {"payer", "merchant", "token", "ip_creator", "order_id_hash", "route_id"}

MisfitKeys ==
  {[q EXCEPT ![field] = bytes] :
     q \in AnyIntegers, field \in KeyFields, bytes \in {<<>>, <<1>>, <<1, 0, 1>>}}

SomeQuotes == FittingKeys \cup AnyIntegers \cup MisfitKeys

EncodeCalls == [kind : {"encode"}, program_id : Programs, quote : GivenQuotes]

SignCalls == [kind : {"sign"}, d : Scalars, digest : Digests, k : Scalars]

VerifyCalls ==
  [kind : {"verify"}, digest : Digests, signer : Scalars,
   signature : [r : 0 .. N, s : 0 .. Power(BASE)[S_LEN] - 1, v : RecoveryBytes]]

NotCalled == [kind |-> "none"]

CodecInit ==
  /\ call \in EncodeCalls \cup SignCalls \cup VerifyCalls
  /\ result = NotCalled

(* The program's types admit only keys of full length and 64-bit integers. *)
TypedCall == call.program_id \in Keys /\ call.quote \in Quote

Encode ==
  /\ call.kind = "encode" /\ result = NotCalled
  /\ result' =
       [kind |-> "encode", verdict |-> ComputeDigestVerdict(call.program_id, call.quote),
        ts |-> TsMessage(call.program_id, call.quote),
        rust |-> IF TypedCall THEN RustMessage(call.program_id, call.quote) ELSE <<>>]
  /\ UNCHANGED call

Sign ==
  /\ call.kind = "sign" /\ result = NotCalled
  /\ RawS(call.d, call.digest, call.k) # 0
  /\ result' = [kind |-> "sign", verdict |-> SignDigestVerdict(call.d, call.digest, call.k),
                signature |-> SignDigest(call.d, call.digest, call.k)]
  /\ UNCHANGED call

Verify ==
  /\ call.kind = "verify" /\ result = NotCalled
  /\ result' = [kind |-> "verify",
                ts |-> AcceptedOffChain(call.digest, call.signature, call.signer),
                rust |-> AcceptedOnChain(call.digest, call.signature, call.signer)]
  /\ UNCHANGED call

CodecNext == Encode \/ Sign \/ Verify

CodecSpec == CodecInit /\ [][CodecNext]_vars

-----------------------------------------------------------------------------
(* The signer refuses exactly the calls the program has no values for, and *)
(* hashes for the others the very bytes the program hashes.  The pinned    *)
(* fixture shows it for one quote, in which the token and the IP creator   *)
(* are both zero and every other key but the route repeats one byte.       *)
EncodersAgree ==
  result.kind = "encode" =>
    /\ result.verdict = Ok <=> TypedCall
    /\ result.verdict = Ok => result.ts = result.rust

(* What a reader would make of the bytes behind the tag and program id.    *)
Word(bytes) ==
  LET word[i \in 0 .. Len(bytes)] ==
        IF i = 0 THEN 0 ELSE word[i - 1] + bytes[i] * Power(BYTE)[i - 1]
  IN  word[Len(bytes)]
SignedWord(bytes) == IF Word(bytes) \in Signed THEN Word(bytes) ELSE Word(bytes) - WORD

Decoded(message) ==
  LET start == Len(MESSAGE_DOMAIN_TAG) + KEY_LEN
      At(keys, ints, length) ==
        SubSeq(message, start + keys * KEY_LEN + ints * INT_LEN + 1,
               start + keys * KEY_LEN + ints * INT_LEN + length)
  IN  [payer |-> At(0, 0, KEY_LEN), merchant |-> At(1, 0, KEY_LEN), token |-> At(2, 0, KEY_LEN),
       gross_amount |-> Word(At(3, 0, INT_LEN)), ip_creator |-> At(3, 1, KEY_LEN),
       valid_until |-> SignedWord(At(4, 1, INT_LEN)), order_id_hash |-> At(4, 2, KEY_LEN),
       nonce |-> Word(At(5, 2, INT_LEN)), route_id |-> At(5, 3, KEY_LEN)]

(* The message determines program and quote: no two quotes, and no two     *)
(* programs, are ever signed by one signature, although the fields follow  *)
(* each other without any separator.                                       *)
MessageDeterminesQuote ==
  result.kind = "encode" /\ TypedCall =>
    /\ SubSeq(result.rust, Len(MESSAGE_DOMAIN_TAG) + 1, Len(MESSAGE_DOMAIN_TAG) + KEY_LEN)
         = call.program_id
    /\ Decoded(result.rust) = call.quote

(* The backend's check before it hands out a signature and the program's   *)
(* check when it is used give the same answer for every signature.         *)
VerifiersAgree == result.kind = "verify" => result.ts = result.rust

(* Every signature signDigest returns is accepted by the program; it may   *)
(* refuse only when a trial recovers no key at all.                        *)
SignedQuotesVerify ==
  result.kind = "sign" =>
    IF result.verdict = Ok
    THEN AcceptedOnChain(call.digest, result.signature, call.d)
    ELSE Recovered(call.digest, result.signature.r, result.signature.s, 0) = NoKey

(* From an accepted signature nobody can make a second one for the same    *)
(* digest by mirroring s: of (s, v) and (N - s, other v), which recover to *)
(* the same key, exactly one is accepted.  HALF_N must sit exactly between *)
(* the two halves for that.                                                *)
OneOfTwinsIsAccepted ==
  result.kind = "verify" /\ call.signature.s \in Scalars /\ call.signature.v \in {27, 28} =>
    LET twin == [call.signature EXCEPT !.s = N - @, !.v = 55 - @]
    IN  /\ ~(AcceptedOnChain(call.digest, call.signature, call.signer)
              /\ AcceptedOnChain(call.digest, twin, call.signer))
        /\ Recovered(call.digest, call.signature.r, call.signature.s, call.signature.v - 27)
             = call.signer =>
             \/ AcceptedOnChain(call.digest, call.signature, call.signer)
             \/ AcceptedOnChain(call.digest, twin, call.signer)
=============================================================================
