--------------------------- MODULE QuoteSignature ---------------------------
(***************************************************************************)
(* How a quote's digest is signed off the chain and the signer recovered   *)
(* on it and off it.  The group is the integers modulo an odd prime: the   *)
(* number n stands for the point n * G, opposite points have the same x    *)
(* coordinate and different parity, as on secp256k1.                       *)
(***************************************************************************)
EXTENDS Integers, Sequences, Digits, Verdict

CONSTANTS
  N,        \* the order of the group, a prime
  BASE,     \* 256, the number of values of a byte of s
  S_LEN     \* 32, the number of bytes of s

NoKey == 0                   \* the point at infinity is nobody's key
Scalars == 1 .. N - 1        \* private keys, nonces of signatures, public keys
Digests == 0 .. N - 1

ASSUME SignatureAssumption ==
  /\ N \in Nat /\ N > 2 /\ N % 2 = 1
  /\ \A a \in Scalars : \E b \in Scalars : (a * b) % N = 1   \* as N is prime
  /\ BASE \in Nat \ {0, 1} /\ S_LEN \in Nat \ {0}
  /\ N <= Power(BASE)[S_LEN]

XCoordinate(point) == IF point <= N \div 2 THEN point ELSE N - point
Parity(point) == IF point <= N \div 2 THEN 0 ELSE 1

InverseOf(a) == CHOOSE b \in Scalars : (a * b) % N = 1

(* secp256k1_recover on chain, recoverPublicKey off chain; NoKey when they *)
(* fail: r or s out of range, no point with this x, the point at infinity. *)
Recovered(digest, r, s, recovery_id) ==
  IF /\ r \in Scalars /\ s \in Scalars
     /\ \E point \in Scalars : XCoordinate(point) = r
  THEN LET point == CHOOSE p \in Scalars : XCoordinate(p) = r /\ Parity(p) = recovery_id
       IN  (InverseOf(r) * (s * point - digest)) % N
  ELSE NoKey

-----------------------------------------------------------------------------
(* Big-endian bytes. *)
ToBeBytes(n) == [i \in 1 .. S_LEN |-> Digit(n, BASE, S_LEN - i)]

(* Mutant: the value the comment at is_high_s gives, (N + 1) / 2. *)
HALF_N_OfTheComment == (N + 1) \div 2

(* The constant of utils.rs and signer.ts. *)
HALF_N == (N - 1) \div 2

(* Mutant: the bytes compared from the last to the first. *)
IsHighS_LastByteFirst(s) ==
  \E i \in 1 .. S_LEN :
    /\ s[i] > ToBeBytes(HALF_N)[i]
    /\ \A j \in i + 1 .. S_LEN : s[j] = ToBeBytes(HALF_N)[j]

(* is_high_s: the first byte that differs from HALF_N decides. *)
IsHighS(s) ==
  \E i \in 1 .. S_LEN :
    /\ s[i] > ToBeBytes(HALF_N)[i]
    /\ \A j \in 1 .. i - 1 : s[j] = ToBeBytes(HALF_N)[j]

(* utils.rs: recover_signer; a signature is r, the bytes of s, and v. *)
RecoverSignerVerdict(digest, signature) ==
     Check(signature.v >= 27, "InvalidSignature")
  ?? Check(signature.v - 27 <= 1, "InvalidRecoveryId")
  ?? Check(~IsHighS(ToBeBytes(signature.s)), "InvalidSignature")
  ?? Check(Recovered(digest, signature.r, signature.s, signature.v - 27) # NoKey,
           "InvalidSignature")

(* The program accepts: the key recovered is config.signer. *)
AcceptedOnChain(digest, signature, signer) ==
  /\ RecoverSignerVerdict(digest, signature) = Ok
  /\ Recovered(digest, signature.r, signature.s, signature.v - 27) = signer

-----------------------------------------------------------------------------
(* signer.ts: isHighS, on big integers *)
TsIsHighS(s) == s > HALF_N

(* signer.ts: recoverSigner returns, instead of throwing. *)
AcceptedOffChain(digest, signature, signer) ==
  /\ signature.v - 27 \in {0, 1}
  /\ ~TsIsHighS(signature.s)
  /\ Recovered(digest, signature.r, signature.s, signature.v - 27) # NoKey
  /\ Recovered(digest, signature.r, signature.s, signature.v - 27) = signer

(* ECDSA: the s of private key d with nonce k; zero is tried again with    *)
(* another nonce.                                                          *)
RawS(d, digest, k) == (InverseOf(k) * (digest + XCoordinate(k) * d)) % N

(* Mutant: sign without lowS. *)
Compact_AsItComes(d, digest, k) == [r |-> XCoordinate(k), s |-> RawS(d, digest, k)]

(* secp256k1.sign with lowS, without a recovery bit. *)
Compact(d, digest, k) ==
  LET s == RawS(d, digest, k)
  IN  [r |-> XCoordinate(k), s |-> IF TsIsHighS(s) THEN N - s ELSE s]

(* attachRecoveryId tries 0, then 1; a trial that recovers no key throws.  *)
RecoveryId(d, digest, compact) ==
  IF Recovered(digest, compact.r, compact.s, 0) = d THEN 0 ELSE 1

SignDigestVerdict(d, digest, k) ==
  LET compact == Compact(d, digest, k)
      trial(recovery_id) == Recovered(digest, compact.r, compact.s, recovery_id)
  IN     Check(trial(0) # NoKey, "InvalidPoint")
      ?? Check(trial(RecoveryId(d, digest, compact)) = d, "RecoveryIdNotFound")

(* signer.ts: LocalSignerBackend.signDigest; the public key of d is d * G. *)
SignDigest(d, digest, k) ==
  LET compact == Compact(d, digest, k)
  IN  [r |-> compact.r, s |-> compact.s, v |-> 27 + RecoveryId(d, digest, compact)]
=============================================================================
