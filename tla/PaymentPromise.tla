--------------------------- MODULE PaymentPromise ---------------------------
(***************************************************************************)
(* What the program promises to those who only watch payments and account  *)
(* holdings, without nonces, routes, roles or clocks: a quote is paid by   *)
(* its own payer, at most once, whole or not at all; what one account      *)
(* gives, at most three others receive; the two fees stay within their     *)
(* caps; and nothing else ever changes what anybody holds.                 *)
(***************************************************************************)
EXTENDS Integers, Sequences

CONSTANTS
  Payers, Accounts,
  FUNDS,               \* what every account holds at first
  NONE,                \* nobody receives this share
  BPS_DENOMINATOR, MAX_TREASURY_BPS, MAX_IP_CREATOR_BPS

VARIABLES
  paid,   \* paid[p]: the quotes payer p has paid, oldest first
  held    \* held[a]: what account a holds

Init ==
  /\ paid = [p \in Payers |-> <<>>]
  /\ held = FUNDS

PaidBefore(quote) == \E p \in Payers : \E i \in DOMAIN paid[p] : paid[p][i] = quote

Gain(a) == IF a = NONE THEN 0 ELSE held'[a] - held[a]

(* share is at most bps of the gross amount, exactly, without rounding. *)
WithinCap(share, gross, bps) == share >= 0 /\ share * BPS_DENOMINATOR <= gross * bps

(* One account gives the gross amount and those that gain share it: the    *)
(* merchant, and the treasury and the IP creator if anything is due to     *)
(* them.                                                                   *)
Transferred(gross) ==
  LET receivers == {a \in Accounts : Gain(a) > 0}
  IN  \E from \in Accounts \ receivers :
        /\ Gain(from) = -gross
        /\ \A a \in Accounts \ (receivers \cup {from}) : Gain(a) = 0
        /\ \E merchant \in receivers :
           \E treasury, ip_creator \in (receivers \ {merchant}) \cup {NONE} :
             /\ treasury = ip_creator => treasury = NONE
             /\ receivers \subseteq {merchant, treasury, ip_creator}
             /\ WithinCap(Gain(treasury), gross, MAX_TREASURY_BPS)
             /\ WithinCap(Gain(ip_creator), gross, MAX_IP_CREATOR_BPS)
             /\ Gain(merchant) + Gain(treasury) + Gain(ip_creator) = gross

Pay(p) ==
  /\ Len(paid'[p]) = Len(paid[p]) + 1
  /\ LET quote == paid'[p][Len(paid'[p])]
     IN  /\ paid' = [paid EXCEPT ![p] = Append(@, quote)]
         /\ quote.payer = p
         /\ ~PaidBefore(quote)
         /\ Transferred(quote.gross_amount)

Next == \E p \in Payers : Pay(p)

Spec == Init /\ [][Next]_<<paid, held>>
=============================================================================
