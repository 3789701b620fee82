----------------------------- MODULE MCSettleTx -----------------------------
(***************************************************************************)
(* Small instance of the step-by-step settlement: transactions that fail   *)
(* at every step, before and after the nonce is written.                   *)
(***************************************************************************)
EXTENDS MCSplitter, SettleTx

(* p1 has tokens for one payment and for all but the royalty of another;   *)
(* p2 has what it owes, but not the rent of its nonce accounts as well.    *)
(* p1's second marker has part of its rent already, p2's counter all of    *)
(* it; tr1 holds too little, as it did before.                             *)
TxFunds ==
  [a \in MCAccounts |->
     CASE a = p1 -> 830 [] a = p2 -> 405 [] a = ataP1 -> 399
       [] a = mer -> 10 [] a = tr1 -> 2
       [] a = <<p1, 1>> -> 4 [] a = np2 -> 7 [] OTHER -> 0]

(* One transaction that goes through at nonce 0 and one at nonce 1, for    *)
(* either treasury; the rest fails, each at another step.                  *)
TxNativeTxs ==
  LET tx == Native(Quote(p1, 0, dflt, 400, r1, 1), k1, tr1)
  IN  {Native(Quote(p1, n, dflt, 400, r1, 1), k1, t) : n \in {0, 1}, t \in {tr1, tr2}}
        \cup {Native(Quote(p1, 0, dflt, 818, r1, 1), k1, tr1),   \* leaves a dust balance
              Native(Quote(p1, 2, dflt, 10, r1, 1), k1, tr1),    \* the last nonce
              Native(Quote(p1, 0, dflt, 400, r1, 0), k1, tr1),   \* expires at once
              Native(Quote(p2, 0, dflt, 400, r1, 1), k1, tr1),   \* no money for the rent
              Native(Quote(p1, 0, dflt, 400, r1, 1), k2, tr1),
              [tx EXCEPT !.ip_creator = p2], [tx EXCEPT !.treasury = np1],
              [tx EXCEPT !.treasury = <<p1, 0>>]}

TxStableTxs ==
  LET tx(nonce) == Stable(Quote(p1, nonce, usdc, 200, r1, 1), k1, ataTr1)
  IN  {tx(0), tx(1), [tx(0) EXCEPT !.read_only = {ataP1}],
       [tx(0) EXCEPT !.remaining = SubSeq(@, 1, 3)], [tx(0) EXCEPT !.remaining[4] = ataTr2],
       [tx(1) EXCEPT !.remaining[3] = ataTr2],
       [tx(0) EXCEPT !.frozen = {ataMer}], [tx(0) EXCEPT !.frozen = {ataTr1}],
       [tx(1) EXCEPT !.frozen = {ataIpc}],
       [tx(0) EXCEPT !.remaining[2] = ataTr1], [tx(0) EXCEPT !.quote.token = dflt]}
=============================================================================
