---------------------------- MODULE MCSplitter ----------------------------
(***************************************************************************)
(* Small instances of the whole program: the actors, the accounts, and for *)
(* each run the instructions that reach the program.  The cfg of a run     *)
(* picks the sets it works with.                                           *)
(***************************************************************************)
EXTENDS Splitter

CONSTANTS
  dflt, adm, pau, p1, p2, mer, tr1, tr2, ipc, usdc, usdt,  \* addresses
  zero, k1, k2,                                            \* signer keys
  r1, r2,                                                  \* routes
  cfgPda, profPda, listPda, np1, np2,                       \* protocol accounts
  ataP1, ataMer, ataTr1, ataTr2, ataIpc, none              \* token accounts

MCPubkeys ==
  {dflt, adm, pau, p1, p2, mer, tr1, tr2, ipc, usdc, usdt, listPda, <<p1, 1>>}
MCSignerKeys == {zero, k1, k2}
Nobody == {}

MCToken ==
  [a \in {ataP1, ataMer, ataTr1, ataTr2, ataIpc} |->
     [mint |-> usdc,
      owner |-> CASE a = ataP1 -> p1 [] a = ataMer -> mer [] a = ataTr1 -> tr1
                  [] a = ataTr2 -> tr2 [] a = ataIpc -> ipc]]

MCAccounts ==
  {p1, p2, mer, tr1, tr2, ipc, cfgPda, profPda, listPda, np1, np2}
    \cup DOMAIN MCToken \cup ({p1, p2} \X (0 .. MAX_NONCE))

MCNoncePda == [p \in {p1, p2} |-> IF p = p1 THEN np1 ELSE np2]
MCMarkerPda == [p \in {p1, p2} |-> [n \in 0 .. MAX_NONCE |-> <<p, n>>]]

(* A payer can afford two payments of 400 and the rent, not three.         *)
(* Somebody has sent lamports to p2's counter and first marker, more and   *)
(* less than their rent; tr1 is a wallet that holds too little.            *)
MCFunds ==
  [a \in MCAccounts |->
     CASE a \in {p1, p2} -> 830
       [] a = ataP1 -> 400
       [] a = mer -> 10
       [] a = tr1 -> 2
       [] a = np2 -> 7
       [] a = <<p2, 0>> -> 4
       [] OTHER -> 0]

-----------------------------------------------------------------------------
Quote(payer, nonce, token, gross, route, until) ==
  [payer |-> payer, merchant |-> mer, token |-> token, gross_amount |-> gross,
   ip_creator |-> ipc, valid_until |-> until, order |-> nonce, nonce |-> nonce,
   route_id |-> route]

(* The transaction an honest client builds around a native quote. *)
Native(quote, key, treasury) ==
  [quote |-> quote, recovered |-> key, payer |-> quote.payer, nonce |-> quote.nonce,
   merchant |-> quote.merchant, treasury |-> treasury, ip_creator |-> ipc]

Stable(quote, key, treasuryAta) ==
  [quote |-> quote, recovered |-> key, payer |-> quote.payer, nonce |-> quote.nonce,
   mint |-> usdc, remaining |-> <<ataP1, ataMer, treasuryAta, ataIpc>>,
   read_only |-> {}, frozen |-> {}]

Params(stablecoins, routes) ==
  [admin |-> adm, signer |-> k1, pauser |-> pau, treasury |-> tr1,
   stablecoins |-> stablecoins, route_ids |-> routes,
   treasury_bps |-> [i \in DOMAIN routes |-> IF i = 1 THEN 500 ELSE 0],
   ip_creator_bps |-> [i \in DOMAIN routes |-> IF i = 1 THEN 100 ELSE 0]]

Update(route, treasury_bps, ip_creator_bps, route_treasury) ==
  [route_id |-> route, treasury_bps |-> treasury_bps,
   ip_creator_bps |-> ip_creator_bps, route_treasury |-> route_treasury]

Edit(tokens, allowed) == [tokens |-> tokens, allowed |-> allowed, remaining |-> tokens]

-----------------------------------------------------------------------------
(* Settlement: one payer pays natively and in tokens, another natively,    *)
(* while signer, treasury, route and whitelist change under way.           *)
SettleQuotes ==
  {Quote(p1, 0, dflt, 400, r1, 1), Quote(p1, 1, dflt, 400, r1, 2),
   Quote(p1, 2, dflt, 400, r1, 2), Quote(p2, 0, dflt, 400, r1, 3)}

(* The same quotes in transactions that name other accounts than the quote *)
(* and the config call for, one at a time.                                 *)
MisaddressedNativeTxs ==
  LET tx == Native(Quote(p2, 0, dflt, 400, r1, 3), k1, tr1)
  IN  {[tx EXCEPT !.merchant = p1], [tx EXCEPT !.treasury = mer],
       [tx EXCEPT !.treasury = p1], [tx EXCEPT !.ip_creator = p1, !.treasury = tr2],
       [tx EXCEPT !.ip_creator = p2], [tx EXCEPT !.treasury = np2],
       [tx EXCEPT !.nonce = 1], [tx EXCEPT !.payer = p1],
       [tx EXCEPT !.treasury = <<p2, 0>>]}

(* A payment to the address of p1's second marker, which may not exist yet. *)
ToMarkerTxs ==
  LET quote == [Quote(p2, 1, dflt, 200, r1, 3) EXCEPT !.merchant = <<p1, 1>>]
  IN  {[Native(quote, k1, tr1) EXCEPT !.merchant = <<p1, 1>>]}

SettleNativeTxs ==
  {Native(q, k, t) : q \in SettleQuotes, k \in {k1}, t \in {tr1, tr2}}
    \cup {Native(Quote(p1, 0, dflt, 400, r1, 2), k2, tr1)}
    \cup MisaddressedNativeTxs \cup ToMarkerTxs

SettleStableQuotes == {Quote(p1, 0, usdc, 200, r1, 2), Quote(p1, 1, usdc, 200, r1, 2)}

MisaddressedStableTxs ==
  LET tx == Stable(Quote(p1, 0, usdc, 200, r1, 2), k1, ataTr1)
  IN  {[tx EXCEPT !.remaining[2] = ataTr2], [tx EXCEPT !.remaining[1] = ataMer],
       [tx EXCEPT !.remaining[4] = ataTr2], [tx EXCEPT !.remaining[3] = ataMer],
       [tx EXCEPT !.remaining[2] = mer], [tx EXCEPT !.remaining[1] = p1],
       [tx EXCEPT !.quote.token = dflt]}

SettleStableTxs ==
  {Stable(q, k1, t) : q \in SettleStableQuotes, t \in {ataTr1, ataTr2}}
    \cup {[Stable(q, k1, ataTr1) EXCEPT !.remaining = SubSeq(@, 1, 3)] :
           q \in SettleStableQuotes}
    \cup {[Stable(q, k1, ataTr1) EXCEPT !.read_only = {ataMer}] :
           q \in SettleStableQuotes}
    \cup {[Stable(q, k1, ataTr1) EXCEPT !.frozen = {ataTr1}] : q \in SettleStableQuotes}
    \cup MisaddressedStableTxs

SettleRouteUpdates == {Update(r1, 100, 0, tr2), Update(r1, 1000, 0, dflt)}
SettleTokenUpdates == {Edit(<<usdc>>, <<FALSE>>), Edit(<<usdc>>, <<TRUE>>)}
SettleParams == {Params(<<usdc>>, <<r1>>)}

-----------------------------------------------------------------------------
(* Governance: every role changes hands, paused or not, zero keys offered; *)
(* a route table that repeats r1, two routes to reconfigure, one of them   *)
(* new, and one slot to put it in; every order of adding and removing two  *)
(* of three mints, from an empty, a partial and a full list without        *)
(* repetitions.                                                            *)
RolesPayments == {Native(Quote(p1, 0, dflt, 400, r1, 1), k, tr1) : k \in {zero, k1}}

GovernanceUpdates ==
  {Update(r1, 500, 100, tr2), Update(r2, 0, 0, dflt),
   Update(r2, 501, 0, dflt), Update(r1, 0, 101, dflt)}

WhitelistMints == {usdc, usdt, ipc}
WhitelistUpdates ==
  {Edit(<<m>>, <<b>>) : m \in WhitelistMints \cup {mer}, b \in BOOLEAN}
    \cup {Edit(<<m, n>>, <<b, c>>) : m, n \in WhitelistMints, b, c \in BOOLEAN}
    \cup {Edit(<<usdc>>, <<>>), [Edit(<<usdc>>, <<FALSE>>) EXCEPT !.remaining = <<>>],
          [Edit(<<usdt>>, <<TRUE>>) EXCEPT !.remaining = <<usdc>>]}

GovernanceParams ==
  {Params(list, <<r1, r1>>) : list \in {<<>>, <<usdc>>, <<usdt, usdc>>}}

(* The same with a list in which initialize was given one mint twice. *)
RepeatedMint == {Params(<<usdc, usdc>>, <<r1>>)}

(* A quote whose merchant is the program's own token_list account. *)
ListAsMerchant == [Quote(p1, 0, dflt, 400, r1, 1) EXCEPT !.merchant = listPda]
ListPayments == {Native(ListAsMerchant, k1, tr1)}
=============================================================================
